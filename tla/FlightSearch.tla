---------------------------- MODULE FlightSearch ----------------------------
(***************************************************************************)
(* Finding a flight (app/api/routes/flights.py): by number, one lookup; by *)
(* route, the departures of the day in two windows that fail separately.   *)
(* What is found is filtered and marked flight by flight: departed,        *)
(* canceled, boarding, catchable.  Time is in minutes from the moment the  *)
(* marking starts.  What AeroDataBox replies and how long the drive takes  *)
(* is open at each call.                                                   *)
(***************************************************************************)
EXTENDS Flights, SequencesExt

CONSTANTS
  Replies,      \* what a lookup may come to
  Drives,       \* what Google may answer: None, or a duration
  Queries,      \* requests: [by, dest, slot, airline, home]
  Origins,      \* airports of departure
  Cells,        \* Cells[hour]: the median security wait of the baseline
  Flat          \* walking defaults of an airport

(* The hours of a flight that are known are hours, its airport is one of   *)
(* the origins, and the status kept of it is never taken for None.         *)
FlightTypes(f) ==
  /\ f.localHour \in 0..23 \union {None}
  /\ f.revisedHour \in 0..23 \union {None}
  /\ f.origin \in Origins
  /\ FlightStatus(f) # None

ASSUME SearchAssumption ==
  /\ \A reply \in Replies :
       ReplyTypes(reply) /\ \A f \in Range(reply.list) : FlightTypes(f)
  /\ Drives \subseteq Nat \union {None}
  /\ Cells \in [0..23 -> Nat]
  /\ Flat.curb \in Nat /\ Flat.security \in Nat /\ Flat.gate \in Nat

VARIABLES
  query,        \* the request
  replies,      \* what each lookup replied, in order
  stage,        \* "lookup", "mark", "done"
  todo,         \* flights still to be marked
  marked,       \* flights marked, in order
  journey,      \* drive_cache[o]: minutes to the gate from o, None if unused
  outcome       \* the HTTP status, 0 before the answer

searchVars == <<query, replies, stage, todo, marked, journey, outcome>>

(* The request's two windows, or the one lookup by number.                 *)
Lookups == IF query.by = "route" THEN 2 ELSE 1

(* A request: by number, or by route with a destination and filters.       *)
TIME_WINDOW_RANGES ==
  [morning |-> <<5, 12>>, afternoon |-> <<12, 18>>, evening |-> <<18, 22>>,
   red_eye |-> <<22, 5>>]

Windows == DOMAIN TIME_WINDOW_RANGES

(* _matches_time_window: an unknown hour or window hides nothing.          *)
MatchesTimeWindow(f, slot) ==
  \/ slot \notin Windows
  \/ f.localHour = None
  \/ LET start == TIME_WINDOW_RANGES[slot][1]
         end == TIME_WINDOW_RANGES[slot][2]
     IN  IF start < end THEN f.localHour \in start..(end - 1)
         ELSE f.localHour >= start \/ f.localHour < end

(* _matches_airline, the comparison of names and codes left out.           *)
MatchesAirline(f, airline) == airline = None \/ f.airline = airline

(* The filters of search_flights; a flight without a destination code is   *)
(* dropped by parse_departure.                                             *)
Matches(f) ==
  query.by = "route" =>
    /\ f.dest # None /\ f.dest = query.dest
    /\ MatchesTimeWindow(f, query.slot)
    /\ MatchesAirline(f, query.airline)

-----------------------------------------------------------------------------
(* The lookups.                                                            *)

(* What one reply amounts to: a window of departures, or the number's      *)
(* flights.                                                                *)
Answer(reply) == IF query.by = "route" THEN LookupWindow(reply)
                 ELSE Lookup(reply)

(* lookup_airport_departures over the windows so far; a lookup by number   *)
(* is a single window whose error is raised at once.                       *)
Recovered(rs) == FlattenSeq([i \in DOMAIN rs |-> Answer(rs[i]).flights])

WindowErrors(rs) ==
  {Answer(rs[i]).error : i \in DOMAIN rs} \ {"none"}

Worst(errors) ==
  CHOOSE e \in errors : \A other \in errors : Severity(e) >= Severity(other)

(* Faulty variant: one failed window is enough to give up.                 *)
RaisesAlways(rs) == WindowErrors(rs) # {}

(* Whether an exception leaves the lookup: an error and nothing recovered. *)
Raises(rs) == WindowErrors(rs) # {} /\ Recovered(rs) = <<>>

(* _translate_flights_upstream, _translate_search_upstream: 503 with or    *)
(* without Retry-After (429 here), or 404 for an unknown flight number.    *)
Translated(error) ==
  CASE error = RateLimited -> 429
    [] error = NotFound /\ query.by = "number" -> 404
    [] OTHER -> 503

(* The flights of the list that match, in its order.                       *)
Matching(list) ==
  LET kept[i \in 0..Len(list)] ==
        IF i = 0 THEN <<>>
        ELSE IF Matches(list[i]) THEN Append(kept[i - 1], list[i])
        ELSE kept[i - 1]
  IN  kept[Len(list)]

(* get_flights and search_flights when the last lookup is answered.        *)
Receive(rs) ==
  LET found == Matching(Recovered(rs))
      answer(code) == stage' = "done" /\ outcome' = code /\ todo' = <<>>
  IN  IF Raises(rs) THEN answer(Translated(Worst(WindowErrors(rs))))
      ELSE IF query.by = "number" /\ Recovered(rs) = <<>> THEN answer(404)
      ELSE IF found = <<>> THEN answer(200)
      ELSE stage' = "mark" /\ outcome' = 0 /\ todo' = found

Fetch ==
  /\ stage = "lookup"
  /\ \E reply \in Replies :
       /\ replies' = Append(replies, reply)
       /\ IF Len(replies) + 1 < Lookups
          THEN UNCHANGED <<stage, outcome, todo>>
          ELSE Receive(Append(replies, reply))
  /\ UNCHANGED <<query, marked, journey>>

-----------------------------------------------------------------------------
(* enrich_flights.                                                         *)

DEPARTED_STATUSES == {"Departed", "Landed", "Arrived"}
BOARDING_STATUSES == {"Boarding"}
CANCELED_STATUSES == {"Canceled", "Cancelled", "Diverted"}

(* Minutes until boarding: half an hour before the departure expected.     *)
Margin(f) == Departure(f) - BOARDING

(* Only a flight that may still be caught is measured against the journey. *)
Measured(f) ==
  /\ f.status \notin DEPARTED_STATUSES \union BOARDING_STATUSES
                     \union CANCELED_STATUSES
  /\ Departure(f) # None
  /\ Margin(f) > 0
  /\ query.home

(* The hour whose baseline is used; `departure_hour or 12` has no hour 0.  *)
HourOf(f) ==
  LET local == IF f.revisedHour # None THEN f.revisedHour ELSE f.localHour
      hour == IF local = None THEN UtcHour(Departure(f)) ELSE local
  IN  IF hour = 0 THEN 12 ELSE hour

(* _estimate_min_journey without its cache.                                *)
MinJourney(f, drive) ==
  (IF drive = None THEN FALLBACK_DRIVE ELSE drive)
    + Flat.curb + Flat.security + Cells[HourOf(f)] + Flat.gate

(* Faulty variant: no cache, an estimate per flight.                       *)
EstimateEach(f, drive) == MinJourney(f, drive)

(* drive_cache: the first estimate serves the airport's later flights.     *)
Estimate(f, drive) ==
  IF journey[f.origin] # None THEN journey[f.origin]
  ELSE MinJourney(f, drive)

(* The marks, in the order of the tests.                                   *)
Marks(f, est) ==
  [flight |-> f,
   departed |-> f.status \in DEPARTED_STATUSES
                \/ /\ f.status \notin BOARDING_STATUSES
                                      \union CANCELED_STATUSES
                   /\ Departure(f) # None /\ Departure(f) <= 0,
   canceled |-> f.status \in CANCELED_STATUSES,
   boarding |-> f.status \in BOARDING_STATUSES,
   catchable |-> /\ f.status \notin DEPARTED_STATUSES
                       \union BOARDING_STATUSES \union CANCELED_STATUSES
                 /\ \/ Departure(f) = None
                    \/ Margin(f) > 0 /\ (query.home => Margin(f) >= est)]

Mark ==
  /\ stage = "mark"
  /\ \E drive \in Drives :
       LET f == Head(todo)
           est == IF Measured(f) THEN Estimate(f, drive) ELSE 0
       IN  /\ marked' = Append(marked, Marks(f, est))
           /\ journey' = IF Measured(f)
                         THEN [journey EXCEPT ![f.origin] = est] ELSE journey
  /\ todo' = Tail(todo)
  /\ IF Len(todo) = 1 THEN stage' = "done" /\ outcome' = 200
     ELSE UNCHANGED <<stage, outcome>>
  /\ UNCHANGED <<query, replies>>

-----------------------------------------------------------------------------
SearchInit ==
  /\ query \in Queries
  /\ replies = <<>> /\ stage = "lookup" /\ todo = <<>> /\ marked = <<>>
  /\ journey = [o \in Origins |-> None] /\ outcome = 0

SearchNext == Fetch \/ Mark

SearchSpec == SearchInit /\ [][SearchNext]_searchVars

-----------------------------------------------------------------------------
(* Properties.                                                             *)

(* One window's failure costs the other window's flights nothing: what was *)
(* recovered is answered, with every flight that matches the request.  And *)
(* when every lookup raised, the answer is never an empty list, as if it   *)
(* were a day without flights.  Nothing is said of one window that raised  *)
(* and one that was empty, where lookup_airport_departures raises though   *)
(* its docstring keeps that for two failures; nor of a window of another   *)
(* shape, which the code takes for an empty one.                           *)
FailureHidesNothing ==
  stage = "done" =>
    /\ Recovered(replies) # <<>> =>
         /\ outcome = 200
         /\ \A f \in Range(Recovered(replies)) :
              Matches(f) => \E m \in Range(marked) : m.flight = f
    /\ (\A i \in DOMAIN replies : IsError(Answer(replies[i])))
         => outcome # 200

(* The list does not contradict itself: when a flight can be caught, so    *)
(* can every later one from that airport that is still to leave, whatever  *)
(* its hour's security wait and whatever Google answered meanwhile.        *)
LaterIsCatchable ==
  \A a, b \in Range(marked) :
    /\ a.catchable /\ Measured(a.flight) /\ Measured(b.flight)
    /\ a.flight.origin = b.flight.origin
    /\ Departure(b.flight) >= Departure(a.flight)
    => b.catchable

(* A flight the search offers can be tracked, and then the polling agent   *)
(* plans from the columns instead of from AeroDataBox.  It plans for the   *)
(* same gate and the same hour's security wait, but for the scheduled      *)
(* departure: the delay is in flight_status and not in the plan            *)
(* (snapshot_from_columns against build_flight_snapshot).                  *)
ColumnsKeepAllButTheDelay ==
  \A m \in Range(marked) :
    LET f == m.flight
        plan == SnapshotOf(<<f>>, None, 0)
        status == FlightStatus(f)
        columns == SnapshotFromColumns(FlightInfo(f), status)
    IN  plan.source = "adb" /\ columns # None =>
          /\ columns.departure + status.delay = plan.departure
          /\ columns.gate = plan.gate
          /\ f.localHour # None /\ ~ Delayed(f) =>
               columns.hour = plan.hour
=============================================================================
