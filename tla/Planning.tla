------------------------------ MODULE Planning ------------------------------
(***************************************************************************)
(* Recommendations on request (app/api/routes/recommendations.py over      *)
(* services/recommendation_service.py, flight_snapshot_service.py and      *)
(* trip_intake.get_trip_context) for one trip: POST /recommendations and   *)
(* POST /recommendations/recompute, which first saves a new home address,  *)
(* then computes, then saves the preference overrides.  Every await of the *)
(* handler is a point where another request may run; the database may fail *)
(* at each of its uses, AeroDataBox at each lookup, the parsing of what it *)
(* replies; the flight may be evicted from the cache, and the process may  *)
(* restart and lose all of it.                                             *)
(***************************************************************************)
EXTENDS Flights

CONSTANTS
  Requests,     \* requests in flight at once
  Cases,        \* bounds and worlds of a behaviour (see Init)
  Day           \* midnight UTC of the departure date

MaybeMinutes == Nat \union {None}

(* A cell of tsa_baselines.json: some wait, and percentiles in order.      *)
CellTypes(cell) ==
  /\ cell \in [p25 : Nat, p50 : Nat, p80 : Nat]
  /\ cell.p50 > 0 /\ cell.p25 <= cell.p50 /\ cell.p50 <= cell.p80

(* The services answer in minutes, never in fewer than none.               *)
WorldTypes(w) ==
  /\ w.maps # None => w.maps \in [duration : Nat, pessimistic : MaybeMinutes,
                                  optimistic : MaybeMinutes]
  /\ w.ahead \in BOOLEAN
  /\ CellTypes(w.cell) /\ w.live \in MaybeMinutes
  /\ w.airport.timings \in [curb : Nat, security : Nat, gate : Nat,
                            parking : Nat, transit : Nat]
  /\ LET graph == w.airport.graph
     IN  graph # None =>
           /\ \A kind \in DOMAIN graph.entry :
                graph.entry[kind] \in MaybeMinutes
           /\ graph.security \in MaybeMinutes /\ graph.gate \in MaybeMinutes
           /\ graph.defaults \in [entry : Nat, security : Nat, gate : Nat]
           /\ \A mode \in Modes : \A gate, children \in BOOLEAN :
                WalkingTimes(graph, mode, gate, children) # None

ASSUME PlanAssumption ==
  /\ Day \in Int
  /\ \A case \in Cases :
       /\ \A w \in case.worlds : WorldTypes(w)
       /\ case.prefs \subseteq Preferences
       /\ \A prefs \in case.prefs, overrides \in case.overrides :
            /\ Effective(prefs, overrides) \in Preferences
            /\ DOMAIN overrides \subseteq DOMAIN prefs
       /\ \A reply \in case.adb \union case.news : ReplyTypes(reply)
       /\ case.faults \in Nat /\ case.restarts \in Nat
       /\ case.evictions \in Nat

VARIABLES
  bounds,       \* the case: what may be asked, and how often what may fail
  world,        \* what Google, the graph and the TSA data say
  adb,          \* what AeroDataBox replies now
  reported,     \* departures AeroDataBox has reported so far
  cache,        \* _flight_cache: the flights of the trip's number, or None
  row,          \* the trip's row: prefs and home
  store,        \* the context of the in-memory store, None after a restart
  req,          \* req[r]: the request, as far as it got
  met           \* met[r]: requests that were in flight together with r

planVars == <<bounds, world, adb, reported, cache, row, store, req, met>>

NoOverrides == <<>>

Idle == [at |-> "idle", home |-> None, overrides |-> NoOverrides,
         loaded |-> None, saved |-> FALSE, kept |-> FALSE, looked |-> "none",
         context |-> None, snapshot |-> None, life |-> 0, outcome |-> 0]

InFlight == {r \in Requests : req[r].at \notin {"idle", "done"}}

Spend == bounds.faults > 0
         /\ bounds' = [bounds EXCEPT !.faults = @ - 1]

(* A use of the database that works, or one that fails.                    *)
Works == UNCHANGED bounds

(* Ways left to lose the cached flight: while the number stays the same,   *)
(* it has not been lost.                                                   *)
Lives == bounds.restarts + bounds.evictions

-----------------------------------------------------------------------------
(* The request comes in.  Without overrides and home it is also what POST  *)
(* /recommendations does.                                                  *)
Ask(r) ==
  /\ req[r].at = "idle"
  /\ \E home \in bounds.homes, overrides \in bounds.overrides :
       req' = [req EXCEPT ![r] =
         [Idle EXCEPT !.at = IF home = None THEN "context" ELSE "home",
                      !.home = home, !.overrides = overrides]]
  /\ met' = [q \in Requests |-> IF q = r THEN met[q] \union InFlight
                                ELSE IF q \in InFlight
                                THEN met[q] \union {r} ELSE met[q]]
  /\ UNCHANGED <<bounds, world, adb, reported, cache, row, store>>

(* trip_row = await db.get(...): the row as it is now stays in the         *)
(* session, also for the second get; a failure skips the save.             *)
LoadForHome(r) ==
  /\ req[r].at = "home"
  /\ \/ Works /\ req' = [req EXCEPT ![r].at = "commit", ![r].loaded = row]
     \/ Spend /\ req' = [req EXCEPT ![r].at = "context"]
  /\ UNCHANGED <<world, adb, reported, cache, row, store, met>>

(* Faulty variant: the address is set but never committed.                 *)
CommitHomeForgotten(r) ==
  /\ req[r].at = "commit"
  /\ req' = [req EXCEPT ![r].at = "context", ![r].saved = TRUE]
  /\ UNCHANGED <<bounds, world, adb, reported, cache, row, store, met>>

(* The commit writes the address alone.                                    *)
CommitHome(r) ==
  /\ req[r].at = "commit"
  /\ \/ /\ Works
        /\ row' = IF req[r].loaded.home = req[r].home THEN row
                  ELSE [row EXCEPT !.home = req[r].home]
        /\ req' = [req EXCEPT ![r].at = "context", ![r].saved = TRUE,
                              ![r].loaded.home = req[r].home]
     \/ /\ Spend
        /\ req' = [req EXCEPT ![r].at = "context", ![r].loaded = None]
        /\ UNCHANGED row
  /\ UNCHANGED <<world, adb, reported, cache, store, met>>

(* get_trip_context: the row through a session of its own, or the store's  *)
(* copy when that fails.                                                   *)
ReadContext(r) ==
  /\ req[r].at = "context"
  /\ \E from \in {row, store} :
       /\ IF from = row THEN Works ELSE Spend
       /\ req' = IF from = None
                 THEN [req EXCEPT ![r].at = "done", ![r].outcome = 404]
                 ELSE [req EXCEPT ![r].at = "flight", ![r].context =
                         [prefs |-> Effective(from.prefs, req[r].overrides),
                          home |-> from.home, stored |-> from = row]]
  /\ UNCHANGED <<world, adb, reported, cache, row, store, met>>

(* What build_flight_snapshot may use: the cached flights, else a lookup.  *)
FlightsNow == IF cache # None THEN [error |-> "none", flights |-> cache]
              ELSE Lookup(adb)

(* Faulty variant: the route forgets strict, errors are swallowed.         *)
NeverStrict(answer) == FALSE

(* A lookup that raises: strict passes the error on.                       *)
Strict(answer) == IsError(answer)

(* Faulty variant: nothing is cached.                                      *)
RememberNothing(flights) == cache

(* A non-empty list is cached until it is evicted or the process ends.     *)
Remember(flights) == IF flights = <<>> THEN cache ELSE flights

(* The snapshot is there, and how it came about: "ok", the fallback of a   *)
(* swallowed error ("failed") or of an unexpected exception ("crashed").   *)
Planned(r, looked, snapshot) ==
  req' = [req EXCEPT ![r].at = "answer", ![r].looked = looked,
                     ![r].life = Lives, ![r].snapshot = snapshot]

(* The flights reach the cache; what they say of the departure is known.   *)
Receives(flights) ==
  /\ cache' = Remember(flights)
  /\ reported' = reported \union
       {Departure(flights[i]) : i \in DOMAIN flights}

(* build_flight_snapshot(strict=True): the lookup blocks, nothing runs     *)
(* meanwhile.  An exception that is no AeroDataBoxError yields the         *)
(* fallback even so, before or after the flights are cached.               *)
BuildSnapshot(r) ==
  /\ req[r].at = "flight"
  /\ LET answer == FlightsNow
     IN  \/ /\ IF Strict(answer)
               THEN req' = [req EXCEPT ![r].at = "done", ![r].outcome =
                              IF answer.error = RateLimited THEN 429 ELSE 503]
               ELSE Planned(r, IF IsError(answer) THEN "failed" ELSE "ok",
                            SnapshotOf(answer.flights, None, Day))
            /\ Receives(answer.flights) /\ UNCHANGED bounds
         \/ /\ ~ IsError(answer)
            /\ Spend /\ Planned(r, "crashed", FallbackSnapshot(Day))
            /\ \/ Receives(answer.flights)
               \/ UNCHANGED <<cache, reported>>
  /\ UNCHANGED <<world, adb, row, store, met>>

(* The journey of an answered request.                                     *)
JourneyOf(r) == Journey(world, req[r].context.prefs, req[r].snapshot)

(* _build_response, its awaits included; then overrides are saved, from    *)
(* the session's copy of the row if it has one.                            *)
Respond(r) ==
  /\ req[r].at = "answer"
  /\ req' = [req EXCEPT
       ![r].at = IF req[r].overrides = NoOverrides THEN "done"
                 ELSE IF req[r].loaded = None THEN "load" ELSE "save",
       ![r].outcome = 200]
  /\ UNCHANGED <<bounds, world, adb, reported, cache, row, store, met>>

(* The second db.get, when the session has no copy yet.                    *)
LoadForOverrides(r) ==
  /\ req[r].at = "load"
  /\ \/ Works /\ req' = [req EXCEPT ![r].at = "save", ![r].loaded = row]
     \/ Spend /\ req' = [req EXCEPT ![r].at = "done"]
  /\ UNCHANGED <<world, adb, reported, cache, row, store, met>>

(* Faulty variant: the overrides go on top of the stored context's copy.   *)
MergedWithStore(r) ==
  Effective(IF store = None THEN req[r].loaded.prefs ELSE store.prefs,
            req[r].overrides)

(* The preferences to write: the copy's, with the overrides on top.        *)
Merged(r) == Effective(req[r].loaded.prefs, req[r].overrides)

(* preferences_json is one column: it is written whole, when it changed.   *)
CommitOverrides(r) ==
  /\ req[r].at = "save"
  /\ \/ /\ Works
        /\ row' = IF Merged(r) = req[r].loaded.prefs THEN row
                  ELSE [row EXCEPT !.prefs = Merged(r)]
        /\ req' = [req EXCEPT ![r].at = "done", ![r].kept = TRUE]
     \/ Spend /\ UNCHANGED row /\ req' = [req EXCEPT ![r].at = "done"]
  /\ UNCHANGED <<world, adb, reported, cache, store, met>>

-----------------------------------------------------------------------------
(* The surroundings.                                                       *)

(* AeroDataBox's answer changes: a delay, an outage, its end.              *)
AdbChanges ==
  /\ bounds.news # {}
  /\ \E reply \in bounds.news :
       adb' = reply /\ bounds' = [bounds EXCEPT !.news = @ \ {reply}]
  /\ UNCHANGED <<world, reported, cache, row, store, req, met>>

(* Other trips' flights fill the cache up to _FLIGHT_CACHE_MAX and this    *)
(* one is the oldest.                                                      *)
Evict ==
  /\ cache # None /\ bounds.evictions > 0
  /\ bounds' = [bounds EXCEPT !.evictions = @ - 1]
  /\ cache' = None
  /\ UNCHANGED <<world, adb, reported, row, store, req, met>>

(* A redeploy: requests are cut off, the cache and the store are gone.     *)
Restart ==
  /\ bounds.restarts > 0
  /\ bounds' = [bounds EXCEPT !.restarts = @ - 1]
  /\ cache' = None /\ store' = None
  /\ req' = [r \in Requests |-> IF r \in InFlight
                                THEN [req[r] EXCEPT !.at = "done"] ELSE req[r]]
  /\ UNCHANGED <<world, adb, reported, row, met>>

-----------------------------------------------------------------------------
PlanInit ==
  \E case \in Cases :
    /\ world \in case.worlds
    /\ \E prefs \in case.prefs :
         row = [prefs |-> prefs, home |-> "old"]
    /\ bounds = [homes |-> case.homes, overrides |-> case.overrides,
                 faults |-> case.faults, news |-> case.news,
                 restarts |-> case.restarts, evictions |-> case.evictions]
    /\ adb \in case.adb
    /\ reported = {} /\ cache = None /\ store = row
    /\ req = [r \in Requests |->
                IF r \in case.requests THEN Idle
                ELSE [Idle EXCEPT !.at = "done"]]
    /\ met = [r \in Requests |-> {}]

RequestStep(r) ==
  \/ Ask(r) \/ LoadForHome(r) \/ CommitHome(r) \/ ReadContext(r)
  \/ BuildSnapshot(r) \/ Respond(r) \/ LoadForOverrides(r)
  \/ CommitOverrides(r)

PlanNext ==
  (\E r \in Requests : RequestStep(r)) \/ AdbChanges \/ Evict \/ Restart

PlanSpec == PlanInit /\ [][PlanNext]_planVars

-----------------------------------------------------------------------------
(* Properties.                                                             *)

Answered == {r \in Requests : req[r].outcome = 200}

(* Every plan can be kept: no segment lasts less than nothing (the schema  *)
(* refuses one that does), the traveller leaves, arrives, clears security  *)
(* and is at the gate in that order, and what is left until boarding is    *)
(* the comfort buffer, whatever the services answered.                     *)
PlanCanBeKept ==
  \A r \in Answered :
    LET j == JourneyOf(r)
        departure == req[r].snapshot.departure
        plan == Timeline(departure, j)
    IN  /\ \A segment \in DOMAIN j : j[segment] >= 0
        /\ plan.leave_home_at <= plan.arrive_airport_at
        /\ plan.arrive_airport_at <= plan.clear_security_at
        /\ plan.clear_security_at <= GateArrivalAt(departure, j)
        /\ GateArrivalAt(departure, j) <= plan.at_gate_at
        /\ plan.at_gate_at + j.comfort_buffer = departure - BOARDING

(* Preferences that ask for more than prefs do, in one respect each.  A    *)
(* gate time of the traveller's own replaces the profile's buffer, so it   *)
(* is compared only without one.                                           *)
Heavier(prefs) ==
  {[prefs EXCEPT !.traveling_with_children = TRUE],
   [prefs EXCEPT !.has_boarding_pass = FALSE],
   [prefs EXCEPT !.bag_count = IF @ = 10 THEN @ ELSE @ + 1],
   [prefs EXCEPT !.extra_time_minutes = 30],
   [prefs EXCEPT !.security_access = "none"]}
  \union (IF prefs.gate_time_minutes # None THEN {}
          ELSE {[prefs EXCEPT !.confidence_profile =
                   IF @ = "risk" THEN "sweet" ELSE "safety"]})

(* Someone with more to do, or who wants to be safer, is never told to     *)
(* leave later: children, bags, no boarding pass, more buffer, no fast     *)
(* lane, a more careful profile, in every combination with the rest.       *)
MoreToDoNeverLater ==
  \A r \in Answered :
    \A heavier \in Heavier(req[r].context.prefs) :
      LET departure == req[r].snapshot.departure
      IN  LeaveHomeAt(departure, Journey(world, heavier, req[r].snapshot))
            <= LeaveHomeAt(departure, JourneyOf(r))

(* Splitting the driver's walk into parking and terminal loses none of it: *)
(* together they last as long as the whole walk from the car park, or as   *)
(* the walk from the entry where that is longer.                           *)
SplitKeepsTheWalk ==
  \A r \in Answered :
    LET prefs == req[r].context.prefs
        children == prefs.traveling_with_children
        gate == req[r].snapshot.gate # None
        walks == Walks(world.airport, prefs, gate)
        graph == WalkingTimes(world.airport.graph, "driving", gate, children)
        timings == world.airport.timings
    IN  prefs.transport_mode = "driving" =>
          walks.parking + walks.entry =
            IF graph = None
            THEN Larger(Walk(timings.parking, children),
                        Walk(timings.curb, children))
            ELSE Larger(graph.entry, Walk(timings.parking, children)
                                       - Walk(timings.curb, children))

(* Someone who was exactly on time, waited from the planned gate arrival   *)
(* until departure and so arrived as predicted has the delta 0: positive   *)
(* means earlier than predicted (_compute_accuracy_delta).                 *)
PunctualIsExact ==
  \A r \in Answered :
    LET departure == req[r].snapshot.departure
        waited == departure - GateArrivalAt(departure, JourneyOf(r))
    IN  AccuracyDelta(waited, Timeline(departure, JourneyOf(r)), departure)
          = 0

(* A plan is for a departure AeroDataBox has reported.  The invented ten   *)
(* o'clock stands in only where it answered that it knows no such flight   *)
(* or no time for it, or where an unexpected exception was swallowed,      *)
(* never for an outage of AeroDataBox, however requests, outages,          *)
(* evictions and restarts interleave.                                      *)
NoInventedDeparture ==
  \A r \in Answered :
    \/ req[r].snapshot.departure \in reported
    \/ /\ req[r].snapshot.source = "fallback"
       /\ req[r].looked \in {"ok", "crashed"}

(* An outage refuses nobody a flight that was planned for and is still     *)
(* cached: once a plan was made from AeroDataBox's answer, later requests  *)
(* get their plan whatever it replies, until a restart or an eviction.     *)
CachedFlightsOutlastOutage ==
  [][\A r, q \in Requests :
       /\ req[r].outcome = 0 /\ req'[r].outcome \in {429, 503}
       /\ req[q].looked = "ok" /\ req[q].snapshot.source = "adb"
       => req[q].life # Lives]_planVars

(* A plan starts from the address the request saved before asking for it,  *)
(* unless another request with an address was in flight as well, or the    *)
(* row could not be read and the stored context stood in.                  *)
PlanStartsFromTheNewHome ==
  \A r \in Answered :
    req[r].saved =>
      \/ req[r].context.home = req[r].home
      \/ ~ req[r].context.stored
      \/ \E q \in met[r] : req[q].home # None

(* Overrides that were saved stay in the row.  Only a request for the same *)
(* key, or one that was in flight at the same time and wrote back the      *)
(* preferences it had loaded, replaces them.                               *)
OverridesSurvive ==
  \A r \in Requests : req[r].kept =>
    \A k \in DOMAIN req[r].overrides :
      \/ row.prefs[k] = req[r].overrides[k]
      \/ \E q \in Requests \ {r} :
           /\ req[q].overrides # NoOverrides
           /\ q \in met[r] \/ k \in DOMAIN req[q].overrides
=============================================================================
