---------------------------- MODULE PollingLoop ----------------------------
(***************************************************************************)
(* The loop of the polling agent (app/services/polling_agent.py,           *)
(* polling_loop) and its place in the process (app/main.py, lifespan):     *)
(* startup, query, the trips of a tick one by one, the sleep between two   *)
(* ticks, the exponential backoff after an error, the failure budget after *)
(* which the loop gives up, shutdown and redeployment.  What happens to a  *)
(* trip in its turn is in TripLifecycle.  Time is the seconds slept.       *)
(***************************************************************************)
EXTENDS Integers, FiniteSets, FiniteSetsExt

CONSTANTS
  Trips,      \* trip ids
  NoTrip,
  MaxFaults   \* bound on failures of the database and of the process

ASSUME LoopAssumption ==
  IsFiniteSet(Trips) /\ NoTrip \notin Trips /\ MaxFaults \in Nat

VARIABLES
  at,         \* where the loop is
  consecutive_errors,
  wait,       \* the sleep it is in, or will take at the end of the tick
  nearest,    \* the interval POLL_INTERVALS gives the loaded trips, or 0
  batch,      \* the loaded trips whose turn has not come
  under_way,  \* the trips in a monitorable status
  served,     \* the trip of this tick _process_trip has last returned from
  failing,    \* seconds slept since the last tick that went well
  faults      \* failures so far

loopVars == <<at, consecutive_errors, wait, nearest, batch, under_way, served,
              failing, faults>>

DEFAULT_SLEEP == 60
BACKOFF_BASE == 60
BACKOFF_MAX == 900
MAX_CONSECUTIVE_ERRORS == 20
HOUR == 3600

(* The seconds to departure that _seconds_to_departure can be told apart   *)
(* by: none, gone, within two hours, within six, later.                    *)
NoDeparture == -999999
Distances == {NoDeparture, -HOUR, HOUR, 3 * HOUR, 7 * HOUR}

(* _get_poll_interval on POLL_INTERVALS.                                   *)
PollInterval(secs) ==
  CASE secs = NoDeparture -> DEFAULT_SLEEP
    [] secs > 6 * HOUR -> 1800
    [] secs > 2 * HOUR /\ secs <= 6 * HOUR -> 600
    [] OTHER -> 300

(* Faulty variant: the cap of the backoff is not applied.                  *)
BackoffUncapped(n) == BACKOFF_BASE * 2^(n - 1)

compute_backoff(n) == Min({BACKOFF_BASE * 2^(n - 1), BACKOFF_MAX})
-----------------------------------------------------------------------------
Points == {"startup", "check", "process", "sleep", "stopped"}

(* The counters stay in their ranges: the error count never passes the     *)
(* limit at which the loop returns (polling_agent.py:707).                 *)
LoopTypeOK ==
  /\ at \in Points
  /\ consecutive_errors \in 0..MAX_CONSECUTIVE_ERRORS
  /\ wait \in Nat /\ nearest \in Nat
  /\ batch \subseteq Trips /\ under_way \subseteq Trips
  /\ served \in Trips \union {NoTrip}
  /\ failing \in Nat
  /\ faults \in 0..MaxFaults

LoopInit ==
  /\ at = "startup" /\ consecutive_errors = 0 /\ wait = 0 /\ nearest = 0
  /\ batch = {} /\ served = NoTrip /\ failing = 0 /\ faults = 0
  /\ under_way \in SUBSET Trips

(* Both startup delays.                                                    *)
Startup ==
  /\ at = "startup" /\ at' = "check"
  /\ UNCHANGED <<consecutive_errors, wait, nearest, batch, under_way, served,
                 failing, faults>>

(* Faulty variant: the loop never gives up.                                *)
ErrorNeverStops ==
  /\ faults < MaxFaults /\ faults' = faults + 1
  /\ consecutive_errors' = consecutive_errors + 1
  /\ at' = "sleep" /\ wait' = compute_backoff(consecutive_errors')
  /\ batch' = {} /\ nearest' = 0
  /\ UNCHANGED <<under_way, served, failing>>

(* The except branch: count, give up at the limit, or back off.            *)
Error ==
  /\ faults < MaxFaults /\ faults' = faults + 1
  /\ consecutive_errors' = consecutive_errors + 1
  /\ IF consecutive_errors' >= MAX_CONSECUTIVE_ERRORS
     THEN at' = "stopped" /\ wait' = 0
     ELSE at' = "sleep" /\ wait' = compute_backoff(consecutive_errors')
  /\ batch' = {} /\ nearest' = 0
  /\ UNCHANGED <<under_way, served, failing>>

(* A good tick: the error count starts again.                              *)
Succeed == consecutive_errors' = 0 /\ failing' = 0

(* No session, or the query fails.                                         *)
QueryFails == at = "check" /\ Error

(* Faulty variant: the error count survives a tick without trips.          *)
QueryEmptyKeepsErrors ==
  /\ at = "check" /\ under_way = {}
  /\ failing' = 0
  /\ at' = "sleep" /\ wait' = DEFAULT_SLEEP
  /\ UNCHANGED <<consecutive_errors, nearest, batch, under_way, served,
                 faults>>

(* There is nothing to monitor.                                            *)
QueryEmpty ==
  /\ at = "check" /\ under_way = {}
  /\ Succeed
  /\ at' = "sleep" /\ wait' = DEFAULT_SLEEP
  /\ UNCHANGED <<nearest, batch, under_way, served, faults>>

(* Faulty variant: the query takes the first trip only.                    *)
QueryLoadsOne ==
  /\ at = "check" /\ under_way # {}
  /\ batch' = {CHOOSE t \in under_way : TRUE} /\ served' = NoTrip
  /\ nearest' = DEFAULT_SLEEP /\ wait' = DEFAULT_SLEEP
  /\ at' = "process"
  /\ UNCHANGED <<consecutive_errors, under_way, failing, faults>>

(* The sleep after this tick is the shortest interval of the loaded trips, *)
(* and never more than DEFAULT_SLEEP.                                      *)
QueryLoads ==
  /\ at = "check" /\ under_way # {}
  /\ batch' = under_way /\ served' = NoTrip
  /\ \E secs \in [under_way -> Distances] :
       nearest' = Min({PollInterval(secs[t]) : t \in under_way})
  /\ wait' = Min({DEFAULT_SLEEP, nearest'})
  /\ at' = "process"
  /\ UNCHANGED <<consecutive_errors, under_way, failing, faults>>

(* _process_trip returns.                                                  *)
Process(t) ==
  /\ at = "process" /\ t \in batch
  /\ batch' = batch \ {t} /\ served' = t
  /\ UNCHANGED <<at, consecutive_errors, wait, nearest, under_way, failing,
                 faults>>

(* _process_trip raises; the loop logs it and goes on with the next trip.  *)
ProcessRaises(t) ==
  /\ at = "process" /\ t \in batch
  /\ faults < MaxFaults /\ faults' = faults + 1
  /\ batch' = batch \ {t}
  /\ UNCHANGED <<at, consecutive_errors, wait, nearest, under_way, served,
                 failing>>

(* A commit fails: the rollback expires the loaded trips, so that logging  *)
(* the exception raises another one, which reaches the loop's except.  So  *)
(* does a failure to close the session after the last trip.                *)
SessionLost == at = "process" /\ Error

TickDone ==
  /\ at = "process" /\ batch = {}
  /\ Succeed
  /\ at' = "sleep"
  /\ UNCHANGED <<wait, nearest, batch, under_way, served, faults>>

Pause ==
  /\ at = "sleep" /\ at' = "check" /\ wait' = 0 /\ nearest' = 0
  /\ failing' = IF consecutive_errors > 0 THEN failing + wait ELSE 0
  /\ UNCHANGED <<consecutive_errors, batch, under_way, served, faults>>

(* The lifespan ends, cancelling the task wherever it waits, and the next  *)
(* process starts; also the manual restart the log message asks for.       *)
Redeploy ==
  /\ faults < MaxFaults /\ faults' = faults + 1
  /\ at' = "startup" /\ consecutive_errors' = 0 /\ wait' = 0 /\ nearest' = 0
  /\ batch' = {} /\ failing' = 0
  /\ UNCHANGED <<under_way, served>>

(* Requests track and untrack trips, and trips complete.                   *)
TripStarts(t) ==
  /\ t \notin under_way /\ under_way' = under_way \union {t}
  /\ UNCHANGED <<at, consecutive_errors, wait, nearest, batch, served, failing,
                 faults>>

TripEnds(t) ==
  /\ t \in under_way /\ under_way' = under_way \ {t}
  /\ UNCHANGED <<at, consecutive_errors, wait, nearest, batch, served, failing,
                 faults>>

LoopStep ==
  \/ Startup \/ QueryEmpty \/ QueryLoads \/ TickDone \/ Pause
  \/ \E t \in Trips : Process(t)

LoopFault ==
  \/ QueryFails \/ SessionLost \/ Redeploy
  \/ \E t \in Trips : ProcessRaises(t)

LoopNext ==
  \/ LoopStep \/ LoopFault
  \/ \E t \in Trips : TripStarts(t) \/ TripEnds(t)

(* The event loop runs the task again after every await, and sleeps end.   *)
LoopSpec == LoopInit /\ [][LoopNext]_loopVars /\ WF_loopVars(LoopStep)

-----------------------------------------------------------------------------
(* The loop gives up only after four hours without one good tick: isolated *)
(* errors, however many, never add up (polling_agent.py:57, 707-712).      *)
StopsAfterFourHours == at = "stopped" => failing >= 4 * HOUR

(* No retry waits longer than a quarter of an hour, and a loop that is     *)
(* doing well looks at its trips every minute, also when POLL_INTERVALS    *)
(* says half an hour: the intervals never pace the ticks.                  *)
WaitBounded ==
  /\ wait <= BACKOFF_MAX
  /\ consecutive_errors = 0 => wait <= DEFAULT_SLEEP

(* As long as the failure budget lasts, a trip under way is processed, over *)
(* and over, whatever fails in between (polling_agent.py:690-694, 716).    *)
EveryTripServed ==
  \A t \in Trips :
    t \in under_way ~> \/ served = t \/ t \notin under_way
                       \/ consecutive_errors = MAX_CONSECUTIVE_ERRORS
=============================================================================
