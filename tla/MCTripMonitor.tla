--------------------------- MODULE MCTripMonitor ---------------------------
(***************************************************************************)
(* TLC's instance of the polling agent.  PollingLoop leaves open what a    *)
(* turn does to a trip, and TripMonitor when the turns come, so the two    *)
(* need not be interleaved: a behaviour runs the one or the other, and the *)
(* part that does not run stays as it began.                               *)
(***************************************************************************)
EXTENDS TripMonitor, PollingLoop

VARIABLE part   \* the part this behaviour runs

mcVars == <<part, vars, loopVars>>

Bounds(n, t, e, k, l, f, c) ==
  [news |-> n, traffic |-> t, edits |-> e, taps |-> k, lapses |-> l,
   faults |-> f, cuts |-> c]

(* What may happen to one trip: the airline's news against failures, and   *)
(* the traveller's edits and taps against traffic and failures.            *)
MCBudgets ==
  {Bounds(2, 0, 0, 0, 0, 1, 0), Bounds(1, 0, 0, 0, 0, 0, 1),
   Bounds(0, 2, 0, 0, 0, 0, 0), Bounds(0, 1, 1, 0, 0, 0, 0),
   Bounds(0, 0, 1, 1, 0, 1, 0), Bounds(0, 0, 1, 0, 1, 0, 1)}

(* Nothing fails: heavier traffic is all that happens.                     *)
TrafficOnly == {Bounds(0, 1, 0, 0, 0, 0, 0)}

(* A trip nobody knows the departure of, and a loop with nothing to do.    *)
TripAtRest ==
  /\ ~ row.known /\ ~ row.info /\ row.timeline = None
  /\ journey = (CHOOSE j \in Journeys : TRUE)
  /\ budget = (CHOOSE b \in Budgets : b.news = 0)

LoopAtRest == under_way = {}

(* How long the journey takes matters to edits and traffic, not to news.   *)
OneJourneyForNews == budget.news > 0 => journey = 4

MCInit ==
  /\ Init /\ OneJourneyForNews /\ LoopInit
  /\ \/ part = "trip" /\ LoopAtRest
     \/ part = "loop" /\ TripAtRest

MCNext ==
  \/ part = "trip" /\ Next /\ UNCHANGED <<part, loopVars>>
  \/ part = "loop" /\ LoopNext /\ UNCHANGED <<part, vars>>

(* The one fairness of MonitorSpec and of LoopSpec, for the part that runs.*)
MCStep ==
  \/ part = "trip" /\ TickStep /\ UNCHANGED <<part, loopVars>>
  \/ part = "loop" /\ LoopStep /\ UNCHANGED <<part, vars>>

MCSpec == MCInit /\ [][MCNext]_mcVars /\ WF_mcVars(MCStep)
=============================================================================
