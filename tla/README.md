# AirBridge backend: a TLA+ model

AirBridge tells a traveller when to leave for the airport. The backend is one
FastAPI process on asyncio over PostgreSQL (SQLAlchemy, `expire_on_commit=False`,
isolation level READ COMMITTED). Two kinds of coroutine share the tables: the
handlers of the API (`src/src/app/api/routes`) and one polling agent
(`src/src/app/services/polling_agent.py`), which looks at every trip under way
about once a minute, moves it through its phases and notifies the traveller.

Around this core are sign-in and subscriptions (Apple, Supabase, Stripe), the search
for a flight, and the engine that adds up a journey from drive, walk and security
estimates.

There are no locks and no version columns. A coroutine reads a row, awaits
(another query, Google Maps, Firebase, Twilio) and commits the columns it changed
as absolute values to whatever the row has become. Everything difficult in this
program comes from there, from commits that fail half way through a
`_process_trip`, and from limits counted in columns that two coroutines write.

The modules here model those coroutines step by step, TLC checks them on small
instances, and TLAPS proves nearly all of the safety properties: those of a trip's
life, its timing and its charges, of sign-in and subscriptions, of account deletion,
of the polling loop and of plans, for every number of trips, users and concurrent
requests; and that the trip handlers implement the ledger.

Paths below are relative to `src/src/app` unless they start with `tests/`.

## Inventory

| Component | Source | State it keeps | Operations | Status |
|---|---|---|---|---|
| Trip statuses, tier rule | `services/trip_state.py`, `services/trial.py` | none | `advance_status`, `should_activate`, `is_pro` | `TripState` (date parsing left out) |
| Trip write handlers | `api/routes/trips.py`, `services/trip_intake.py` | rows of `trips`, `users.trip_count` | post, track, untrack, update | `TripLifecycle`, `TripLedger` |
| Trip read handlers | `api/routes/trips.py` | none | active, list, history, detail; timeline projection, accuracy delta | the two computations in `Estimates`; the rest only reads |
| Polling agent, one trip | `services/polling_agent.py`, `services/notifications/` | the session's copies of the loaded rows | `_process_trip`: refresh, status pushes, phase advance, feedback, recompute, leave-by push, time-to-go push, SMS | `TripLifecycle` (races, clock open), `TripMonitor` (clock and data) |
| Polling agent, loop | `services/polling_agent.py`, `main.py` | consecutive errors, sleep | startup, query, isolation of a failing trip, backoff, giving up, redeploy | `PollingLoop` |
| Account data | `api/routes/users.py`, `devices.py`, `events.py`, `feedback.py` | `users`, `device_tokens`, `events`, `feedback`, `trips` | register, unregister, record, submit, delete account | `AccountData` (preferences and statistics left out) |
| Sign-in | `api/routes/auth.py`, `services/integrations/apple_auth.py` | `users` | find or create by phone, e-mail, Apple id | `SignIn` |
| Subscriptions | `api/routes/subscriptions.py` | `users.subscription_status`, `stripe_customer_id` | checkout, three webhooks | `Billing` |
| Flight refresh and snapshots | `services/polling_agent.py`, `services/flight_snapshot_service.py` | `trips.flight_status`, `flight_info`, `_flight_cache` | throttle, refresh, snapshot from cache, lookup, columns or fallback | `Flights`, `TripMonitor`, `Planning` |
| Recommendation engine | `services/recommendation_service.py`, `api/routes/recommendations.py`, `services/integrations/tsa_model.py`, `airport_graph.py` | `trips.preferences_json`, `home_address` | plan, recompute with overrides | `Estimates`, `Planning` |
| Flight search | `api/routes/flights.py`, `services/integrations/aerodatabox.py` | none | by number, by route in two windows, marks | `FlightSearch`, `Flights` |
| External clients | `services/integrations/` | a cached airport list | Google, TSA, Firebase, Twilio | drive time in `Estimates`; the others are answers or failures |
| Backfill script | `src/scripts/backfill_flight_snapshots.py` | `trips.flight_status` | one batch | not modelled |
| Configuration, errors, health, version, migrations | `core/`, `src/alembic` | none | | not modelled |

**How they interact.** Requests and the agent meet only in the database. A
request loads its user in the auth dependency (`middleware/auth.py`) in the
session its handler uses, so `trip_count` is as old as the authentication. The
agent loads all monitorable trips with their users in one query and keeps those
copies for the whole tick, minutes when many recommendations are recomputed. It calls
Firebase and Twilio between two commits of the same trip. The phone's taps arrive
as requests. Stripe calls a webhook. The agent and the requests share the flight
cache of the process; the agent plans a tracked trip from the flight columns, a
request plans from AeroDataBox.

**What is hard.** Stale reads before an await used after it (agent and every
handler); lost updates of absolute values (`trip_count`, `push_count`); two
commits for what is one act (push and its count, feedback push and its mark); a
commit failure that expires every object of the session, so that the `except`
that logs the trip raises again and the tick is lost; limits that a concurrent
reset or a lost commit bends; a deletion that is a row of statements; inserts
after a check without a unique constraint; unordered webhooks. PROJECT.json
lists each hazard at its line with the property that watches it.

**What makes each component correct.**

- Trip life: the two status columns agree; the agent never moves a trip back;
  pushes, SMS and feedback requests stay within their caps; an untracked trip
  has its marks, counts and timeline cleared; a user is charged for exactly the trips
  they have tracked, at least when handlers do not overlap; drafts are never
  activated without a tap; a complete trip is not untracked.
- Loop: it serves every trip, survives any isolated failure, waits within
  bounds and stops only after four hours of failures.
- Account data: deletion leaves nothing behind, is not refused for reasons of
  its own, and a device is registered once.
- One trip over time: news of the flight and the leave-by time reach the
  traveller; a phase never runs ahead of the plan; every trip completes.
- Sign-in: nobody enters another's account, and a sign-in fails only for a reason.
- Subscriptions: the status is Stripe's, and whoever pays is known here.
- Plans: they can be kept, more to do never means a later start, an outage invents no
  departure and refuses nobody a cached flight, and what was saved is planned with and
  stays saved.
- Search: a failure neither hides flights nor looks like a day without any, and
  the list of flights does not contradict itself.

## Modules

| Module | Models |
|---|---|
| `TripState` | vocabulary and tests of statuses; no state; the trip modules extend it |
| `TripLedger` | abstract specification: phase, owner and charge of each trip with one-step handlers |
| `TripLifecycle` | the handlers split at their awaits, concurrent with the agent's `_process_trip` |
| `TripMonitor` | one tracked trip over time: clock, flight, traffic, plan, messages |
| `PollingLoop` | `polling_loop` around `_process_trip`: errors, backoff, giving up |
| `AccountData` | the rows of an account and `delete_account` |
| `SignIn` | accounts found or created by three identities |
| `Billing` | extends `SignIn`: checkout, Stripe, webhooks |
| `Estimates` | drive, walk, security, the journey, its timeline; no state |
| `Flights` | extends `Estimates`: AeroDataBox's answers and errors, snapshots, flight columns; no state |
| `Planning` | extends `Flights`: the two recommendation routes over one trip |
| `FlightSearch` | extends `Flights`: the two search routes |
| `MCTripLifecycle` | instance of `TripLifecycle` for TLC |
| `MCTripMonitor`, `MCBilling`, `MCPlanning` | instances of `TripMonitor` and `PollingLoop`, of `Billing` and `AccountData`, of `Planning` and `FlightSearch`: a behaviour runs one of the two, as the variable `part` (`side`) says |
| `TripLedger_proofs`, `TripLifecycle_proofs`, `TripMonitor_proofs`, `Billing_proofs`, `PollingLoop_proofs`, `AccountData_proofs`, `Planning_proofs` | the theorems about the module of that name; `Planning_proofs` also those about `FlightSearch` |
| `TripCharges_proofs` | extends `TripLifecycle_proofs`: what trips cost, and the refinement of `TripLedger` |

Definitions whose comment begins with "Faulty variant" are plausible mistakes; no
specification uses them. Each property is checked to fail when the definition that
follows is replaced by the variant.

### TripLifecycle and the code

`trip[t]` is the row, reduced to the columns that decide something: the two
status columns, `user_id`, and whether or how often a timeline, push, SMS,
time-to-go push and feedback request happened. A **request** is a slot `req[r]`
that goes through the stretches between awaits:

1. `Authenticate`: `get_required_user` loads the user; `count` is `trip_count` then.
2. `ReadTrack`, `ReadUntrack`, `ReadUpdate`: the handler loads the row, tests it
   and assigns; `cols` are the columns the ORM will find changed, `new` their
   values. What is awaited afterwards (a recommendation) only delays the commit
   and decides whether a timeline is stored. `update_trip` flushes before that
   await, which takes the row lock (`locked`). `Reject` is each early return.
3. `Commit` writes `cols` to the row as it has become and `newCount` to
   `trip_count`. `Fail` is an exception, a refused commit or a stop.

`PostTrip` is one step although the code commits twice: nobody knows the id of
the row in between, and a failed second commit leaves an anonymous row, which the
action includes.

The **agent** is a program counter over the awaits of `_process_trip`.
`TickLoad` copies the monitored rows into `mem`. Each step that assigns a column
goes through `Assign` to a separate `PollCommit`, so a request can commit in
between. `Push(kind)` sends first and counts after, as the code does. Whether the
clock or a tap has fired a trigger is nondeterministic, as is what the refresh
of `flight_status` reports. `TickAbort` is a failed commit, after which the
session's objects are expired and the rest of the tick is lost, or a restart of
the process; what was sent is not taken back.

`sent`, `asked`, `texts` and `aborts` are counters for the properties: what has
reached the phone since the last untrack, and how many ticks were lost.

### PollingLoop and the code

`at` is the place in the loop, `wait` the argument of the next `asyncio.sleep`,
`nearest` what POLL_INTERVALS would give, `failing` the seconds slept since the
last good tick. `Error` is the outer `except`; `QueryFails` and `SessionLost`
reach it, `ProcessRaises` is stopped by the inner one. Requests start and end
trips at any time. `Redeploy` covers shutdown and restart.

### AccountData and the code

Each request reads in one step and commits in a second. The deletion takes one
step for each statement; a statement sees what is committed when it runs (READ
COMMITTED) and holds the rows it deletes until the end. `DeleteUser` is the flush
and commit: the relationships of `User` have no cascade, so SQLAlchemy loads the
trips, tokens and feedback that are left and sets their `user_id` to null. Only
`trips.user_id` allows it; otherwise PostgreSQL refuses and the transaction is
rolled back. Every row remembers in `by` the account it was made for.

### TripMonitor and the code

`TripLifecycle` leaves the clock open and asks what races do; `TripMonitor` has one
trip, lets the clock run and asks what a traveller is told. `row` has the columns
of the trip that the agent reads or writes, `pc` the next step of `_process_trip`:
`Wake` (the clock moves, the row is loaded), `Refresh` with `SkipRefresh`
(`_should_skip_refresh`), `AnnounceCancellation`, `AnnounceGate`, `Advance`
(`_advance_trip_state`, after which every status but `active` and `complete`
returns), `RequestFeedback`, `Recompute`, `AnnounceLeave`, `Nudge`, `Escalate`.
Requests run between two ticks here: their races with a tick are the subject of
`TripLifecycle`. `TickCut` ends a tick after any of its commits. `seen` looks back:
what the phone was told last, when the flight changed, which plan the tick began
with, and which messages are lost for good (swallowed by the push limit or a
broken device, or never sent because the tick was cut after the commit of the
refreshed status). Tracking is at time 0 and may have failed to store the flight,
the plan, or a departure time at all. `SecondsToDeparture` has what the throttle makes
of a missing one: noon UTC of the departure date, whatever time the flight leaves.

### SignIn, Billing and the code

`users[i]` has the identity columns of row `i`. A request that signs somebody in
looks up in one step (two for Apple) and commits in another; PostgreSQL's unique
columns make `InsertRefused` and `UpdateRefused` out of a commit, as does a row
deleted meanwhile. A person presents only what Supabase or Apple vouches for; the
address in Apple's token may be the person's, a relay, or none. `raced` and
`split` say why a request was refused. `Billing` adds the customer and status
columns, the checkout between its calls to Stripe and its commit, and the webhook
between its look-up and its commit. `stripe` is external: customers, whether a
session can be paid, subscriptions in force and overdue; `outbox` the events not yet
answered, which Stripe may deliver in any order and more than once. `muddled`
names the four things the webhook cannot sort out.

### Estimates, Flights, Planning, FlightSearch and the code

`Estimates` follows the arithmetic of the engine: percent factors and `ceil`, `round`
with ties to even, the defaults when a graph lacks a node or an edge, the parking split,
the blended security wait, the projected timeline. Sums are kept for the groups of
segments that a time mark ends. `Flights` has the status codes and exceptions of a
lookup, the two departures and hours of a flight, and the two snapshots: from
AeroDataBox and from the columns of a tracked trip. `Planning` goes through the
recompute route await by await: save the home address, read the context in another
session, look the flight up, answer, save the overrides; each use of the database may
fail, AeroDataBox may change its answer, other flights may evict this one from the
cache, the process may restart without its cache and its store. `BuildSnapshot` has both
of its `except`s: an error of AeroDataBox is passed on under `strict`, any other
exception yields ten o'clock UTC even so, before or after the flights are cached.
`FlightSearch` takes one lookup (by number) or two windows (by route), whose errors are
collected, and then marks flight by flight with one journey estimate per airport. A
reply of unexpected shape raises in the lookup by number and passes for an empty window
in the one by route (`LookupWindow`).

## Runs

| Run | Result | Question |
|---|---|---|
| `TripRaces` | pass, 814 thousand states | two concurrent requests of one user and the agent, one trip: post, track, untrack |
| `TripSerial` | pass, 182 thousand | one request at a time beside the ticks, no untrack during a tick, with lost commits: the exact promises |
| `TripTaps` | pass, 3 thousand | overlapping requests on two trips, no agent |
| `TripMonitor` | pass, 853 thousand | one trip from tracking to the day after departure; the loop under up to 22 failures |
| `Accounts` | pass, 833 thousand | two people signing in, deleting accounts and paying; deletion against the account's other requests |
| `Planning` | pass, 197 thousand | plans of every preference, overlapping recomputations, flight searches |
| `StaleTickActivates` | violation | "Draft trips ... are NOT auto-activated" (`trip_state.py:16`) |
| `StaleUntrack` | violation | only trips under way can be untracked (`trips.py:327`, `tests/test_untrack.py:142`) |
| `LostTrackCount` | violation | tracking increments `trip_count` (`trips.py:212`) |
| `AccountDeleted` | violation | "Delete user account and all associated data" (`users.py:115`) |
| `PunctualDelta` | violation | "Positive = arrived earlier than predicted" (`trips.py:150`, `tests/test_trip_history.py:152`) |
| `UnansweredNudge` | violation | "SMS escalation: 5 min after TIME_TO_GO push, if no user interaction" (`polling_agent.py:605`) |

**TripRaces** shows what survives every overlap. `DualWrite`: each writer changes
both status columns or none, from a copy where they agree. `PollerForwardOnly`:
the agent's stale phase is never behind the row, unless an untrack made it so, and
then the move is forward from a draft. `NotificationBudget`: the cap on pushes
holds whatever an untrack resets meanwhile. `FeedbackOnce`: a second tap on track
may commit after the agent has completed the trip and make it active again; the
traveller is still asked once. Two pushes are allowed, so that it is the feedback
mark, not the cap, that prevents the second. `TypeOK`: in particular `trip_count`
stays natural, which takes the floor of `untrack_trip` (`trips.py:345`) when an
untrack's user was loaded before the matching track committed.

**TripSerial** checks `TripCountExact` and `PhaseFieldsCleared`, both false under
overlap, and that `TripLifecycle` implements `TripLedger` although every commit of
the agent comes from an old copy; with an untrack during a tick it would fail, as
`StaleUntrack` shows. `PhaseFieldsCleared` is about what steers the next episode:
caps, marks and timeline. It is no claim that a draft is as new. `untrack_trip` leaves
`latest_recommendation`, `flight_info`, `flight_status`, `origin_iata`,
`destination_iata` and `airline` in the row, and the next tracking replaces them only
if its recommendation and its look-up succeed (`trips.py:245-285`); where they do not,
a kept `flight_status` that says cancelled keeps the next cancellation push from
going out, since it is sent for a difference. Those columns are not modelled. With
a lost tick `NotificationBudget` allows one push and one SMS more, and no further.
**TripTaps** shows that a double tap never overcharges although each handler writes an
absolute count.

**TripMonitor**: `NewsReachesTraveller` and `TravellerKnowsLeave` say that after a tick
that goes through the phone has the gate, the cancellation and a leave-by time
within the threshold of the one now right; the exceptions they list are the ways
a message is lost. One exception is the code's choice and not a loss: far from departure the
refresh is throttled, and without a stored departure "far" is reckoned to noon, so a
flight of the morning may be about to leave and still wait out the interval.
`PhaseFollowsPlan` ties the phases to the stored plan.
`NudgeMeansJump` states a surprise: a trip whose stored plan is due is advanced to
`en_route` before the nudge is reached, so the time-to-go push goes out only when the
recomputed plan jumps over the present. `FeedbackUnlessCut`: a completed trip
whose tick was cut never asks for feedback. `Completes` is the liveness property.
Of the loop: the backoffs before the twentieth error add up to the four hours of the
log message and no good tick is forgotten by the count (`StopsAfterFourHours`), every
sleep is bounded (`WaitBounded`), every trip is served (`EveryTripServed`). The
intervals by time to departure never pace the loop: the minimum starts at 60 seconds,
below every one of them. They only throttle the refresh.

**Accounts**: `NobodyEntersAnothersAccount` over all overlaps of sign-ins and
deletions; `RefusedOnlyWhenRacedOrSplit` shows the one lasting refusal: Apple
without an address, Google, then Apple with the address. Both rest on a premise about
Apple, that an address in its token is its owner's: `apple_auth.py:65` extracts
`email_verified`, and nothing in `auth.py` looks at it. `StatusFollowsStripe` and
`PaymentReachesAccount` hold but for the exceptions their comments name: events out
of order, a second subscription, `past_due` that no event ends, overlapping
checkouts, and a deleted account whose subscription runs on. Those exceptions are most
of the hazards listed there: the two properties show that nothing else goes wrong, not
that these cases are handled.
Of the deletion, statement by statement: orphan trips are all it can leave
(`OnlyOrphanTripsSurvive`), it is refused only if another request added to the
account meanwhile (`RefusedOnlyWhenDisturbed`), and overlapping registrations are the
only way to store a token twice (`TokenRowsBounded`).

**Planning**: the plan of every combination of preferences in four airports can be
kept and is monotone in what the traveller has to do (`PlanCanBeKept`,
`MoreToDoNeverLater`, `SplitKeepsTheWalk`). Under two overlapping recomputations,
outages, an eviction and a restart the saved address and overrides are used and kept
(`PlanStartsFromTheNewHome`, `OverridesSurvive`). `NoInventedDeparture`: an outage
never yields the invented ten o'clock, though an empty answer and an unexpected
exception do; `tests/test_aerodatabox_errors.py:475` asserts the latter.
`CachedFlightsOutlastOutage`: as long as the cached flight is neither evicted nor lost
in a restart, an outage refuses nobody. The other side of that cache is a hazard no
property removes: a plan may be older than the last news.
Searches over every pair of replies hide nothing and contradict nothing
(`FailureHidesNothing`, `LaterIsCatchable`), where a window of unexpected shape
counts as the code takes it, as a window without flights.
`ColumnsKeepAllButTheDelay` relates the two snapshots of one flight, where its columns
give one at all (a schedule and an origin): the columns of a tracked trip keep gate
and hour and lose the delay, so the plan of a delayed flight jumps back at the agent's
first recomputation.

**The violations.** A tick that loaded a trip before it was untracked commits
`en_route` over the draft. An untrack that read `at_gate` commits after the agent
has completed the trip. Two trips tracked at once count as one. A trip posted
between `DELETE FROM trips` and the flush outlives its account without an owner;
tracked, it would stay among the monitored trips of nobody. A traveller who reaches
the gate as predicted and waits for the departure is counted as early by the whole
gate buffer, because the buffer's segment id contains "gate" (`PunctualGains` proves it
of every plan). A traveller who ignores the time-to-go push gets no SMS: the next tick
finds the stored plan due, moves the trip to `en_route` and returns before the
escalation. The theorem `SmsAreEdits` has the general form: an SMS is sent only after
an edit, that is never "if no user interaction".

Three more disagreements have no run, and the modules follow the code:

- The docstring at `aerodatabox.py:213-216` and that of the class at
  `tests/test_aerodatabox_errors.py:176` have a search raise only when both windows
  fail; the code at `:236` raises also for one failure beside an empty window.
- The comment at `flight_snapshot_service.py:12-15` gives the flight cache the scope
  "track-time dedup only" and says that entries "live until process restart"; the
  recommendation routes plan from it too, and the oldest entry is evicted
  (`:255-257`).
- The comment at `polling_agent.py:129-130` says "Final 30 minutes force a refresh
  regardless"; without a stored departure the noon stand-in may put a flight of the
  morning beyond the six hours.

### Bounds

- One or two trips and one user: a row is touched by its own id only, and the
  rule that couples trips is `trip_count` of one user, for which two suffice.
- Two requests: each race here is between two commits. A third request adds
  overlaps of the same pairs; the theorems need no bound.
- `MaxPushes` and `MaxSms` are 1 (5 and 3 in the code), so that a cap is reached within
  a tick or two; `TripRaces` allows 2 pushes and no SMS; the theorem `BudgetHolds` has
  them arbitrary. `TrialTrips` is 1 or 3 so that the tier changes in reach. `MaxCount`
  bounds `trip_count` and `MaxAborts` the lost ticks; both are guards of the model only.
- `TripRaces` has no lost tick and stores no timeline (`Timelines` is FALSE): that
  column is written by the same commits as the others and read by none of the
  properties there. `TripSerial` has both.
- `TripMonitor` scales the clock: what matters is the order of the limits (six
  hours, poll interval, leave, arrive, clear, half an hour and a day after
  departure), and each has a tick of its own before and after it. `Horizon` lies
  on the day-after limit, where the clock stops and ticks go on. What may happen to
  the trip is bounded by a budget, chosen from six at the start: news against
  failures and cuts, traffic, edits with taps, faults, the end of the subscription.
  Three journeys let the leave-by time drift in steps below the threshold and add up
  to it; with news, which asks what the phone was told of the flight, there is one
  journey (`OneJourneyForNews`). `Fallback` lies before `Departure` and so jumps a plan
  over the present; `Noon` is after it, where a throttle by the stand-in lasts longest.
  `UnansweredNudge` has one change of traffic and nothing that fails.
- `MCTripMonitor` and `MCBilling` run one of their two components in a behaviour,
  while the other stays as it began. `PollingLoop` abstracts what a turn does to a trip
  and `TripMonitor` when the turns come; `AccountData` looks inside the deletion that
  `SignIn` and `Billing` take in one step. Neither reads the other's variables.
- `Accounts` takes one of three budgets: three accounts for two people and no
  customers (all the ways two people's sign-ins meet); one account with one customer
  and three events, or with two customers. `MCSpec` lets a payment start when no
  sign-in is in flight and afterwards only deletes accounts, since the components
  write different columns and meet only in the deletion. `Billing_proofs` is about
  `BillingSpec`, every interleaving of the two, with the budgets arbitrary.
- `Planning` has three cases: one request with any of the 2160 preferences in four
  worlds (an airport with its graph, one whose car park has no edge, one without a
  graph, one whose graph has no transit node; Google with both traffic variants, none,
  or failing); two overlapping requests that save two addresses and overrides of two
  keys with one database failure; two with outages, news, an unexpected exception, an
  eviction and a restart. `MCPlanning` runs plans and searches in turn, never both in a
  behaviour: they share no state but AeroDataBox. A search fetches each of ten replies
  in either window.
- `MaxFaults` is 22: twenty errors that stop the loop, and two more for a
  failure before or after.
- `MaxRows` is 3: one row before the deletion, one during it, one after, or a trip with
  two rows about it. TLC's deadlock check is off in `Accounts` and `AccountDeleted`
  because a session has nothing left to do once the rows are used up and the account is
  gone.
- Trips and requests are interchangeable in `TripRaces` and `TripTaps`; symmetry
  is used there only, with no liveness property.

### Fairness

Two specifications assume any, and `MCSpec` has it for the part that runs. `LoopSpec`
has weak fairness of the loop's own steps, `MonitorSpec` of the steps of a tick: asyncio
resumes a task whose sleep or query has ended, and each step stays enabled until it is
taken. Failures, redeployments, cut ticks, news, traffic and requests are not fair.
`EveryTripServed` lets the loop stop at its twentieth error. `Completes` needs a
departure time and a user who stays pro; without the first no phase after `at_gate` is
reachable, without the second `_process_trip` returns at once. Faults and cuts are
finite in `TripMonitor`: a trip whose every tick is cut does not complete, and
`StopsAfterFourHours` says when such a loop stops. The other specifications state safety
only.

## Proofs

All theorems are about the modules' specifications, with the constants arbitrary
within the assumptions stated in the modules (finite trips, a null outside
the users, natural caps). There is no bound on trips, users or requests. The runs
take the same specifications, or a restriction of them for TLC (`MCPlanning`
takes plans or searches, `MCTripMonitor` a trip or the loop; `MCBilling` keeps
payments, sign-ins and the statements of a deletion apart).

| Theorem | Statement | Inductive invariant |
|---|---|---|
| `LedgerCountExact` | `LedgerSpec => []CountExact` | `LedgerInv`: types, a tracked trip has an owner, and exact counts |
| `TypeCorrect` | `Spec => []TypeOK` | `TypeInv`: types, and what each place of a request and of the agent implies about `cur`, `todo`, `dirty`, `then` |
| `DualWriteHolds` | `Spec => []DualWrite` | `DualInv` |
| `BudgetHolds` | `Spec => []NotificationBudget` | `BudgetInv` |
| `FeedbackHolds` | `Spec => []FeedbackOnce` | `FeedbackInv` |
| `ForwardHolds` | `Spec => PollerForwardOnly` | `ForwardInv` |
| `MonitorTypes`, `PhasesFollowPlan`, `NudgesAreJumps` | `MonitorSpec => []MonitorTypeOK`, `[]PhaseFollowsPlan`, `[]NudgeMeansJump` | `PhaseInv`: types, `PlaceInv` and `PhaseFollowsPlan` |
| `SmsAreEdits` | `MonitorSpec => []SmsMeansEdited` | `SmsInv` |
| `LeaveIsKnown` | `MonitorSpec => []TravellerKnowsLeave` | `LeaveInv` |
| `NewsIsDelivered` | `MonitorSpec => []NewsReachesTraveller` | `NewsInv` |
| `FeedbackIsAsked` | `MonitorSpec => []FeedbackUnlessCut` | itself, with `PhaseInv` |
| `SignInSafe` | `SignInSpec => []NobodyEntersAnothersAccount` | `IdentityInv` |
| `BillingKeepsIdentities` | `BillingSpec => []NobodyEntersAnothersAccount` | `IdentityInv` |
| `SignInRefusals`, `BillingRefusals` | `SignInSpec`, `BillingSpec => []RefusedOnlyWhenRacedOrSplit` | `RefusalInv`: identities, unique columns, and what a request has found |
| `PaymentsAreKnown` | `BillingSpec => []PaymentReachesAccount` | `PaymentInv` |
| `StatusIsStripes` | `BillingSpec => []StatusFollowsStripe` | `StatusInv`: `WebhookInv`, `ColumnPart`, `StepPart` |
| `ChargesAreCovered` | `NoUntrack, OneUser`: `Spec => []NeverOvercharged` | `TypeInv` and `ChargeInv` |
| `PhaseFieldsAreCleared` | `OneAtATime`: `Spec => []PhaseFieldsCleared` | `TypeInv` and `SerialInv` |
| `LifecycleImplementsLedger` | `OneAtATime`: `Spec => ImplementsLedger` | the same |
| `TripCountIsExact` | `OneAtATime`: `Spec => []TripCountExact` | the ledger's, along the refinement |
| `LoopTypes`, `GivesUpAfterFourHours`, `WaitsAreBounded` | `LoopSpec => []LoopTypeOK`, `[]StopsAfterFourHours`, `[]WaitBounded` | `LoopInv` |
| `OnlyOrphansSurvive`, `RefusalMeansDisturbance` | `AccountSpec => []OnlyOrphanTripsSurvive`, `[]RefusedOnlyWhenDisturbed` | `AccountInv` |
| `TokensAreBounded` | `AccountSpec => []TokenRowsBounded` | `TokenInv`, with `AccountInv` |
| `NothingIsInvented`, `OutagesAreOutlasted`, `PlansStartFromHome`, `OverridesAreKept` | `PlanSpec => []NoInventedDeparture`, `CachedFlightsOutlastOutage`, `[]PlanStartsFromTheNewHome`, `[]OverridesSurvive` | `PlanInv` |
| `PlansCanBeKept`, `PunctualGains`, `SplitsKeepTheWalk` | `PlanSpec => []PlanCanBeKept`, `[]PunctualGainsTheBuffer`, `[]SplitKeepsTheWalk` | `PlanInv`, and lemmas that every estimate is a natural number |
| `MoreToDoIsEarlier` | `OrderedTraffic`: `PlanSpec => []MoreToDoNeverLater` | `PlanInv`, and lemmas that every estimate grows with what there is to do |
| `SameProfileIsEarlier` | `PlanSpec => []SameProfileNeverLater` | the same |
| `FailuresHideNothing`, `LaterOnesAreCatchable`, `ColumnsKeepThePlan` | `SearchSpec => []FailureHidesNothing`, `[]LaterIsCatchable`, `[]ColumnsKeepAllButTheDelay` | `SearchInv`: `SearchTypes`, `JourneyPart`, `CoveredPart` |

Why the invariants need strengthening:

- `DualWrite` speaks of the table, but the next table is made from pending writes.
  `DualInv` adds that a request's columns and the agent's dirty columns contain
  both status columns or neither, with equal values, and that the agent's copy
  agrees with itself.
- `NotificationBudget` is not inductive: it does not know that the copy's count is
  at least what was sent less the lost ticks. `BudgetInv` bounds `sent` by the
  count of the copy and of the row, with the one push whose commit is awaited
  as the difference; an untrack sets `sent` to zero, which only helps.
- `FeedbackOnce` needs that a feedback request is possible only from a copy
  without the mark, at one place in the code, after a commit that completed the
  trip. `FeedbackInv` ties `asked` to the place of the agent and to the mark in
  the row or its copy.
- `PollerForwardOnly` is about a step. `ForwardInv` says that between load and
  commit the row's rank is at most that of the agent's copy, and below it when a
  new phase is waiting for its commit: requests only move the row to `active` or
  `draft`, and only the agent moves it further.

- The properties of `TripMonitor` speak of the end of a tick. `PlaceInv` says what
  each place of `_process_trip` implies: past the phases the trip is active and was
  not due when the tick began. `SmsInv`: a nudged and still active trip was edited
  since, or is due and has not passed the phases again. `LeaveInv` follows the
  distance from the announced time to the plan, and from the plan to what is called
  for, through the places between them. `NewsInv` has a part for the gate, one for
  the cancellation (announced, on its way in this tick, or lost) and one for the
  stored flight, which is the flight unless there was news since it was stored.
- `NobodyEntersAnothersAccount` needs the requests in flight: what a request will
  insert or add is its person's, and the row it found still is when it commits. Ids
  are never used again, so an old token opens no new account.

- `RefusedOnlyWhenRacedOrSplit` is about the end of a request. `Fresh` says what was
  found by each look-up before it and still holds while nobody else touched the
  person's accounts, up to the unique columns an insert or update relies on.
- `PaymentReachesAccount` starts at the checkout: `KnownPart` says that a customer
  with an open session, a live subscription or an event on its way is the one in
  the account's column, and `CustomerPart` that a column's customer was asked
  for by that account. `StatusFollowsStripe` speaks of the moment nothing is on its
  way. `StepPart` covers the moments before: the last event not answered is
  Stripe's present view, a request that handles an event handles the oldest, and
  with neither the column agrees already.
- `NeverOvercharged` compares a count with a set of trips. `ChargeInv` adds that a
  count read by a request is covered, and that the count it will write is covered
  once its trip is counted in, whether or not another tap tracked that trip meanwhile.
- `SerialInv` is what the refinement needs: with one request at a time, what a
  request has read is still so when it commits, and the agent's copy has the row's
  phase, or its successor while the commit is awaited.
- `StopsAfterFourHours` adds up powers of two. `LastedPart` compares the seconds
  slept with the sum of the first n backoffs, place by place.
- For a deletion `DeletedPart` says which tables it has been through without
  leaving a row, unless disturbed; `FeedbackPart` that feedback is deleted before its
  trip. `TokenPart` counts the tokens of a device together with the requests
  about to insert one.
- `PlanInv` has a part for each property: `ReportedPart`; `LifePart` (a plan made from
  AeroDataBox in this life of the cache means that the flight is still there);
  `HomePart` and `CopyPart` (what was loaded or saved is still the row's unless a rival
  was met); `KeptPart` (overrides saved are in the row and in every copy taken by a
  request that was not there meanwhile).
- `MoreToDoNeverLater` compares two journeys through the same world, so the work is
  in lemmas about the estimates: scaling, division and rounding to the nearest are
  monotone (`RoundedGrows`), so are walks at a child's pace, with a graph or
  without (`WalkedGrows`), and the waits under each fast lane (`SecurityGrows`).
  Two of the ways do not add up segment by segment. With children the
  parking grows, and what is left of the walk from the entry may shrink; only their sum
  is sure to grow.
  And a safer profile takes a longer buffer but another percentile of the wait, which
  `SaferGrows` weighs against each other. The order of the percentiles is that of
  `tsa_baselines.json` (`CellTypes`).
- `LaterIsCatchable` relates flights marked at different steps. `JourneyPart` says that
  every measured flight marked so far was judged by the estimate its airport has
  now, which is so because `drive_cache` is never overwritten. `CoveredPart` says
  that what was recovered and matches is marked or still to be marked, which
  `FailureHidesNothing` states only for the end. `SearchTypes` says that every flight
  at hand was reported, all that `ColumnsKeepAllButTheDelay` needs.
- The lists of a search have any length, so what `Matching` keeps of one is shown by its
  smallest counterexample: `Smallest` takes the least element of a set of naturals
  from the library's well-founded order, `KeptExists` shows that the recursive
  function exists, and `MatchingTypes` that it keeps each flight that matches and
  invents none. `Matching` is a recursive function and not `SelectSeq` because the
  prover has no definition of the latter.

In each proof the step over `Next` has one named step for each action, and under
it one for each conjunct the action can disturb; lemmas about `Written`, `Changed`
and `CanAdvance` are stated once. `PTL` joins the steps at the end.

The assumptions are those of the modules: for `TripMonitor` that times are natural,
the day-after limit lies behind the closing one, a journey is longer than its part at
the airport, and the threshold and the SMS delay are not zero; for `SignIn` that
the null is no person; for `AccountData` finitely many concurrent requests, so that
they can be counted; for `Planning` that the services answer in natural minutes
(`WorldTypes`, `ReplyTypes`: no negative duration or walk, departures in whole minutes),
that a wait of the baseline has ordered percentiles and a median above zero, as all
2856 of the data file do, and that overrides are keys of the preferences with values
the schema accepts; for `FlightSearch` (`SearchAssumption`) the same of its replies,
with hours from 0 to 23, each origin one of `Origins`, and natural baselines and
defaults. Both say of a record the code returns that it is not `None`.

Four theorem hypotheses name scenarios, because beyond them the property is
false. `NoUntrack`: a track whose user was loaded before an untrack commits, and
which commits after it, charges for the untracked trip again. `OneUser`: two
users who both read an anonymous draft are both charged for it, and one of them
becomes its owner. `OneAtATime`: `StaleUntrack` and `LostTrackCount` are what happens
otherwise. `TripTaps` and `TripSerial` run in these scenarios, `TripTaps` without the
agent; the theorem has it. `OrderedTraffic`: the code takes Google's three durations
as they come and never compares them; were the pessimistic one the shortest, the safest
profile would leave last. The answers of the run `Planning` are in order too.
`SameProfileIsEarlier` needs no such hypothesis: only a change of profile depends on it.

One definition of a model was wrong in a way TLC could not see: in `Respond` two
guards of a CASE overlapped, so TLA+ left the choice between "done" and "load" open
where TLC took the first. The proof failed there, and the guards are nested now, as in
the route.

Only model-checked: `EveryTripServed` and `Completes`, because liveness is beyond the
prover. Every invariant and step property of a passing run is a theorem. The violated
properties have counterexamples instead of proofs.

## Plan

1. `ConnectionPool`: requests that hold a connection while they need a second one,
   as a resource bound with a deadlock check.
2. Two users who claim the same anonymous draft, and a flight number changed by an
   edit while `flight_info` stays.

## Not modelled

The backfill script: one batch in one transaction, run by hand, over trips older
than the flight columns. The connection pool (planned). Rate limits, configuration,
logging, response bodies, text of messages and explanations, the configuration
without a database, the HTTP clients themselves beyond their answers and failures,
migrations, and the validity of tokens and signatures. Date parsing and time zones
beyond the two departures and hours of a flight are data the properties do not tell
apart. The read handlers of trips change nothing; of them only the timeline and the
accuracy delta are here.

Three abstractions to know of. `Rounded` is exact where the code rounds a float: the
two differ only at a tie that the float misses. A segment of zero minutes is left
out of the code's list and kept in the record of `Estimates`; no sum or time mark
can tell. In `TripMonitor` requests run between ticks, and the columns of the trip
were stored by the tracking itself: an edit of the flight number is not among the
edits.
