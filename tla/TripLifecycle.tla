--------------------------- MODULE TripLifecycle ---------------------------
(***************************************************************************)
(* The life of a trip row: the API handlers of app/api/routes/trips.py     *)
(* that change it (post, track, untrack, update) running concurrently with *)
(* the polling agent of app/services/polling_agent.py.                     *)
(*                                                                         *)
(* The service is one asyncio process over PostgreSQL.  A handler runs     *)
(* without interruption between two awaits, so its steps here are the      *)
(* stretches between the awaits where another coroutine can change what it *)
(* has read: the load of the user (by the auth dependency), the load of    *)
(* the trip row with the guard and the assignments, and the commit.        *)
(*                                                                         *)
(* The ORM (SQLAlchemy with expire_on_commit=False, READ COMMITTED) keeps  *)
(* the row it loaded, and a commit writes the columns whose value the      *)
(* session changed, as absolute values, to whatever the row has become.    *)
(***************************************************************************)
EXTENDS TripState, FiniteSets

CONSTANTS
  Trips,        \* trip ids
  Users,        \* user ids
  NoUser,       \* a null user_id, and the null of every other reference
  Subscribed,   \* the users whose subscription_status is "active"
  Requests,     \* the API requests that can be in flight at once
  Handlers,     \* the handlers the clients of this instance call
  Serial,       \* TRUE: an untrack request and a tick never overlap
  Polling,      \* TRUE: the polling agent runs
  Timelines,    \* TRUE: recommendations succeed, with segments, or fail;
                \* FALSE: no timeline is ever stored
  MaxPushes,    \* MAX_PUSHES_PER_TRIP (5 in the code)
  MaxSms,       \* the SMS cap (3 in the code)
  TrialTrips,   \* the free trips of the trial (3 in the code)
  MaxCount,     \* bound on trip_count
  MaxAborts     \* bound on ticks cut short by a failed commit or a crash

ASSUME LifecycleAssumption ==
  /\ IsFiniteSet(Trips)
  /\ NoUser \notin Users \union Trips
  /\ Subscribed \subseteq Users
  /\ Handlers \subseteq {"post", "track", "untrack", "update"}
  /\ {Serial, Polling, Timelines} \subseteq BOOLEAN
  /\ {MaxPushes, MaxSms, TrialTrips, MaxCount, MaxAborts} \subseteq Nat

VARIABLES
  trip,         \* trip[t]: the row of table trips
  trip_count,   \* trip_count[u]: users.trip_count
  req,          \* req[r]: the request in slot r
  pc,           \* where the polling agent is in its tick
  cur,          \* the trip it is processing
  todo,         \* the loaded trips it has not processed yet
  mem,          \* mem[t]: its copy of row t, loaded when the tick began
  dirty,        \* the columns of mem[cur] changed since its last commit
  then,         \* where it goes on after the commit
  sent,         \* sent[t]: pushes to the phone since the trip was untracked
  asked,        \* asked[t]: the feedback requests among them
  texts,        \* texts[t]: SMS since the trip was untracked
  aborts        \* ticks cut short so far

pollVars == <<pc, cur, todo, mem, dirty, then>>
ghosts == <<sent, asked, texts>>
vars == <<trip, trip_count, req, pollVars, ghosts, aborts>>

-----------------------------------------------------------------------------
(* Rows.  Columns that only say whether something happened are Booleans;   *)
(* the address, flight and preference columns decide nothing here, nor do  *)
(* what tracking stores besides the timeline: latest_recommendation,       *)
(* flight_info, flight_status, origin, destination and airline.            *)

Columns == {"status", "trip_status", "user_id", "projected_timeline",
            "push_count", "time_to_go", "sms_count", "feedback_requested"}

Row == [status             : Statuses \union {"absent"},
        trip_status        : Statuses \union {"absent"},
        user_id            : Users \union {NoUser},
        projected_timeline : BOOLEAN,
        push_count         : Nat,
        time_to_go         : BOOLEAN,
        sms_count          : Nat,
        feedback_requested : BOOLEAN]

NoRow == [status             |-> "absent",
          trip_status        |-> "absent",
          user_id            |-> NoUser,
          projected_timeline |-> FALSE,
          push_count         |-> 0,
          time_to_go         |-> FALSE,
          sms_count          |-> 0,
          feedback_requested |-> FALSE]

(* What process_trip_intake inserts: it sets the deprecated column status  *)
(* and leaves trip_status to its default.                                  *)
IntakeRow(u) == [NoRow EXCEPT !.status = "draft", !.trip_status = "created",
                              !.user_id = u]

(* The columns of its copy the polling agent reads or compares.            *)
PollColumns == Columns \ {"user_id", "projected_timeline"}

(* The columns the ORM finds changed between two copies of a row.          *)
Changed(old, new) == {c \in Columns : old[c] # new[c]}

(* UPDATE trips SET the columns cols of new, on the row as it is now.      *)
Written(row, cols, new) ==
  [status |-> IF "status" \in cols THEN new.status ELSE row.status,
   trip_status |->
     IF "trip_status" \in cols THEN new.trip_status ELSE row.trip_status,
   user_id |-> IF "user_id" \in cols THEN new.user_id ELSE row.user_id,
   projected_timeline |->
     IF "projected_timeline" \in cols THEN new.projected_timeline
                                      ELSE row.projected_timeline,
   push_count |->
     IF "push_count" \in cols THEN new.push_count ELSE row.push_count,
   time_to_go |->
     IF "time_to_go" \in cols THEN new.time_to_go ELSE row.time_to_go,
   sms_count |->
     IF "sms_count" \in cols THEN new.sms_count ELSE row.sms_count,
   feedback_requested |->
     IF "feedback_requested" \in cols THEN new.feedback_requested
                                      ELSE row.feedback_requested]
-----------------------------------------------------------------------------
(* API requests.                                                           *)

Idle == [at |-> "idle", kind |-> "none", trip |-> NoUser, user |-> NoUser,
         count |-> 0, new |-> NoRow, cols |-> {}, newCount |-> 0,
         locked |-> FALSE]

Request ==
  [at       : {"idle", "user", "commit"},
   kind     : {"none", "track", "untrack", "update"},
   trip     : Trips \union {NoUser},
   user     : Users \union {NoUser},
   count    : Nat,          \* user.trip_count as loaded
   new      : Row,          \* the row's new values, in the columns cols
   cols     : SUBSET Columns,
   newCount : Nat,          \* user.trip_count after the handler
   locked   : BOOLEAN]      \* the handler has flushed: it holds the row lock

(* An untrack request is being served.                                     *)
Untracking == \E r \in Requests : req[r].kind = "untrack"

(* No request other than r holds the lock of row t.                        *)
Unlocked(t, r) ==
  \A s \in Requests \ {r} : req[s].trip = t => ~ req[s].locked

(* Faulty variant: track_trip without its "already tracked" answer.        *)
TrackAllowedAgain(row, u) ==
  /\ row.trip_status # "absent"
  /\ row.user_id \in {u, NoUser}

TrackAllowed(row, u) ==
  /\ row.trip_status \in TRACKABLE_STATUSES
  /\ row.user_id \in {u, NoUser}

UntrackAllowed(row, u) ==
  /\ row.trip_status \in UNTRACKABLE_STATUSES
  /\ row.user_id \in {u, NoUser}

UpdateAllowed(row, u) ==
  /\ row.trip_status \in EDITABLE_STATUSES
  /\ row.user_id \in {u, NoUser}

Allowed(kind, row, u) ==
  CASE kind = "track"   -> TrackAllowed(row, u)
    [] kind = "untrack" -> UntrackAllowed(row, u)
    [] kind = "update"  -> UpdateAllowed(row, u)
    [] OTHER            -> FALSE

TrackedRow(row, u) ==
  [row EXCEPT !.status = "active", !.trip_status = "active", !.user_id = u]

(* Faulty variant: the SMS count survives the reset.                       *)
UntrackedRowKeepsSms(row) ==
  [row EXCEPT !.status = "draft", !.trip_status = "draft",
              !.projected_timeline = FALSE, !.push_count = 0,
              !.time_to_go = FALSE, !.feedback_requested = FALSE]

(* The reset of untrack_trip: the phase fields, and none of the columns    *)
(* that tracking fills in from the recommendation and the flight.          *)
UntrackedRow(row) ==
  [row EXCEPT !.status = "draft", !.trip_status = "draft",
              !.projected_timeline = FALSE, !.push_count = 0,
              !.time_to_go = FALSE, !.sms_count = 0,
              !.feedback_requested = FALSE]

(* POST /v1/trips: the intake inserts an anonymous row and the route then  *)
(* links it to the caller, if there is one and the second commit succeeds; *)
(* nobody else knows the id yet.                                           *)
PostTrip(t) ==
  /\ "post" \in Handlers
  /\ trip[t] = NoRow
  /\ \E u \in Users \union {NoUser} : trip' = [trip EXCEPT ![t] = IntakeRow(u)]
  /\ UNCHANGED <<trip_count, req, pollVars, ghosts, aborts>>

(* The auth dependency loads the user, in the session the route will use.  *)
Authenticate(r, kind, t, u) ==
  /\ req[r].at = "idle"
  /\ kind \in Handlers
  /\ Serial /\ kind = "untrack" => pc = "sleep"
  /\ trip[t] # NoRow
  /\ req' = [req EXCEPT ![r] = [Idle EXCEPT !.at = "user", !.kind = kind,
                                            !.trip = t, !.user = u,
                                            !.count = trip_count[u]]]
  /\ UNCHANGED <<trip, trip_count, pollVars, ghosts, aborts>>

(* The handler has loaded the row and assigned: it waits for its commit.   *)
Pending(r, new, cols, newCount, locked) ==
  req' = [req EXCEPT ![r] = [@ EXCEPT !.at = "commit",
                                      !.new = Written(NoRow, cols, new),
                                      !.cols = cols,
                                      !.newCount = newCount,
                                      !.locked = locked]]

(* track_trip up to its commit.  compute_recommendation, awaited here, may *)
(* fail: the timeline then stays as it is.                                 *)
ReadTrack(r) ==
  LET q   == req[r]
      row == trip[q.trip]
      new == TrackedRow(row, q.user)
  IN /\ q.at = "user" /\ q.kind = "track"
     /\ Allowed("track", row, q.user)
     /\ q.count < MaxCount
     /\ \/ Pending(r, new, Changed(row, new), q.count + 1, FALSE)
        \/ /\ Timelines
           /\ Pending(r, [new EXCEPT !.projected_timeline = TRUE],
                      Changed(row, new) \union {"projected_timeline"},
                      q.count + 1, FALSE)
     /\ UNCHANGED <<trip, trip_count, pollVars, ghosts, aborts>>

(* Faulty variant: the refund without its floor.                           *)
ReadUntrackNoFloor(r) ==
  LET q   == req[r]
      row == trip[q.trip]
      new == UntrackedRow(row)
  IN /\ q.at = "user" /\ q.kind = "untrack"
     /\ Allowed("untrack", row, q.user)
     /\ Pending(r, new, Changed(row, new), q.count - 1, FALSE)
     /\ UNCHANGED <<trip, trip_count, pollVars, ghosts, aborts>>

(* untrack_trip up to its commit.                                          *)
ReadUntrack(r) ==
  LET q   == req[r]
      row == trip[q.trip]
      new == UntrackedRow(row)
  IN /\ q.at = "user" /\ q.kind = "untrack"
     /\ Allowed("untrack", row, q.user)
     /\ Pending(r, new, Changed(row, new),
                IF q.count > 0 THEN q.count - 1 ELSE 0, FALSE)
     /\ UNCHANGED <<trip, trip_count, pollVars, ghosts, aborts>>

(* Faulty variant: the editor saves the whole row it loaded.               *)
ReadUpdateWholeRow(r) ==
  LET q   == req[r]
      row == trip[q.trip]
  IN /\ q.at = "user" /\ q.kind = "update"
     /\ Allowed("update", row, q.user)
     /\ Pending(r, row, Columns, q.count, FALSE)
     /\ UNCHANGED <<trip, trip_count, pollVars, ghosts, aborts>>

(* update_trip up to its commit.  For an active trip it flushes the edited *)
(* columns, if any has changed, which locks the row, and then awaits a new *)
(* timeline.                                                               *)
ReadUpdate(r) ==
  LET q   == req[r]
      row == trip[q.trip]
  IN /\ q.at = "user" /\ q.kind = "update"
     /\ Allowed("update", row, q.user)
     /\ IF row.trip_status = "active"
        THEN \E edited \in BOOLEAN :
               /\ edited => Unlocked(q.trip, r)
               /\ \/ Pending(r, row, {}, q.count, edited)
                  \/ /\ Timelines
                     /\ Pending(r, [row EXCEPT !.projected_timeline = TRUE],
                                {"projected_timeline"}, q.count, edited)
        ELSE Pending(r, row, {}, q.count, FALSE)
     /\ UNCHANGED <<trip, trip_count, pollVars, ghosts, aborts>>

(* 404, 403, 409, or the answer "already_tracked": nothing is written.     *)
Reject(r) ==
  /\ req[r].at = "user"
  /\ ~ Allowed(req[r].kind, trip[req[r].trip], req[r].user)
  /\ req' = [req EXCEPT ![r] = Idle]
  /\ UNCHANGED <<trip, trip_count, pollVars, ghosts, aborts>>

(* Faulty variant: UPDATE users SET trip_count = trip_count + 1.           *)
NewTripCountIncrement(q) ==
  IF q.newCount = q.count THEN trip_count
  ELSE [trip_count EXCEPT ![q.user] = @ + q.newCount - q.count]

(* users.trip_count after the request's commit: the absolute value the     *)
(* handler computed from the user it loaded, if that is a change.          *)
NewTripCount(q) ==
  IF q.newCount = q.count THEN trip_count
  ELSE [trip_count EXCEPT ![q.user] = q.newCount]

(* The commit of a handler.  An untrack starts a new episode of the trip.  *)
Commit(r) ==
  LET q == req[r]
      reset(f) == IF q.kind = "untrack" THEN [f EXCEPT ![q.trip] = 0] ELSE f
  IN /\ q.at = "commit"
     /\ Unlocked(q.trip, r)
     /\ trip' = [trip EXCEPT ![q.trip] = Written(@, q.cols, q.new)]
     /\ trip_count' = NewTripCount(q)
     /\ req' = [req EXCEPT ![r] = Idle]
     /\ sent' = reset(sent) /\ asked' = reset(asked) /\ texts' = reset(texts)
     /\ UNCHANGED <<pollVars, aborts>>

(* The request fails (an exception, a refused commit, the process stops):  *)
(* its transaction is rolled back.                                         *)
Fail(r) ==
  /\ req[r].at # "idle"
  /\ req' = [req EXCEPT ![r] = Idle]
  /\ UNCHANGED <<trip, trip_count, pollVars, ghosts, aborts>>

-----------------------------------------------------------------------------
(* The polling agent.  pc names the next thing it does:                    *)
(*   "sleep"      between two ticks                                        *)
(*   "next"       between two trips of a tick                              *)
(*   "cancellation", "gate_change"        status-change pushes             *)
(*   "advance"    _advance_trip_state                                      *)
(*   "post_trip", "mark_feedback"         _handle_feedback_request         *)
(*   "recompute", "leave_by_shift", "time_to_go", "mark_time_to_go",       *)
(*   "escalate"   the active phase                                         *)
(*   "commit"     a commit is awaited, to go on at `then'                  *)
(*   "done"       the trip is processed                                    *)

PushKinds == {"cancellation", "gate_change", "post_trip", "leave_by_shift",
              "time_to_go"}

PollPoints == PushKinds \union
  {"sleep", "next", "advance", "mark_feedback", "recompute",
   "mark_time_to_go", "escalate", "commit", "done"}

(* Where _process_trip goes on when the push of this kind was not sent.    *)
AfterNoPush(kind) ==
  CASE kind = "cancellation"   -> "gate_change"
    [] kind = "gate_change"    -> "advance"
    [] kind = "post_trip"      -> "mark_feedback"
    [] kind = "leave_by_shift" -> "time_to_go"
    [] kind = "time_to_go"     -> "escalate"

(* And when it was: the first time-to-go push of a trip is time-stamped.   *)
AfterPush(kind, row) ==
  IF kind = "time_to_go" /\ ~ row.time_to_go THEN "mark_time_to_go"
  ELSE AfterNoPush(kind)

(* The agent changes its copy of the row and awaits the commit.            *)
Assign(new, label) ==
  /\ mem' = [mem EXCEPT ![cur] = new]
  /\ dirty' = Changed(mem[cur], new)
  /\ pc' = "commit" /\ then' = label

Goto(label) == pc' = label /\ UNCHANGED <<mem, dirty, then>>

Monitored(t) ==
  /\ trip[t].trip_status \in MONITORABLE_STATUSES
  /\ trip[t].user_id \in Users
  /\ IsPro(trip[t].user_id \in Subscribed, trip_count[trip[t].user_id],
           TrialTrips)

(* polling_loop and _get_active_trips: one query loads the monitorable     *)
(* trips with their users for the whole tick.  The trips of users who are  *)
(* not pro are loaded too, and _process_trip returns on them at once.      *)
TickLoad ==
  LET loaded == {t \in Trips : Monitored(t)}
  IN /\ Polling
     /\ pc = "sleep"
     /\ Serial => ~ Untracking
     /\ loaded # {}
     /\ todo' = loaded
     /\ mem' = [t \in Trips |-> IF t \in loaded
                               THEN Written(NoRow, PollColumns, trip[t])
                               ELSE NoRow]
     /\ pc' = "next"
     /\ UNCHANGED <<trip, trip_count, req, cur, dirty, then, ghosts, aborts>>

PickTrip ==
  /\ pc = "next"
  /\ \E t \in todo : cur' = t
  /\ Goto("cancellation")
  /\ UNCHANGED <<trip, trip_count, req, todo, ghosts, aborts>>

(* Faulty variant: the limit is crossed by one.                            *)
PushAllowedOffByOne(row) == row.push_count <= MaxPushes

(* send_trip_notification gives up on a trip that has had its pushes.      *)
PushAllowed(row) == row.push_count < MaxPushes

(* send_trip_notification reaches a phone.                                 *)
Push(kind) ==
  /\ pc = kind
  /\ PushAllowed(mem[cur])
  /\ sent' = [sent EXCEPT ![cur] = @ + 1]
  /\ asked' = IF kind = "post_trip" THEN [asked EXCEPT ![cur] = @ + 1]
                                    ELSE asked
  /\ Assign([mem[cur] EXCEPT !.push_count = @ + 1], AfterPush(kind, mem[cur]))
  /\ UNCHANGED <<trip, trip_count, req, cur, todo, texts, aborts>>

(* There is nothing to announce, the trip has had its pushes, or there is  *)
(* no device token that works.                                             *)
NoPush(kind) ==
  /\ pc = kind
  /\ Goto(AfterNoPush(kind))
  /\ UNCHANGED <<trip, trip_count, req, cur, todo, ghosts, aborts>>

(* Faulty variant: only the new column is written.                         *)
AdvanceNewColumn ==
  LET row == mem[cur]
  IN /\ pc = "advance"
     /\ \E to \in Successors(row.trip_status) :
          Assign([row EXCEPT !.trip_status = to],
                 IF to = "complete" /\ ~ row.feedback_requested
                 THEN "post_trip" ELSE "done")
     /\ UNCHANGED <<trip, trip_count, req, cur, todo, ghosts, aborts>>

(* Faulty variant: feedback is requested whenever a trip completes.        *)
AdvanceAsksAgain ==
  LET row == mem[cur]
  IN /\ pc = "advance"
     /\ \E to \in Successors(row.trip_status) :
          Assign([row EXCEPT !.status = to, !.trip_status = to],
                 IF to = "complete" THEN "post_trip" ELSE "done")
     /\ UNCHANGED <<trip, trip_count, req, cur, todo, ghosts, aborts>>

(* Faulty variant: the phase the clock says, wherever the trip is.         *)
AdvanceByClock ==
  /\ pc = "advance"
  /\ \E to \in MONITORABLE_STATUSES \union {"complete"} :
       Assign([mem[cur] EXCEPT !.status = to, !.trip_status = to],
              IF to = "complete" THEN "post_trip" ELSE "done")
  /\ UNCHANGED <<trip, trip_count, req, cur, todo, ghosts, aborts>>

(* _advance_trip_state when a trigger of the current phase has fired (the  *)
(* clock or a tap).  A trip that completes goes on to the feedback request *)
(* unless one was sent; any other trip that moved is done for this tick.   *)
Advance ==
  LET row == mem[cur]
  IN /\ pc = "advance"
     /\ \E to \in Successors(row.trip_status) :
          /\ CanAdvance(row.trip_status, to)
          /\ Assign([row EXCEPT !.status = to, !.trip_status = to],
                    IF to = "complete" /\ ~ row.feedback_requested
                    THEN "post_trip" ELSE "done")
     /\ UNCHANGED <<trip, trip_count, req, cur, todo, ghosts, aborts>>

(* No trigger has fired: only an active trip is looked at further.         *)
StayInPhase ==
  /\ pc = "advance"
  /\ Goto(IF mem[cur].trip_status = "active" THEN "recompute" ELSE "done")
  /\ UNCHANGED <<trip, trip_count, req, cur, todo, ghosts, aborts>>

(* feedback_requested_at is set whether or not the push was sent.          *)
MarkFeedback ==
  /\ pc = "mark_feedback"
  /\ Assign([mem[cur] EXCEPT !.feedback_requested = TRUE], "done")
  /\ UNCHANGED <<trip, trip_count, req, cur, todo, ghosts, aborts>>

(* The recomputation succeeds; the new timeline is stored whenever the     *)
(* recommendation has segments.                                            *)
Recompute ==
  /\ pc = "recompute"
  /\ \/ /\ Timelines
        /\ mem' = [mem EXCEPT ![cur].projected_timeline = TRUE]
        /\ dirty' = {"projected_timeline"}
        /\ pc' = "commit" /\ then' = "leave_by_shift"
     \/ Goto("leave_by_shift")
  /\ UNCHANGED <<trip, trip_count, req, cur, todo, ghosts, aborts>>

RecomputeFails ==
  /\ pc = "recompute"
  /\ Goto("done")
  /\ UNCHANGED <<trip, trip_count, req, cur, todo, ghosts, aborts>>

(* time_to_go_push_sent_at := now; the escalation needs it 5 minutes old.  *)
MarkTimeToGo ==
  /\ pc = "mark_time_to_go"
  /\ Assign([mem[cur] EXCEPT !.time_to_go = TRUE], "done")
  /\ UNCHANGED <<trip, trip_count, req, cur, todo, ghosts, aborts>>

(* Faulty variant: the limit is crossed by one.                            *)
SmsAllowedOffByOne(row) == row.time_to_go /\ row.sms_count <= MaxSms

SmsAllowed(row) == row.time_to_go /\ row.sms_count < MaxSms

(* The SMS after an unanswered time-to-go push.                            *)
SendSms ==
  /\ pc = "escalate"
  /\ SmsAllowed(mem[cur])
  /\ texts' = [texts EXCEPT ![cur] = @ + 1]
  /\ Assign([mem[cur] EXCEPT !.sms_count = @ + 1], "done")
  /\ UNCHANGED <<trip, trip_count, req, cur, todo, sent, asked, aborts>>

(* Too early, answered, no phone number, enough SMS, or Twilio refuses.    *)
NoSms ==
  /\ pc = "escalate"
  /\ Goto("done")
  /\ UNCHANGED <<trip, trip_count, req, cur, todo, ghosts, aborts>>

(* await session.commit(): the changed columns overwrite the row.          *)
PollCommit ==
  /\ pc = "commit"
  /\ Unlocked(cur, NoUser)
  /\ trip' = [trip EXCEPT ![cur] = Written(@, dirty, mem[cur])]
  /\ dirty' = {}
  /\ pc' = then /\ then' = "none"
  /\ UNCHANGED <<trip_count, req, cur, todo, mem, ghosts, aborts>>

(* _process_trip returns.                                                  *)
FinishTrip ==
  /\ pc = "done"
  /\ pc' = "next"
  /\ todo' = todo \ {cur} /\ cur' = NoUser
  /\ mem' = [mem EXCEPT ![cur] = NoRow]
  /\ UNCHANGED <<trip, trip_count, req, dirty, then, ghosts, aborts>>

TickEnd ==
  /\ pc = "next"
  /\ todo = {}
  /\ Goto("sleep")
  /\ UNCHANGED <<trip, trip_count, req, cur, todo, ghosts, aborts>>

(* A commit fails: the rollback expires every object of the session, so    *)
(* the next attribute read raises, out of the handlers too, and the rest   *)
(* of the tick is lost with what was not committed.  A restart of the      *)
(* process does the same.                                                  *)
TickAbort ==
  /\ pc # "sleep"
  /\ aborts < MaxAborts
  /\ aborts' = aborts + 1
  /\ pc' = "sleep" /\ then' = "none"
  /\ cur' = NoUser /\ todo' = {} /\ dirty' = {}
  /\ mem' = [t \in Trips |-> NoRow]
  /\ UNCHANGED <<trip, trip_count, req, ghosts>>

-----------------------------------------------------------------------------
Init ==
  /\ trip = [t \in Trips |-> NoRow]
  /\ trip_count = [u \in Users |-> 0]
  /\ req = [r \in Requests |-> Idle]
  /\ pc = "sleep" /\ cur = NoUser /\ todo = {} /\ dirty = {} /\ then = "none"
  /\ mem = [t \in Trips |-> NoRow]
  /\ sent = [t \in Trips |-> 0]
  /\ asked = [t \in Trips |-> 0]
  /\ texts = [t \in Trips |-> 0]
  /\ aborts = 0

RequestStep(r) ==
  \/ \E k \in {"track", "untrack", "update"}, t \in Trips, u \in Users :
       Authenticate(r, k, t, u)
  \/ ReadTrack(r) \/ ReadUntrack(r) \/ ReadUpdate(r)
  \/ Reject(r) \/ Commit(r) \/ Fail(r)

PollStep ==
  \/ TickLoad \/ PickTrip \/ FinishTrip \/ TickEnd \/ TickAbort
  \/ \E kind \in PushKinds : Push(kind) \/ NoPush(kind)
  \/ Advance \/ StayInPhase \/ MarkFeedback
  \/ Recompute \/ RecomputeFails \/ MarkTimeToGo \/ SendSms \/ NoSms
  \/ PollCommit

Next ==
  \/ \E t \in Trips : PostTrip(t)
  \/ \E r \in Requests : RequestStep(r)
  \/ PollStep

Spec == Init /\ [][Next]_vars

-----------------------------------------------------------------------------
(* Properties.                                                             *)

TypeOK ==
  /\ trip \in [Trips -> Row]
  /\ trip_count \in [Users -> Nat]
  /\ req \in [Requests -> Request]
  /\ pc \in PollPoints
  /\ cur \in Trips \union {NoUser}
  /\ todo \in SUBSET Trips
  /\ mem \in [Trips -> Row]
  /\ dirty \in SUBSET Columns
  /\ then \in PollPoints \union {"none"}
  /\ sent \in [Trips -> Nat]
  /\ asked \in [Trips -> Nat]
  /\ texts \in [Trips -> Nat]
  /\ aborts \in 0..MaxAborts

(* The deprecated column status and its replacement trip_status agree in   *)
(* every row past the intake, although every writer writes only the        *)
(* columns it changed, to a row that may have moved since it was read.     *)
DualWrite ==
  \A t \in Trips : trip[t].trip_status # "created"
                     => trip[t].status = trip[t].trip_status

(* However requests and ticks overlap, a phone gets at most MaxPushes      *)
(* pushes and MaxSms SMS between two untracks of a trip, plus one for each *)
(* tick whose last commit was lost (notifications/__init__.py:61,          *)
(* polling_agent.py:614).                                                  *)
NotificationBudget ==
  \A t \in Trips : /\ sent[t] <= MaxPushes + aborts
                   /\ texts[t] <= MaxSms + aborts

(* The traveller is asked for feedback once, plus once for each lost tick, *)
(* even if a stale request reopens the trip (polling_agent.py:414).        *)
FeedbackOnce == \A t \in Trips : asked[t] <= 1 + aborts

(* A commit of the polling agent never moves a trip back, although its     *)
(* copy of the row is as old as the tick (trip_state.py:40).               *)
PollerForwardOnly ==
  [][pc = "commit" /\ pc' # "commit" =>
       \A t \in Trips : \/ trip'[t].trip_status = trip[t].trip_status
                        \/ CanAdvance(trip[t].trip_status,
                                      trip'[t].trip_status)]_vars

Tracked(t) == trip[t].trip_status \notin TRACKABLE_STATUSES \union {"absent"}

TrackedBy(u) == {t \in Trips : trip[t].user_id = u /\ Tracked(t)}

(* Taps on "track" that overlap never charge a user for more trips than    *)
(* they have tracked: the second handler has read trip_count before the    *)
(* first one's commit whenever it has read the row before it.              *)
NeverOvercharged ==
  \A u \in Users : trip_count[u] <= Cardinality(TrackedBy(u))

(* A trip that is not tracked has the phase fields of a new one: no plan,  *)
(* no nudge, no feedback request, and the push and SMS budgets whole.  An  *)
(* edit must not write them back, nor a tick, as long as none overlaps an  *)
(* untrack (Serial).  Nothing is said of the columns untrack_trip leaves   *)
(* alone (trips.py:330-342): the recommendation and the flight of the      *)
(* earlier episode stay until a tracking whose look-up succeeds replaces   *)
(* them (trips.py:253-281), and a kept flight_status that is cancelled     *)
(* already would keep the next cancellation from being announced.          *)
PhaseFieldsCleared ==
  \A t \in Trips : ~ Tracked(t) =>
    /\ ~ trip[t].projected_timeline /\ ~ trip[t].time_to_go
    /\ ~ trip[t].feedback_requested
    /\ trip[t].push_count = 0 /\ trip[t].sms_count = 0

(* The handlers implement the one-step handlers of the ledger.             *)
Ledger == INSTANCE TripLedger WITH
  phase   <- [t \in Trips |-> trip[t].trip_status],
  owner   <- [t \in Trips |-> trip[t].user_id],
  charged <- trip_count

ImplementsLedger == Ledger!LedgerSpec

(* With one request or tick at a time, trip_count is exactly the number of *)
(* the user's tracked trips: what track_trip charges once, untrack_trip    *)
(* refunds, and the floor of its refund (trips.py:345) is never needed.    *)
TripCountExact == Ledger!CountExact

-----------------------------------------------------------------------------
(* What the repository says and concurrent requests or ticks break.        *)

(* trip_state.py:16: "Draft trips must be explicitly tracked first - they  *)
(* are NOT auto-activated".                                                *)
NeverAutoActivated ==
  [][UNCHANGED req => \A t \in Trips :
       trip[t].trip_status \in TRACKABLE_STATUSES
         => trip'[t].trip_status = trip[t].trip_status]_vars

(* trips.py:327, tests/test_untrack.py:142: a complete trip cannot be      *)
(* untracked.                                                              *)
CompleteIsNotUntracked ==
  [][\A t \in Trips : trip[t].trip_status = "complete"
       => trip'[t].trip_status # "draft"]_vars

(* trips.py:212: every promotion to active increments trip_count.          *)
EveryTrackCounts ==
  \A u \in Users : trip_count[u] >= Cardinality(TrackedBy(u))
=============================================================================
