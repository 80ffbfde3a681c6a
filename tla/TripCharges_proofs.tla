------------------------- MODULE TripCharges_proofs -------------------------
(***************************************************************************)
(* What the trips cost their users: the charges of the trip lifecycle, and *)
(* its refinement of the ledger.                                           *)
(***************************************************************************)
EXTENDS TripLifecycle_proofs, FiniteSetTheorems

-----------------------------------------------------------------------------
(* The scenarios of the theorems.                                          *)

(* The clients never untrack.                                              *)
NoUntrack == "untrack" \notin Handlers

(* One user, so nobody else can claim their anonymous drafts.              *)
OneUser == \A u, v \in Users : u = v

(* One request at a time, and no untrack request during a tick.            *)
OneAtATime == Serial /\ \A r, s \in Requests : r = s

-----------------------------------------------------------------------------
(* The invariants.                                                         *)

(* The phases the agent moves a trip to.                                   *)
Ahead == {"en_route", "at_airport", "at_gate", "complete"}

(* A commit of the agent gives the trip to nobody, and moves it, if at     *)
(* all, to a later phase.                                                  *)
AgentWrites ==
  pc = "commit" =>
    /\ "user_id" \notin dirty
    /\ "trip_status" \in dirty => mem[cur].trip_status \in Ahead

(* The pending write of a track request: the trip becomes active and       *)
(* belongs to the user.                                                    *)
ClaimOK(q, row) ==
  /\ "trip_status" \in q.cols /\ q.new.trip_status = "active"
  /\ IF "user_id" \in q.cols THEN q.new.user_id = q.user
                             ELSE row.user_id = q.user

(* The request q in flight has counted no trip that is not tracked, but    *)
(* for the one it is about to track.                                       *)
ChargeOK(q) ==
  /\ q.kind \in {"track", "update"}
  /\ q.count <= Cardinality(TrackedBy(q.user))
  /\ q.at = "commit" /\ q.kind = "track" =>
       /\ ClaimOK(q, trip[q.trip])
       /\ q.newCount <= Cardinality(TrackedBy(q.user) \union {q.trip})
  /\ q.at = "commit" /\ q.kind = "update" =>
       q.cols \subseteq {"projected_timeline"} /\ q.newCount = q.count

ChargeInv ==
  /\ AgentWrites
  /\ \A r \in Requests : req[r].at # "idle" => ChargeOK(req[r])
  /\ NeverOvercharged

(* With one request at a time, what the request q in flight has read is    *)
(* still so when it commits.                                               *)
SettledOK(q) ==
  LET row == trip[q.trip]
  IN /\ q.kind \in {"track", "untrack", "update"}
     /\ q.count = trip_count[q.user]
     /\ q.kind = "untrack" => pc = "sleep"
     /\ q.at = "commit" /\ q.kind = "track" =>
          /\ TrackAllowed(row, q.user) /\ ClaimOK(q, row)
          /\ q.newCount = q.count + 1
     /\ q.at = "commit" /\ q.kind = "untrack" =>
          /\ UntrackAllowed(row, q.user)
          /\ Written(row, q.cols, q.new) = UntrackedRow(row)
          /\ q.newCount = IF q.count > 0 THEN q.count - 1 ELSE 0
     /\ q.at = "commit" /\ q.kind = "update" =>
          /\ q.newCount = q.count
          /\ \/ q.cols = {}
             \/ q.cols = {"projected_timeline"} /\ Tracked(q.trip)

(* A trip of the tick is tracked, and the agent's copy has the phase of    *)
(* the row, or one that follows it while its commit is awaited.            *)
CopyCurrent(t) ==
  /\ Tracked(t)
  /\ IF pc = "commit" /\ cur = t /\ "trip_status" \in dirty
     THEN mem[t].trip_status \in Successors(trip[t].trip_status)
     ELSE mem[t].trip_status = trip[t].trip_status

(* A tick has loaded only tracked trips, whose phase it knows.             *)
CopyPart ==
  /\ pc = "sleep" => todo = {}
  /\ \A t \in todo : CopyCurrent(t)

(* Tracked trips have owners, the others no trace of an earlier episode.   *)
RowPart ==
  /\ \A t \in Trips : Tracked(t) => trip[t].user_id \in Users
  /\ PhaseFieldsCleared

SerialInv ==
  /\ AgentWrites
  /\ \A r \in Requests : req[r].at # "idle" => SettledOK(req[r])
  /\ CopyPart /\ RowPart

-----------------------------------------------------------------------------
(* Steps of the agent.                                                     *)

(* The phases ahead are tracked, and a trip only moves to one of them.     *)
LEMMA AheadPhases ==
  /\ Ahead \intersect (TRACKABLE_STATUSES \union {"absent"}) = {}
  /\ "active" \notin TRACKABLE_STATUSES \union {"absent"}
  /\ "draft" \in TRACKABLE_STATUSES /\ "created" \in TRACKABLE_STATUSES
  /\ (MONITORABLE_STATUSES \union UNTRACKABLE_STATUSES)
       \intersect (TRACKABLE_STATUSES \union {"absent"}) = {}
  /\ \A s : Successors(s) \subseteq Ahead
  /\ \A s : s \notin Successors(s)
  BY DEF Ahead, TRACKABLE_STATUSES, MONITORABLE_STATUSES,
         UNTRACKABLE_STATUSES, Successors

(* The agent moves on without changing a copy.                             *)
AgentMoves ==
  /\ UNCHANGED <<trip, trip_count, req, todo, mem>>
  /\ pc # "sleep" /\ pc # "commit" /\ pc' # "commit"
  /\ pc' = "sleep" => todo = {}

(* The agent changes its copy to new and awaits the commit.                *)
AgentAssigns(new) ==
  /\ UNCHANGED <<trip, trip_count, req, cur, todo>>
  /\ pc \notin {"sleep", "next", "commit"} /\ pc' = "commit"
  /\ mem' = [mem EXCEPT ![cur] = new]
  /\ "user_id" \notin dirty'
  /\ IF "trip_status" \in dirty'
     THEN new.trip_status \in Successors(mem[cur].trip_status)
     ELSE new.trip_status = mem[cur].trip_status

(* An assignment of the columns an agent's handler may change.             *)
LEMMA AgentAssign ==
  ASSUME TypeInv, pc \notin {"sleep", "next", "commit"}, NEW new, NEW label,
         Assign(new, label), UNCHANGED <<trip, trip_count, req, cur, todo>>,
         new.user_id = mem[cur].user_id,
         \/ new.trip_status = mem[cur].trip_status
         \/ new.trip_status \in Successors(mem[cur].trip_status)
  PROVE  AgentAssigns(new)
  BY DEF AgentAssigns, Assign, Changed, Columns

(* Whatever the agent does is a load, a move, an assignment, a commit, the *)
(* end of a trip or the loss of the tick.                                  *)
LEMMA AgentStep ==
  ASSUME TypeInv, PollStep
  PROVE  \/ TickLoad \/ PollCommit \/ FinishTrip \/ TickAbort
         \/ AgentMoves
         \/ \E new \in Row : AgentAssigns(new)
<1>1. CASE PickTrip \/ TickEnd \/ StayInPhase \/ RecomputeFails \/ NoSms
           \/ \E kind \in PushKinds : NoPush(kind)
  <2>1. CASE PickTrip \/ TickEnd \/ StayInPhase \/ RecomputeFails \/ NoSms
    BY <2>1 DEF PickTrip, TickEnd, StayInPhase, RecomputeFails, NoSms, Goto,
                AgentMoves
  <2>2. ASSUME NEW kind \in PushKinds, NoPush(kind) PROVE AgentMoves
    BY <2>2 DEF NoPush, PushKinds, AfterNoPush, Goto, AgentMoves
  <2> QED
    BY <1>1, <2>1, <2>2
<1> DEFINE row == mem[cur]
<1>2. ASSUME NEW kind \in PushKinds, Push(kind)
      PROVE  \E new \in Row : AgentAssigns(new)
  <2> DEFINE new == [row EXCEPT !.push_count = @ + 1]
  <2>1. /\ pc \notin {"sleep", "next", "commit"}
        /\ UNCHANGED <<trip, trip_count, req, cur, todo>>
        /\ Assign(new, AfterPush(kind, row))
    BY <1>2 DEF Push, PushKinds
  <2>2. /\ new \in Row /\ new.user_id = row.user_id
        /\ new.trip_status = row.trip_status
    BY <2>1, CopyTypes DEF Row
  <2> QED
    BY <2>1, <2>2, AgentAssign
<1>3. CASE MarkFeedback
  <2> DEFINE new == [row EXCEPT !.feedback_requested = TRUE]
  <2>1. /\ pc \notin {"sleep", "next", "commit"}
        /\ UNCHANGED <<trip, trip_count, req, cur, todo>>
        /\ Assign(new, "done")
    BY <1>3 DEF MarkFeedback
  <2>2. /\ new \in Row /\ new.user_id = row.user_id
        /\ new.trip_status = row.trip_status
    BY <2>1, CopyTypes DEF Row
  <2> QED
    BY <2>1, <2>2, AgentAssign
<1>4. CASE MarkTimeToGo
  <2> DEFINE new == [row EXCEPT !.time_to_go = TRUE]
  <2>1. /\ pc \notin {"sleep", "next", "commit"}
        /\ UNCHANGED <<trip, trip_count, req, cur, todo>>
        /\ Assign(new, "done")
    BY <1>4 DEF MarkTimeToGo
  <2>2. /\ new \in Row /\ new.user_id = row.user_id
        /\ new.trip_status = row.trip_status
    BY <2>1, CopyTypes DEF Row
  <2> QED
    BY <2>1, <2>2, AgentAssign
<1>5. CASE SendSms
  <2> DEFINE new == [row EXCEPT !.sms_count = @ + 1]
  <2>1. /\ pc \notin {"sleep", "next", "commit"}
        /\ UNCHANGED <<trip, trip_count, req, cur, todo>>
        /\ Assign(new, "done")
    BY <1>5 DEF SendSms
  <2>2. /\ new \in Row /\ new.user_id = row.user_id
        /\ new.trip_status = row.trip_status
    BY <2>1, CopyTypes DEF Row
  <2> QED
    BY <2>1, <2>2, AgentAssign
<1>6. CASE Recompute
  <2>1. CASE Goto("leave_by_shift")
    BY <1>6, <2>1 DEF Recompute, Goto, AgentMoves
  <2>2. CASE pc' = "commit"
    <3> DEFINE new == [row EXCEPT !.projected_timeline = TRUE]
    <3>1. /\ pc \notin {"sleep", "next", "commit"}
          /\ UNCHANGED <<trip, trip_count, req, cur, todo>>
          /\ mem' = [mem EXCEPT ![cur] = new]
          /\ dirty' = {"projected_timeline"}
      BY <1>6, <2>2 DEF Recompute, Goto
    <3>2. /\ new \in Row /\ new.trip_status = row.trip_status
      BY <3>1, CopyTypes DEF Row
    <3> QED
      BY <2>2, <3>1, <3>2 DEF AgentAssigns
  <2> QED
    BY <1>6, <2>1, <2>2 DEF Recompute
<1>7. CASE Advance
  <2>1. /\ pc = "advance" /\ row \in Row
        /\ UNCHANGED <<trip, trip_count, req, cur, todo>>
    BY <1>7, CopyTypes DEF Advance
  <2>2. PICK to \in Successors(row.trip_status),
             label \in {"post_trip", "done"} :
          Assign([row EXCEPT !.status = to, !.trip_status = to], label)
    BY <1>7 DEF Advance
  <2> DEFINE new == [row EXCEPT !.status = to, !.trip_status = to]
  <2>3. to \in Statuses
    BY <2>2, StatusSets
  <2>4. new \in Row /\ new.user_id = row.user_id /\ new.trip_status = to
    BY <2>1, <2>3 DEF Row
  <2>5. Assign(new, label)
    BY <2>2
  <2> HIDE DEF new
  <2>6. AgentAssigns(new)
    BY <2>1, <2>2, <2>4, <2>5, AgentAssign
  <2> QED
    BY <2>4, <2>6
<1> QED
  BY <1>1, <1>2, <1>3, <1>4, <1>5, <1>6, <1>7 DEF PollStep

(* A commit of the agent, column by column.                                *)
LEMMA AgentCommit ==
  ASSUME TypeInv, AgentWrites, PollCommit
  PROVE  /\ cur \in Trips /\ cur \in todo
         /\ \A t \in Trips : t # cur => trip'[t] = trip[t]
         /\ trip'[cur].user_id = trip[cur].user_id
         /\ "trip_status" \in dirty =>
              /\ trip'[cur].trip_status = mem[cur].trip_status
              /\ mem[cur].trip_status \in Ahead
         /\ "trip_status" \notin dirty =>
              trip'[cur].trip_status = trip[cur].trip_status
         /\ Tracked(cur) => Tracked(cur)'
<1> DEFINE w == Written(trip[cur], dirty, mem[cur])
<1>1. /\ pc = "commit" /\ cur \in Trips /\ cur \in todo /\ cur' = cur
      /\ trip' = [trip EXCEPT ![cur] = w] /\ trip \in [Trips -> Row]
  BY CopyTypes DEF PollCommit, TypeInv, TypeOK
<1>2. /\ w.user_id = IF "user_id" \in dirty
                     THEN mem[cur].user_id ELSE trip[cur].user_id
      /\ w.trip_status = IF "trip_status" \in dirty
                         THEN mem[cur].trip_status ELSE trip[cur].trip_status
  BY DEF Written
<1> HIDE DEF w
<1>3. trip'[cur] = w /\ \A t \in Trips : t # cur => trip'[t] = trip[t]
  BY <1>1
<1>4. "trip_status" \in dirty => mem[cur].trip_status \in Ahead
  BY <1>1 DEF AgentWrites
<1>5. trip'[cur].user_id = trip[cur].user_id
  BY <1>1, <1>2, <1>3 DEF AgentWrites
<1>6. Tracked(cur) => Tracked(cur)'
  BY <1>1, <1>2, <1>3, <1>4, AheadPhases DEF Tracked
<1> QED
  BY <1>1, <1>2, <1>3, <1>4, <1>5, <1>6

(* Requests and posts leave the agent alone.                               *)
LEMMA OutsideAgent ==
  ASSUME \/ \E t \in Trips : PostTrip(t)
         \/ \E r \in Requests : RequestStep(r)
  PROVE  UNCHANGED pollVars
<1>1. ASSUME NEW t \in Trips, PostTrip(t) PROVE UNCHANGED pollVars
  BY <1>1 DEF PostTrip
<1>2. ASSUME NEW r \in Requests, RequestStep(r) PROVE UNCHANGED pollVars
  BY <1>2 DEF RequestStep, Authenticate, ReadTrack, ReadUntrack, ReadUpdate,
              Reject, Commit, Fail
<1> QED
  BY <1>1, <1>2

(* What waits for a commit of the agent moves a trip ahead.                *)
LEMMA AgentWritesStep ==
  ASSUME TypeInv, AgentWrites, [Next]_vars
  PROVE  AgentWrites'
<1>1. CASE UNCHANGED pollVars
  BY <1>1 DEF AgentWrites, pollVars
<1>2. CASE PollStep
  <2>1. CASE TickLoad \/ FinishTrip \/ TickAbort \/ AgentMoves
    BY <2>1 DEF TickLoad, FinishTrip, TickAbort, AgentMoves, AgentWrites
  <2>2. CASE PollCommit
    BY <2>2 DEF PollCommit, AgentWrites, TypeInv, ControlOK
  <2>3. ASSUME NEW new \in Row, AgentAssigns(new) PROVE AgentWrites'
    <3>1. /\ cur \in Trips /\ mem \in [Trips -> Row] /\ cur' = cur
          /\ mem' = [mem EXCEPT ![cur] = new]
      BY <2>3, CopyTypes DEF AgentAssigns, TypeInv, TypeOK
    <3>2. mem'[cur'] = new
      BY <3>1
    <3> QED
      BY <2>3, <3>2, AheadPhases DEF AgentAssigns, AgentWrites
  <2> QED
    BY <1>2, <2>1, <2>2, <2>3, AgentStep
<1> QED
  BY <1>1, <1>2, OutsideAgent DEF Next, vars

-----------------------------------------------------------------------------
(* Steps of the requests.                                                  *)

(* What track_trip waits to commit once it has read the row.               *)
LEMMA ReadTrackWrites ==
  ASSUME TypeInv, NEW r \in Requests, ReadTrack(r)
  PROVE  LET q == req[r]
             p == req'[r]
         IN /\ q.at = "user" /\ q.kind = "track"
            /\ TrackAllowed(trip[q.trip], q.user)
            /\ \A s \in Requests : s # r => req'[s] = req[s]
            /\ p.at = "commit" /\ p.kind = q.kind /\ p.trip = q.trip
            /\ p.user = q.user /\ p.count = q.count
            /\ p.newCount = q.count + 1
            /\ ClaimOK(p, trip[q.trip])
            /\ UNCHANGED <<trip, trip_count, pollVars>>
<1> DEFINE q == req[r]
           row == trip[q.trip]
           tr == TrackedRow(row, q.user)
           tt == [tr EXCEPT !.projected_timeline = TRUE]
<1>1. /\ q.at = "user" /\ q.kind = "track" /\ TrackAllowed(row, q.user)
      /\ UNCHANGED <<trip, trip_count, pollVars>>
  BY DEF ReadTrack, Allowed
<1>2. /\ q \in Request /\ q.trip \in Trips /\ q.user \in Users
      /\ row \in Row /\ q.count + 1 \in Nat /\ FALSE \in BOOLEAN
  BY <1>1 DEF TypeInv, TypeOK, ControlOK, Request
<1>3. /\ tr \in Row /\ tt \in Row
      /\ Changed(row, tr) \in SUBSET Columns
      /\ Changed(row, tr) \union {"projected_timeline"} \in SUBSET Columns
  <2>1. "projected_timeline" \in Columns
    BY DEF Columns
  <2> QED
    BY <1>2, <2>1, HandlerRowTypes, ChangedType
<1>4. /\ tr.trip_status = "active" /\ tr.user_id = q.user
      /\ tt.trip_status = "active" /\ tt.user_id = q.user
  BY <1>2 DEF TrackedRow, Row
<1>5. /\ "trip_status" \in Changed(row, tr)
      /\ "user_id" \notin Changed(row, tr) => row.user_id = q.user
  BY <1>1, <1>4, AheadPhases DEF Changed, Columns, TrackAllowed
<1> HIDE DEF q, row, tr, tt
<1>6. \E new \in Row, cols \in SUBSET Columns, n \in Nat, l \in BOOLEAN :
        /\ Pending(r, new, cols, n, l)
        /\ new.trip_status = "active" /\ new.user_id = q.user
        /\ n = q.count + 1
        /\ Changed(row, tr) \subseteq cols
  <2>1. \/ Pending(r, tr, Changed(row, tr), q.count + 1, FALSE)
        \/ Pending(r, tt, Changed(row, tr) \union {"projected_timeline"},
                   q.count + 1, FALSE)
    BY DEF ReadTrack, q, row, tr, tt
  <2> QED
    BY <1>2, <1>3, <1>4, <2>1
<1>7. PICK new \in Row, cols \in SUBSET Columns, n \in Nat, l \in BOOLEAN :
        /\ Pending(r, new, cols, n, l)
        /\ new.trip_status = "active" /\ new.user_id = q.user
        /\ n = q.count + 1
        /\ Changed(row, tr) \subseteq cols
  BY <1>6
<1>8. req[r].at # "idle" /\ Pending(r, new, cols, n, l)
  BY <1>1, <1>7 DEF q
<1>9. /\ req'[r].at = "commit" /\ req'[r].kind = q.kind
      /\ req'[r].trip = q.trip /\ req'[r].user = q.user
      /\ req'[r].count = q.count
      /\ req'[r].new = Written(NoRow, cols, new)
      /\ req'[r].cols = cols /\ req'[r].newCount = n
      /\ \A s \in Requests : s # r => req'[s] = req[s]
  BY <1>8, PendingType DEF q
<1>10. ClaimOK(req'[r], row)
  BY <1>5, <1>7, <1>9 DEF ClaimOK, Written
<1> QED
  BY <1>1, <1>7, <1>9, <1>10 DEF q, row

(* What update_trip waits to commit: at most a timeline of an active trip. *)
LEMMA ReadUpdateWrites ==
  ASSUME TypeInv, NEW r \in Requests, ReadUpdate(r)
  PROVE  LET q == req[r]
             p == req'[r]
         IN /\ q.at = "user" /\ q.kind = "update"
            /\ \A s \in Requests : s # r => req'[s] = req[s]
            /\ p.at = "commit" /\ p.kind = q.kind /\ p.trip = q.trip
            /\ p.user = q.user /\ p.count = q.count
            /\ p.newCount = q.count
            /\ \/ p.cols = {}
               \/ p.cols = {"projected_timeline"} /\ Tracked(q.trip)
            /\ UNCHANGED <<trip, trip_count, pollVars>>
<1> DEFINE q == req[r]
           row == trip[q.trip]
           ut == [row EXCEPT !.projected_timeline = TRUE]
<1>1. /\ q.at = "user" /\ q.kind = "update"
      /\ UNCHANGED <<trip, trip_count, pollVars>>
  BY DEF ReadUpdate
<1>2. /\ q \in Request /\ q.trip \in Trips /\ q.user \in Users
      /\ row \in Row /\ q.count \in Nat
  BY <1>1 DEF TypeInv, TypeOK, ControlOK, Request
<1>3. ut \in Row /\ row \in Row
  BY <1>2, HandlerRowTypes
<1> HIDE DEF q, row, ut
<1>4. \E new \in Row, cols \in SUBSET Columns, n \in Nat, l \in BOOLEAN :
        /\ Pending(r, new, cols, n, l)
        /\ n = q.count
        /\ \/ cols = {}
           \/ cols = {"projected_timeline"} /\ row.trip_status = "active"
  <2>1. {} \in SUBSET Columns /\ {"projected_timeline"} \in SUBSET Columns
    BY DEF Columns
  <2>2. CASE row.trip_status = "active"
    <3>1. \E l \in BOOLEAN :
            \/ Pending(r, row, {}, q.count, l)
            \/ Pending(r, ut, {"projected_timeline"}, q.count, l)
      BY <2>2 DEF ReadUpdate, q, row, ut
    <3> QED
      BY <1>2, <1>3, <2>1, <2>2, <3>1
  <2>3. CASE row.trip_status # "active"
    <3>1. Pending(r, row, {}, q.count, FALSE)
      BY <2>3 DEF ReadUpdate, q, row
    <3> QED
      BY <1>2, <1>3, <2>1, <3>1
  <2> QED
    BY <2>2, <2>3
<1>5. PICK new \in Row, cols \in SUBSET Columns, n \in Nat, l \in BOOLEAN :
        /\ Pending(r, new, cols, n, l)
        /\ n = q.count
        /\ \/ cols = {}
           \/ cols = {"projected_timeline"} /\ row.trip_status = "active"
  BY <1>4
<1>6. req[r].at # "idle" /\ Pending(r, new, cols, n, l)
  BY <1>1, <1>5 DEF q
<1>a. /\ req' \in [Requests -> Request]
      /\ \A s \in Requests : s # r => req'[s] = req[s]
      /\ req'[r].at = "commit"
      /\ req'[r].kind = req[r].kind
      /\ req'[r].trip = req[r].trip /\ req'[r].user = req[r].user
      /\ req'[r].count = req[r].count
      /\ req'[r].new = Written(NoRow, cols, new)
      /\ req'[r].cols = cols /\ req'[r].newCount = n
  BY <1>6, PendingType, SMTT(30)
<1>7. /\ req'[r].at = "commit" /\ req'[r].kind = q.kind
      /\ req'[r].trip = q.trip /\ req'[r].user = q.user
      /\ req'[r].count = q.count
      /\ req'[r].cols = cols /\ req'[r].newCount = n
      /\ \A s \in Requests : s # r => req'[s] = req[s]
  BY <1>a DEF q
<1>8. row.trip_status = "active" => Tracked(q.trip)
  BY AheadPhases DEF Tracked, row
<1> QED
  BY <1>1, <1>5, <1>7, <1>8 DEF q

(* The commit of a request, column by column.                              *)
LEMMA RequestCommit ==
  ASSUME TypeInv, NEW r \in Requests, Commit(r)
  PROVE  LET q == req[r]
             w == Written(trip[q.trip], q.cols, q.new)
         IN /\ q.at = "commit" /\ q.trip \in Trips /\ q.user \in Users
            /\ \A s \in Requests : s # r => req'[s] = req[s]
            /\ req'[r].at = "idle"
            /\ trip'[q.trip] = w
            /\ \A t \in Trips : t # q.trip => trip'[t] = trip[t]
            /\ w.user_id = IF "user_id" \in q.cols THEN q.new.user_id
                                                   ELSE trip[q.trip].user_id
            /\ w.trip_status = IF "trip_status" \in q.cols
                               THEN q.new.trip_status
                               ELSE trip[q.trip].trip_status
            /\ \A v \in Users : trip_count'[v] =
                 IF v = q.user /\ q.newCount # q.count THEN q.newCount
                                                       ELSE trip_count[v]
            /\ UNCHANGED pollVars
<1> DEFINE q == req[r]
           w == Written(trip[q.trip], q.cols, q.new)
<1>1. q.at = "commit" /\ q.trip \in Trips /\ q.user \in Users
  BY DEF Commit, TypeInv, ControlOK
<1>2. /\ trip' = [trip EXCEPT ![q.trip] = w]
      /\ trip \in [Trips -> Row] /\ req \in [Requests -> Request]
      /\ req' = [req EXCEPT ![r] = Idle]
      /\ UNCHANGED pollVars
  BY DEF Commit, TypeInv, TypeOK
<1>3. \A v \in Users : trip_count'[v] =
         IF v = q.user /\ q.newCount # q.count THEN q.newCount
                                               ELSE trip_count[v]
  BY <1>1 DEF Commit, NewTripCount, TypeInv, TypeOK
<1>4. /\ w.user_id = IF "user_id" \in q.cols THEN q.new.user_id
                                             ELSE trip[q.trip].user_id
      /\ w.trip_status = IF "trip_status" \in q.cols THEN q.new.trip_status
                                             ELSE trip[q.trip].trip_status
  BY DEF Written
<1>5. Idle.at = "idle"
  BY DEF Idle
<1> HIDE DEF q, w
<1>6. /\ trip'[q.trip] = w /\ \A t \in Trips : t # q.trip => trip'[t] = trip[t]
      /\ req'[r].at = "idle" /\ \A s \in Requests : s # r => req'[s] = req[s]
  BY <1>1, <1>2, <1>5
<1> QED
  BY <1>1, <1>2, <1>3, <1>4, <1>6 DEF q, w

-----------------------------------------------------------------------------
(* Nobody is overcharged.                                                  *)

(* The tracked trips of a user can be counted, and tracking more of them   *)
(* does not lower the number.                                              *)
LEMMA TrackedFinite ==
  ASSUME NEW u
  PROVE  IsFiniteSet(TrackedBy(u)) /\ Cardinality(TrackedBy(u)) \in Nat
<1>1. TrackedBy(u) \in SUBSET Trips
  BY DEF TrackedBy
<1> QED
  BY <1>1, FS_Subset, FS_CardinalityType, LifecycleAssumption
  DEF LifecycleAssumption

LEMMA MoreTracked ==
  ASSUME NEW u, NEW v, TrackedBy(u) \subseteq TrackedBy(v)'
  PROVE  /\ Cardinality(TrackedBy(u)) \in Nat
         /\ Cardinality(TrackedBy(v)') \in Nat
         /\ Cardinality(TrackedBy(u)) <= Cardinality(TrackedBy(v)')
<1>1. TrackedBy(v)' \in SUBSET Trips
  BY DEF TrackedBy
<1>2. IsFiniteSet(TrackedBy(v)')
  BY <1>1, FS_Subset, LifecycleAssumption DEF LifecycleAssumption
<1> QED
  BY <1>2, TrackedFinite, FS_Subset, FS_CardinalityType

(* The same with the trip a request is about to track.                     *)
LEMMA MoreTrackedWith ==
  ASSUME NEW u, NEW t \in Trips, TrackedBy(u) \subseteq TrackedBy(u)'
  PROVE  Cardinality(TrackedBy(u) \union {t})
           <= Cardinality(TrackedBy(u)' \union {t})
<1>1. TrackedBy(u)' \in SUBSET Trips
  BY DEF TrackedBy
<1>2. IsFiniteSet(TrackedBy(u)')
  BY <1>1, FS_Subset, LifecycleAssumption DEF LifecycleAssumption
<1>3. /\ IsFiniteSet(TrackedBy(u)' \union {t})
      /\ TrackedBy(u) \union {t} \in SUBSET (TrackedBy(u)' \union {t})
  BY <1>2, FS_AddElement
<1> QED
  BY <1>3, FS_Subset

(* Nothing to charge at first.                                             *)
LEMMA ChargeInit == Init => ChargeInv
<1> SUFFICES ASSUME Init PROVE ChargeInv
  OBVIOUS
<1>1. NeverOvercharged
  <2> SUFFICES ASSUME NEW u \in Users
               PROVE  trip_count[u] <= Cardinality(TrackedBy(u))
    BY DEF NeverOvercharged
  <2> QED
    BY TrackedFinite DEF Init
<1> QED
  BY <1>1 DEF Init, ChargeInv, AgentWrites, Idle

(* The trips of the user only grow: nothing takes one away or puts it back *)
(* to a draft.                                                             *)
LEMMA TrackedGrow ==
  ASSUME NoUntrack, OneUser, TypeInv, ChargeInv, [Next]_vars, NEW u \in Users
  PROVE  TrackedBy(u) \subseteq TrackedBy(u)'
<1>1. CASE UNCHANGED trip
  BY <1>1 DEF TrackedBy, Tracked
<1>2. ASSUME NEW t \in Trips, PostTrip(t)
      PROVE  TrackedBy(u) \subseteq TrackedBy(u)'
  <2>1. /\ \A s \in Trips : s # t => trip'[s] = trip[s]
        /\ trip[t].trip_status = "absent"
    BY <1>2 DEF PostTrip, TypeInv, TypeOK, NoRow
  <2> QED
    BY <2>1 DEF TrackedBy, Tracked
<1>3. ASSUME NEW r \in Requests, Commit(r)
      PROVE  TrackedBy(u) \subseteq TrackedBy(u)'
  <2> DEFINE q == req[r]
             w == Written(trip[q.trip], q.cols, q.new)
  <2>1. /\ q.at = "commit" /\ q.trip \in Trips /\ q.user \in Users
        /\ trip'[q.trip] = w
        /\ \A t \in Trips : t # q.trip => trip'[t] = trip[t]
        /\ w.user_id = IF "user_id" \in q.cols THEN q.new.user_id
                                               ELSE trip[q.trip].user_id
        /\ w.trip_status = IF "trip_status" \in q.cols
                           THEN q.new.trip_status
                           ELSE trip[q.trip].trip_status
    BY <1>3, RequestCommit
  <2>2. ChargeOK(q)
    BY <2>1 DEF ChargeInv
  <2>3. u = q.user
    BY <2>1 DEF OneUser
  <2> HIDE DEF w, q
  <2>4. ASSUME q.trip \in TrackedBy(u) PROVE q.trip \in TrackedBy(u)'
    <3>1. CASE q.kind = "track"
      BY <2>1, <2>2, <2>3, <3>1, AheadPhases
      DEF ChargeOK, ClaimOK, TrackedBy, Tracked
    <3>2. CASE q.kind = "update"
      BY <2>1, <2>2, <2>4, <3>2 DEF ChargeOK, TrackedBy, Tracked
    <3> QED
      BY <2>2, <3>1, <3>2 DEF ChargeOK
  <2>5. ASSUME NEW t \in TrackedBy(u), t # q.trip PROVE t \in TrackedBy(u)'
    BY <2>1, <2>5 DEF TrackedBy, Tracked
  <2> QED
    BY <2>4, <2>5
<1>4. CASE PollCommit
  <2>1. /\ cur \in Trips
        /\ \A t \in Trips : t # cur => trip'[t] = trip[t]
        /\ trip'[cur].user_id = trip[cur].user_id
        /\ Tracked(cur) => Tracked(cur)' /\ cur' = cur
    BY <1>4, AgentCommit DEF ChargeInv, PollCommit
  <2> QED
    BY <2>1 DEF TrackedBy, Tracked
<1>5. CASE PollStep
  <2>1. UNCHANGED trip \/ PollCommit
    BY <1>5, AgentStep DEF TickLoad, FinishTrip, TickAbort, AgentMoves,
                           AgentAssigns
  <2> QED
    BY <1>1, <1>4, <2>1
<1>6. ASSUME NEW r \in Requests, RequestStep(r)
      PROVE  TrackedBy(u) \subseteq TrackedBy(u)'
  <2>1. UNCHANGED trip \/ Commit(r)
    BY <1>6 DEF RequestStep, Authenticate, ReadTrack, ReadUntrack,
                ReadUpdate, Reject, Fail
  <2> QED
    BY <1>1, <1>3, <2>1
<1> QED
  BY <1>1, <1>2, <1>5, <1>6 DEF Next, vars

(* A request that a step leaves alone has still counted no trip too many.  *)
LEMMA ChargeKept ==
  ASSUME TypeInv, ChargeInv, NEW q \in Request, NEW u \in Users,
         q.user = u, q.trip \in Trips, ChargeOK(q),
         TrackedBy(u) \subseteq TrackedBy(u)',
         \/ trip'[q.trip].user_id = trip[q.trip].user_id
         \/ trip'[q.trip].user_id = u
         \/ trip[q.trip].user_id = NoUser
  PROVE  ChargeOK(q)'
<1>1. q.count \in Nat /\ q.newCount \in Nat
  BY DEF Request
<1>2. q.count <= Cardinality(TrackedBy(u)')
  BY <1>1, MoreTracked DEF ChargeOK
<1>3. ASSUME q.kind = "track", q.at = "commit"
      PROVE  q.newCount <= Cardinality(TrackedBy(u)' \union {q.trip})
  <2>1. /\ TrackedBy(u) \union {q.trip} \in SUBSET Trips
        /\ TrackedBy(u)' \union {q.trip} \in SUBSET Trips
    BY DEF TrackedBy
  <2>2. /\ Cardinality(TrackedBy(u) \union {q.trip}) \in Nat
        /\ Cardinality(TrackedBy(u)' \union {q.trip}) \in Nat
    BY <2>1, FS_Subset, FS_CardinalityType, LifecycleAssumption
    DEF LifecycleAssumption
  <2>3. Cardinality(TrackedBy(u) \union {q.trip})
          <= Cardinality(TrackedBy(u)' \union {q.trip})
    BY MoreTrackedWith
  <2>4. q.newCount <= Cardinality(TrackedBy(u) \union {q.trip})
    BY <1>3 DEF ChargeOK
  <2> QED
    BY <1>1, <2>2, <2>3, <2>4
<1>4. q.kind = "track" /\ q.at = "commit" => ClaimOK(q, trip'[q.trip])
  BY LifecycleAssumption DEF ChargeOK, ClaimOK, LifecycleAssumption
<1>5. q.kind \in {"track", "update"}
      /\ (q.at = "commit" /\ q.kind = "update" =>
            q.cols \subseteq {"projected_timeline"} /\ q.newCount = q.count)
  BY DEF ChargeOK
<1> QED
  BY <1>2, <1>3, <1>4, <1>5 DEF ChargeOK

(* A step that charges nobody keeps every charge covered, if the tracked   *)
(* trips only grow.                                                        *)
LEMMA NothingCharged ==
  ASSUME TypeInv, NeverOvercharged, UNCHANGED trip_count,
         \A u \in Users : TrackedBy(u) \subseteq TrackedBy(u)'
  PROVE  NeverOvercharged'
<1> SUFFICES ASSUME NEW u \in Users
             PROVE  trip_count[u] <= Cardinality(TrackedBy(u)')
  BY DEF NeverOvercharged
<1>1. trip_count[u] \in Nat /\ trip_count[u] <= Cardinality(TrackedBy(u))
  BY DEF TypeInv, TypeOK, NeverOvercharged
<1>2. /\ Cardinality(TrackedBy(u)) \in Nat
      /\ Cardinality(TrackedBy(u)') \in Nat
      /\ Cardinality(TrackedBy(u)) <= Cardinality(TrackedBy(u)')
  BY MoreTracked
<1> QED
  BY <1>1, <1>2

(* A step of a request keeps its charge covered by the trips it tracks.    *)
LEMMA ChargeRequestStep ==
  ASSUME NoUntrack, OneUser, TypeInv, ChargeInv,
         NEW r \in Requests, RequestStep(r)
  PROVE  /\ \A s \in Requests : (req[s].at # "idle" => ChargeOK(req[s]))'
         /\ NeverOvercharged'
<1>1. \A u \in Users : TrackedBy(u) \subseteq TrackedBy(u)'
  BY TrackedGrow DEF Next
<1>2. ASSUME NEW s \in Requests, req'[s] = req[s], req[s].at # "idle",
             \/ trip'[req[s].trip].user_id = trip[req[s].trip].user_id
             \/ trip'[req[s].trip].user_id \in Users
      PROVE  ChargeOK(req[s])'
  <2>1. PICK q \in Request, u \in Users :
          /\ q = req[s] /\ u = q.user /\ q.trip \in Trips /\ ChargeOK(q)
    BY <1>2 DEF TypeInv, TypeOK, ControlOK, ChargeInv
  <2>2. ChargeOK(q)'
    BY <1>1, <1>2, <2>1, ChargeKept DEF OneUser
  <2>3. TrackedBy(q.user)' = TrackedBy(req[s].user)'
    BY <1>2, <2>1 DEF TrackedBy
  <2> QED
    BY <1>2, <2>1, <2>2, <2>3 DEF ChargeOK
<1>3. ASSUME UNCHANGED <<trip, trip_count>>,
             \A s \in Requests : s # r => req'[s] = req[s],
             req'[r].at # "idle" => ChargeOK(req[r])'
      PROVE  /\ \A s \in Requests : (req[s].at # "idle" => ChargeOK(req[s]))'
             /\ NeverOvercharged'
  <2>1. NeverOvercharged'
    BY <1>1, <1>3, NothingCharged DEF ChargeInv
  <2>2. ASSUME NEW s \in Requests, s # r, req'[s].at # "idle"
        PROVE  ChargeOK(req[s])'
    BY <1>2, <1>3, <2>2
  <2> QED
    BY <1>3, <2>1, <2>2
<1>4. ASSUME UNCHANGED trip, NEW u \in Users, req'[r].user = u
      PROVE  TrackedBy(req[r].user)' = TrackedBy(u)
  BY <1>4 DEF TrackedBy, Tracked
<1>5. ASSUME NEW k \in {"track", "untrack", "update"}, NEW t \in Trips,
             NEW u \in Users, Authenticate(r, k, t, u)
      PROVE  UNCHANGED <<trip, trip_count>>
             /\ (\A s \in Requests : s # r => req'[s] = req[s])
             /\ ChargeOK(req[r])'
  <2> DEFINE q == [Idle EXCEPT !.at = "user", !.kind = k, !.trip = t,
                               !.user = u, !.count = trip_count[u]]
  <2>1. /\ q.at = "user" /\ q.kind = k /\ q.user = u
        /\ q.count = trip_count[u]
    BY DEF Idle
  <2>2. /\ req' = [req EXCEPT ![r] = q] /\ req \in [Requests -> Request]
        /\ UNCHANGED <<trip, trip_count>> /\ k \in {"track", "update"}
    BY <1>5 DEF Authenticate, TypeInv, TypeOK, NoUntrack
  <2>3. q.count <= Cardinality(TrackedBy(u))
    BY <2>1 DEF ChargeInv, NeverOvercharged
  <2> HIDE DEF q
  <2>4. req'[r] = q /\ \A s \in Requests : s # r => req'[s] = req[s]
    BY <2>2
  <2>5. TrackedBy(req[r].user)' = TrackedBy(u)
    BY <1>4, <2>1, <2>2, <2>4
  <2> QED
    BY <2>1, <2>2, <2>3, <2>4, <2>5 DEF ChargeOK
<1>6. ASSUME ReadTrack(r)
      PROVE  UNCHANGED <<trip, trip_count>>
             /\ (\A s \in Requests : s # r => req'[s] = req[s])
             /\ ChargeOK(req[r])'
  <2>1. PICK q \in Request : q = req[r]
    BY DEF TypeInv, TypeOK
  <2>2. /\ q.at = "user" /\ q.kind = "track"
        /\ TrackAllowed(trip[q.trip], q.user)
        /\ \A s \in Requests : s # r => req'[s] = req[s]
        /\ req'[r].at = "commit" /\ req'[r].kind = "track"
        /\ req'[r].trip = q.trip /\ req'[r].user = q.user
        /\ req'[r].count = q.count /\ req'[r].newCount = q.count + 1
        /\ ClaimOK(req'[r], trip[q.trip])
        /\ UNCHANGED <<trip, trip_count>>
    BY <1>6, <2>1, ReadTrackWrites
  <2>3. /\ q.trip \in Trips /\ q.user \in Users /\ q.count \in Nat
        /\ q.count <= Cardinality(TrackedBy(q.user))
    BY <2>1, <2>2 DEF TypeInv, ControlOK, Request, ChargeInv, ChargeOK
  <2>4. q.trip \notin TrackedBy(q.user)
    BY <2>2 DEF TrackAllowed, TrackedBy, Tracked
  <2>5. Cardinality(TrackedBy(q.user) \union {q.trip})
          = Cardinality(TrackedBy(q.user)) + 1
    BY <2>4, TrackedFinite, FS_AddElement
  <2>6. Cardinality(TrackedBy(q.user)) \in Nat
    BY TrackedFinite
  <2>7. q.count + 1 <= Cardinality(TrackedBy(q.user) \union {q.trip})
    BY <2>3, <2>5, <2>6
  <2>8. TrackedBy(req[r].user)' = TrackedBy(q.user)
    BY <1>4, <2>2, <2>3
  <2>9. ClaimOK(req'[r], trip'[req'[r].trip])
    BY <2>2
  <2> QED
    BY <2>2, <2>3, <2>7, <2>8, <2>9 DEF ChargeOK, ClaimOK
<1>7. ASSUME ReadUpdate(r)
      PROVE  UNCHANGED <<trip, trip_count>>
             /\ (\A s \in Requests : s # r => req'[s] = req[s])
             /\ ChargeOK(req[r])'
  <2>1. PICK q \in Request : q = req[r]
    BY DEF TypeInv, TypeOK
  <2>2. /\ q.at = "user" /\ q.kind = "update"
        /\ \A s \in Requests : s # r => req'[s] = req[s]
        /\ req'[r].at = "commit" /\ req'[r].kind = "update"
        /\ req'[r].user = q.user
        /\ req'[r].count = q.count /\ req'[r].newCount = q.count
        /\ req'[r].cols \subseteq {"projected_timeline"}
        /\ UNCHANGED <<trip, trip_count>>
    BY <1>7, <2>1, ReadUpdateWrites
  <2>3. /\ q.user \in Users /\ q.count <= Cardinality(TrackedBy(q.user))
    BY <2>1, <2>2 DEF TypeInv, ControlOK, ChargeInv, ChargeOK
  <2>4. TrackedBy(req[r].user)' = TrackedBy(q.user)
    BY <1>4, <2>2, <2>3
  <2> QED
    BY <2>2, <2>3, <2>4 DEF ChargeOK
<1>8. CASE Commit(r)
  <2>1. PICK q \in Request : q = req[r]
    BY DEF TypeInv, TypeOK
  <2> DEFINE w == Written(trip[q.trip], q.cols, q.new)
  <2>2. /\ q.at = "commit" /\ q.trip \in Trips /\ q.user \in Users
        /\ \A s \in Requests : s # r => req'[s] = req[s]
        /\ req'[r].at = "idle"
        /\ trip'[q.trip] = w
        /\ \A t \in Trips : t # q.trip => trip'[t] = trip[t]
        /\ w.user_id = IF "user_id" \in q.cols THEN q.new.user_id
                                               ELSE trip[q.trip].user_id
        /\ w.trip_status = IF "trip_status" \in q.cols
                           THEN q.new.trip_status
                           ELSE trip[q.trip].trip_status
        /\ \A v \in Users : trip_count'[v] =
             IF v = q.user /\ q.newCount # q.count THEN q.newCount
                                                   ELSE trip_count[v]
    BY <1>8, <2>1, RequestCommit
  <2>3. ChargeOK(q) /\ q.newCount \in Nat
    BY <2>1, <2>2 DEF ChargeInv, Request
  <2> HIDE DEF w
  <2>4. w.user_id = trip[q.trip].user_id \/ w.user_id \in Users
    BY <2>2, <2>3 DEF ChargeOK, ClaimOK
  <2>5. ASSUME NEW s \in Requests, req'[s].at # "idle"
        PROVE  ChargeOK(req[s])'
    <3>1. req'[s] = req[s]
      BY <2>2, <2>5
    <3>2. req[s].trip \in Trips
      BY <2>5, <3>1 DEF TypeInv, ControlOK
    <3>3. \/ trip'[req[s].trip].user_id = trip[req[s].trip].user_id
          \/ trip'[req[s].trip].user_id \in Users
      BY <2>2, <2>4, <3>2
    <3> QED
      BY <1>2, <2>5, <3>1, <3>3
  <2>6. CASE q.kind = "track"
    <3>1. /\ w.trip_status = "active" /\ w.user_id = q.user
          /\ q.newCount <= Cardinality(TrackedBy(q.user) \union {q.trip})
      BY <2>2, <2>3, <2>6 DEF ChargeOK, ClaimOK
    <3>2. PICK u \in Users : u = q.user
      BY <2>2
    <3>3. q.trip \in TrackedBy(u)'
      BY <2>2, <3>1, <3>2, AheadPhases DEF TrackedBy, Tracked
    <3>4. TrackedBy(u)' \union {q.trip} = TrackedBy(u)'
      BY <3>3
    <3>5. Cardinality(TrackedBy(u) \union {q.trip})
            <= Cardinality(TrackedBy(u)' \union {q.trip})
      BY <1>1, <2>2, MoreTrackedWith
    <3>6. /\ Cardinality(TrackedBy(u) \union {q.trip}) \in Nat
          /\ Cardinality(TrackedBy(u)') \in Nat
      BY <1>1, TrackedFinite, MoreTracked, FS_AddElement, FS_CardinalityType
    <3>7. q.newCount <= Cardinality(TrackedBy(u)')
      BY <2>3, <3>1, <3>2, <3>4, <3>5, <3>6
    <3>8. trip_count[u] <= Cardinality(TrackedBy(u)')
      <4>1. /\ trip_count[u] \in Nat
            /\ trip_count[u] <= Cardinality(TrackedBy(u))
        BY DEF TypeInv, TypeOK, ChargeInv, NeverOvercharged
      <4>2. /\ Cardinality(TrackedBy(u)) \in Nat
            /\ Cardinality(TrackedBy(u)) <= Cardinality(TrackedBy(u)')
        BY <1>1, MoreTracked
      <4> QED
        BY <3>6, <4>1, <4>2
    <3>9. trip_count'[u] <= Cardinality(TrackedBy(u)')
      BY <2>2, <3>2, <3>7, <3>8
    <3>10. \A v \in Users : v = u
      BY DEF OneUser
    <3> QED
      BY <2>5, <3>9, <3>10 DEF NeverOvercharged
  <2>7. CASE q.kind = "update"
    <3>1. \A v \in Users : trip_count'[v] = trip_count[v]
      BY <2>2, <2>3, <2>7 DEF ChargeOK
    <3>2. trip_count' = trip_count
      BY <3>1, TypeStep DEF Next, TypeInv, TypeOK
    <3> QED
      BY <1>1, <2>5, <3>2, NothingCharged DEF ChargeInv
  <2> QED
    BY <2>3, <2>6, <2>7 DEF ChargeOK
<1>9. CASE Reject(r) \/ Fail(r)
  <2>1. /\ req' = [req EXCEPT ![r] = Idle] /\ req \in [Requests -> Request]
        /\ UNCHANGED <<trip, trip_count>> /\ Idle.at = "idle"
    BY <1>9 DEF Reject, Fail, TypeInv, TypeOK, Idle
  <2> QED
    BY <1>3, <2>1
<1>10. ~ ReadUntrack(r)
  BY DEF ReadUntrack, ChargeInv, ChargeOK
<1> QED
  BY <1>3, <1>5, <1>6, <1>7, <1>8, <1>9, <1>10 DEF RequestStep

(* Every step keeps the charges covered.                                   *)
LEMMA ChargeStep ==
  ASSUME NoUntrack, OneUser, TypeInv, ChargeInv, [Next]_vars
  PROVE  ChargeInv'
<1>1. AgentWrites'
  BY AgentWritesStep DEF ChargeInv
<1>2. \A u \in Users : TrackedBy(u) \subseteq TrackedBy(u)'
  BY TrackedGrow
<1>3. ASSUME UNCHANGED <<req, trip_count>>,
             \A r \in Requests : req[r].at # "idle" =>
               \/ trip'[req[r].trip].user_id = trip[req[r].trip].user_id
               \/ trip[req[r].trip].user_id = NoUser
      PROVE  ChargeInv'
  <2>1. ASSUME NEW r \in Requests, req[r].at # "idle"
        PROVE  ChargeOK(req[r])'
    <3>1. PICK q \in Request, u \in Users :
            /\ q = req[r] /\ u = q.user /\ q.trip \in Trips /\ ChargeOK(q)
      BY <2>1 DEF TypeInv, TypeOK, ControlOK, ChargeInv
    <3>2. ChargeOK(q)'
      BY <1>2, <1>3, <2>1, <3>1, ChargeKept
    <3>3. TrackedBy(q.user)' = TrackedBy(req[r].user)'
      BY <1>3, <3>1 DEF TrackedBy
    <3> QED
      BY <1>3, <3>1, <3>2, <3>3 DEF ChargeOK
  <2>2. NeverOvercharged'
    BY <1>2, <1>3, NothingCharged DEF ChargeInv
  <2> QED
    BY <1>1, <1>3, <2>1, <2>2 DEF ChargeInv
<1>4. CASE UNCHANGED vars
  BY <1>3, <1>4 DEF vars
<1>5. ASSUME NEW t \in Trips, PostTrip(t) PROVE ChargeInv'
  <2>1. /\ \A s \in Trips : s # t => trip'[s] = trip[s]
        /\ trip[t].user_id = NoUser
        /\ UNCHANGED <<req, trip_count>>
    BY <1>5 DEF PostTrip, TypeInv, TypeOK, NoRow
  <2> QED
    BY <1>3, <2>1 DEF TypeInv, ControlOK
<1>6. CASE \E r \in Requests : RequestStep(r)
  <2>1. /\ \A s \in Requests : (req[s].at # "idle" => ChargeOK(req[s]))'
        /\ NeverOvercharged'
    BY <1>6, ChargeRequestStep
  <2> QED
    BY <1>1, <2>1 DEF ChargeInv
<1>7. CASE PollStep
  <2>1. UNCHANGED <<req, trip_count>>
    BY <1>7, AgentStep DEF TickLoad, PollCommit, FinishTrip, TickAbort,
                           AgentMoves, AgentAssigns
  <2>2. \A t \in Trips : trip'[t].user_id = trip[t].user_id
    <3>1. CASE PollCommit
      BY <3>1, AgentCommit DEF ChargeInv
    <3>2. CASE UNCHANGED trip
      BY <3>2
    <3> QED
      BY <1>7, <3>1, <3>2, AgentStep DEF TickLoad, FinishTrip, TickAbort,
                                         AgentMoves, AgentAssigns
  <2> QED
    BY <1>3, <2>1, <2>2 DEF TypeInv, ControlOK
<1> QED
  BY <1>4, <1>5, <1>6, <1>7 DEF Next

(* A user alone is never charged for more trips than they have tracked,    *)
(* however their taps and the ticks overlap, as long as nothing is         *)
(* untracked (trips.py:228-287).                                           *)
THEOREM ChargesAreCovered ==
  ASSUME NoUntrack, OneUser
  PROVE  Spec => []NeverOvercharged
<1>1. ChargeInv => NeverOvercharged
  BY DEF ChargeInv
<1>2. TypeInv /\ ChargeInv /\ [Next]_vars => ChargeInv'
  BY ChargeStep
<1> QED
  BY <1>1, <1>2, TypeInit, TypeStep, ChargeInit, PTL DEF Spec

-----------------------------------------------------------------------------
(* One request at a time.                                                  *)

(* Writing the columns in which two rows differ turns one into the other.  *)
LEMMA WrittenChanged ==
  ASSUME NEW row \in Row, NEW new \in Row
  PROVE  Written(row, Changed(row, new),
                 Written(NoRow, Changed(row, new), new)) = new
<1> DEFINE cols == Changed(row, new)
           w == Written(row, cols, Written(NoRow, cols, new))
<1>1. \A c \in Columns : c \in cols <=> row[c] # new[c]
  BY DEF Changed
<1> HIDE DEF cols
<1>2. w \in Row
  BY WrittenType, NoRowType
<1>3. w.status = new.status /\ w.trip_status = new.trip_status
      /\ w.user_id = new.user_id
  BY <1>1 DEF Written, Columns
<1>4. w.projected_timeline = new.projected_timeline
      /\ w.push_count = new.push_count
  BY <1>1 DEF Written, Columns
<1>5. w.time_to_go = new.time_to_go /\ w.sms_count = new.sms_count
      /\ w.feedback_requested = new.feedback_requested
  BY <1>1 DEF Written, Columns
<1> HIDE DEF w
<1>6. w = new
  BY <1>2, <1>3, <1>4, <1>5 DEF Row
<1> QED
  BY <1>6 DEF w, cols

(* What untrack_trip waits to commit.                                      *)
LEMMA ReadUntrackWrites ==
  ASSUME TypeInv, NEW r \in Requests, ReadUntrack(r)
  PROVE  LET q == req[r]
             p == req'[r]
         IN /\ q.at = "user" /\ q.kind = "untrack"
            /\ UntrackAllowed(trip[q.trip], q.user)
            /\ \A s \in Requests : s # r => req'[s] = req[s]
            /\ p.at = "commit" /\ p.kind = q.kind /\ p.trip = q.trip
            /\ p.user = q.user /\ p.count = q.count
            /\ p.newCount = IF q.count > 0 THEN q.count - 1 ELSE 0
            /\ Written(trip[q.trip], p.cols, p.new)
                 = UntrackedRow(trip[q.trip])
            /\ UNCHANGED <<trip, trip_count, pollVars>>
<1> DEFINE q == req[r]
           row == trip[q.trip]
           un == UntrackedRow(row)
           m == IF q.count > 0 THEN q.count - 1 ELSE 0
           cols == Changed(row, un)
<1>1. /\ q.at = "user" /\ q.kind = "untrack" /\ UntrackAllowed(row, q.user)
      /\ UNCHANGED <<trip, trip_count, pollVars>>
  BY DEF ReadUntrack, Allowed
<1>2. /\ q \in Request /\ q.trip \in Trips /\ q.user \in Users
      /\ row \in Row /\ q.count \in Nat
  BY <1>1 DEF TypeInv, TypeOK, ControlOK, Request
<1>3. un \in Row
  BY <1>2, HandlerRowTypes
<1>a. m \in Nat
  BY <1>2
<1>4. cols \in SUBSET Columns
  BY ChangedType
<1>5. Pending(r, un, cols, m, FALSE) /\ req[r].at # "idle"
  BY <1>1 DEF ReadUntrack
<1>6. Written(row, cols, Written(NoRow, cols, un)) = un
  BY <1>2, <1>3, WrittenChanged
<1> HIDE DEF q, row, un, m, cols
<1>7. PICK new \in Row, c \in SUBSET Columns, n \in Nat, l \in BOOLEAN :
        /\ req[r].at # "idle" /\ Pending(r, new, c, n, l)
        /\ new = un /\ c = cols /\ n = m
  BY <1>3, <1>4, <1>5, <1>a
<1>b. req[r].at # "idle" /\ Pending(r, new, c, n, l)
  BY <1>7
<1>8. /\ req' \in [Requests -> Request]
      /\ \A s \in Requests : s # r => req'[s] = req[s]
      /\ req'[r].at = "commit"
      /\ req'[r].kind = req[r].kind
      /\ req'[r].trip = req[r].trip /\ req'[r].user = req[r].user
      /\ req'[r].count = req[r].count
      /\ req'[r].new = Written(NoRow, c, new)
      /\ req'[r].cols = c /\ req'[r].newCount = n
  BY <1>b, PendingType, SMTT(30)
<1> QED
  BY <1>1, <1>6, <1>7, <1>8 DEF q, row, un, m

(* Nothing is in flight at first.                                          *)
LEMMA SerialInit == Init => SerialInv
<1> SUFFICES ASSUME Init PROVE SerialInv
  OBVIOUS
<1>1. Idle.at = "idle" /\ NoRow.trip_status = "absent"
  BY DEF Idle, NoRow
<1>2. PhaseFieldsCleared
  BY DEF Init, PhaseFieldsCleared, NoRow
<1> QED
  BY <1>1, <1>2 DEF Init, SerialInv, CopyPart, RowPart, AgentWrites, Tracked

(* A step of a request never touches a trip of the agent, but for its      *)
(* timeline.                                                               *)
LEMMA CopyOutside ==
  ASSUME TypeInv, CopyPart, UNCHANGED pollVars,
         \A t \in todo : trip'[t].trip_status = trip[t].trip_status
  PROVE  CopyPart'
<1>1. ASSUME NEW t \in todo PROVE CopyCurrent(t)'
  BY <1>1 DEF CopyPart, CopyCurrent, Tracked, pollVars
<1> QED
  BY <1>1 DEF CopyPart, pollVars

(* The agent's copies stay current.                                        *)
LEMMA CopyPollStep ==
  ASSUME TypeInv, AgentWrites, CopyPart, PollStep
  PROVE  CopyPart'
<1>1. CASE TickLoad
  <2>1. /\ pc' = "next" /\ UNCHANGED trip
        /\ \A t \in todo' : /\ mem'[t] = Written(NoRow, PollColumns, trip[t])
                            /\ trip[t].trip_status \in MONITORABLE_STATUSES
    BY <1>1 DEF TickLoad, Monitored
  <2>2. ASSUME NEW t \in todo' PROVE CopyCurrent(t)'
    BY <2>1, <2>2, LoadedColumns, AheadPhases DEF CopyCurrent, Tracked
  <2> QED
    BY <2>1, <2>2 DEF CopyPart
<1>2. CASE AgentMoves
  <2>1. /\ pc # "commit" /\ pc' # "commit" /\ UNCHANGED <<trip, todo, mem>>
        /\ pc' = "sleep" => todo = {}
    BY <1>2 DEF AgentMoves
  <2>2. ASSUME NEW t \in todo PROVE CopyCurrent(t)'
    BY <2>1, <2>2 DEF CopyPart, CopyCurrent, Tracked
  <2> QED
    BY <2>1, <2>2 DEF CopyPart
<1>3. ASSUME NEW new \in Row, AgentAssigns(new) PROVE CopyPart'
  <2>1. /\ pc # "commit" /\ pc' = "commit" /\ cur \in todo
        /\ UNCHANGED <<trip, todo, cur>>
        /\ mem' = [mem EXCEPT ![cur] = new] /\ mem \in [Trips -> Row]
        /\ todo \subseteq Trips
    BY <1>3, CopyTypes DEF AgentAssigns, TypeInv, TypeOK
  <2>2. mem'[cur] = new /\ \A t \in todo : t # cur => mem'[t] = mem[t]
    BY <2>1
  <2>3. IF "trip_status" \in dirty'
        THEN new.trip_status \in Successors(mem[cur].trip_status)
        ELSE new.trip_status = mem[cur].trip_status
    BY <1>3 DEF AgentAssigns
  <2>4. ASSUME NEW t \in todo PROVE CopyCurrent(t)'
    <3>1. Tracked(t) /\ mem[t].trip_status = trip[t].trip_status
      BY <2>1 DEF CopyPart, CopyCurrent
    <3>2. Tracked(t)' /\ trip'[t].trip_status = trip[t].trip_status
      BY <2>1, <3>1 DEF Tracked
    <3>3. CASE t = cur
      BY <2>1, <2>2, <2>3, <3>1, <3>2, <3>3 DEF CopyCurrent
    <3>4. CASE t # cur
      BY <2>1, <2>2, <3>1, <3>2, <3>4 DEF CopyCurrent
    <3> QED
      BY <3>3, <3>4
  <2> QED
    BY <2>1, <2>4 DEF CopyPart
<1>4. CASE PollCommit
  <2>1. /\ cur \in Trips /\ cur \in todo
        /\ \A t \in Trips : t # cur => trip'[t] = trip[t]
        /\ "trip_status" \in dirty =>
             trip'[cur].trip_status = mem[cur].trip_status
        /\ "trip_status" \notin dirty =>
             trip'[cur].trip_status = trip[cur].trip_status
        /\ Tracked(cur) => Tracked(cur)'
    BY <1>4, AgentCommit
  <2>2. /\ pc = "commit" /\ pc' # "commit" /\ pc' # "sleep"
        /\ UNCHANGED <<cur, todo, mem>> /\ todo \subseteq Trips
    BY <1>4 DEF PollCommit, TypeInv, TypeOK, ControlOK
  <2>3. ASSUME NEW t \in todo PROVE CopyCurrent(t)'
    <3>1. CASE t = cur
      BY <2>1, <2>2, <3>1 DEF CopyPart, CopyCurrent
    <3>2. CASE t # cur
      BY <2>1, <2>2, <3>2 DEF CopyPart, CopyCurrent, Tracked
    <3> QED
      BY <3>1, <3>2
  <2> QED
    BY <2>2, <2>3 DEF CopyPart
<1>5. CASE FinishTrip
  <2>1. /\ pc = "done" /\ pc' = "next" /\ UNCHANGED trip
        /\ todo' \subseteq todo
        /\ \A t \in todo' : mem'[t] = mem[t]
    BY <1>5 DEF FinishTrip, TypeInv, TypeOK
  <2>2. ASSUME NEW t \in todo' PROVE CopyCurrent(t)'
    BY <2>1, <2>2 DEF CopyPart, CopyCurrent, Tracked
  <2> QED
    BY <2>1, <2>2 DEF CopyPart
<1>6. CASE TickAbort
  BY <1>6 DEF TickAbort, CopyPart
<1> QED
  BY <1>1, <1>2, <1>3, <1>4, <1>5, <1>6, AgentStep

(* Rows are only rewritten by commits: posts are clean, an untrack resets. *)
LEMMA RowKept ==
  ASSUME RowPart, NEW t \in Trips, trip'[t] = trip[t]
  PROVE  /\ Tracked(t)' => trip'[t].user_id \in Users
         /\ ~ Tracked(t)' => /\ ~ trip'[t].projected_timeline
                             /\ ~ trip'[t].time_to_go
                             /\ ~ trip'[t].feedback_requested
                             /\ trip'[t].push_count = 0
                             /\ trip'[t].sms_count = 0
  BY DEF RowPart, Tracked, PhaseFieldsCleared

(* With one slot, a step of a request is the only thing in flight.         *)
LEMMA OnlyRequest ==
  ASSUME OneAtATime, NEW r \in Requests,
         SettledOK(req[r])' \/ req'[r].at = "idle"
  PROVE  \A s \in Requests : (req[s].at # "idle" => SettledOK(req[s]))'
  BY DEF OneAtATime

(* A step of a request keeps what it has read true until it commits.       *)
LEMMA SerialRequestStep ==
  ASSUME OneAtATime, TypeInv, SerialInv, NEW r \in Requests, RequestStep(r)
  PROVE  /\ SettledOK(req[r])' \/ req'[r].at = "idle"
         /\ \A t \in todo : trip'[t].trip_status = trip[t].trip_status
         /\ RowPart'
<1>1. ASSUME NEW k \in {"track", "untrack", "update"}, NEW t \in Trips,
             NEW u \in Users, Authenticate(r, k, t, u)
      PROVE  SettledOK(req[r])' /\ UNCHANGED trip
  <2> DEFINE q == [Idle EXCEPT !.at = "user", !.kind = k, !.trip = t,
                               !.user = u, !.count = trip_count[u]]
  <2>1. /\ q.at = "user" /\ q.kind = k /\ q.user = u
        /\ q.count = trip_count[u]
    BY DEF Idle
  <2>2. /\ req' = [req EXCEPT ![r] = q] /\ req \in [Requests -> Request]
        /\ UNCHANGED <<trip, trip_count, pc>>
        /\ k = "untrack" => pc = "sleep"
    BY <1>1 DEF Authenticate, TypeInv, TypeOK, OneAtATime, pollVars
  <2> HIDE DEF q
  <2>3. req'[r] = q
    BY <2>2
  <2> QED
    BY <2>1, <2>2, <2>3 DEF SettledOK
<1>2. ASSUME req[r].at # "idle"
      PROVE  SettledOK(req[r]) /\ req[r] \in Request /\ req[r].user \in Users
  BY <1>2 DEF SerialInv, TypeInv, TypeOK, ControlOK
<1>3. ASSUME ReadTrack(r)
      PROVE  SettledOK(req[r])' /\ UNCHANGED trip
  BY <1>2, <1>3, ReadTrackWrites DEF SettledOK
<1>4. ASSUME ReadUntrack(r)
      PROVE  SettledOK(req[r])' /\ UNCHANGED trip
  BY <1>2, <1>4, ReadUntrackWrites DEF SettledOK, pollVars
<1>5. ASSUME ReadUpdate(r)
      PROVE  SettledOK(req[r])' /\ UNCHANGED trip
  BY <1>2, <1>5, ReadUpdateWrites DEF SettledOK, Tracked
<1>6. ASSUME Reject(r) \/ Fail(r)
      PROVE  req'[r].at = "idle" /\ UNCHANGED trip
  BY <1>6 DEF Reject, Fail, TypeInv, TypeOK, Idle
<1>7. ASSUME UNCHANGED trip
      PROVE  /\ \A t \in todo : trip'[t].trip_status = trip[t].trip_status
             /\ RowPart'
  BY <1>7 DEF SerialInv, RowPart, PhaseFieldsCleared, Tracked
<1>8. CASE Commit(r)
  <2>1. PICK q \in Request : q = req[r]
    BY DEF TypeInv, TypeOK
  <2> DEFINE w == Written(trip[q.trip], q.cols, q.new)
  <2>2. /\ q.at = "commit" /\ q.trip \in Trips /\ q.user \in Users
        /\ req'[r].at = "idle"
        /\ trip'[q.trip] = w
        /\ \A t \in Trips : t # q.trip => trip'[t] = trip[t]
        /\ w.user_id = IF "user_id" \in q.cols THEN q.new.user_id
                                               ELSE trip[q.trip].user_id
        /\ w.trip_status = IF "trip_status" \in q.cols
                           THEN q.new.trip_status
                           ELSE trip[q.trip].trip_status
    BY <1>8, <2>1, RequestCommit
  <2>3. SettledOK(q) /\ trip[q.trip] \in Row
    BY <1>2, <2>1, <2>2 DEF TypeInv, TypeOK
  <2>4. RowPart /\ CopyPart
    BY DEF SerialInv, RowPart, CopyPart
  <2>5. ASSUME NEW t \in Trips, t # q.trip
        PROVE  /\ Tracked(t)' => trip'[t].user_id \in Users
               /\ ~ Tracked(t)' => /\ ~ trip'[t].projected_timeline
                                   /\ ~ trip'[t].time_to_go
                                   /\ ~ trip'[t].feedback_requested
                                   /\ trip'[t].push_count = 0
                                   /\ trip'[t].sms_count = 0
    BY <2>2, <2>4, <2>5, RowKept
  <2>6. CASE q.kind = "track"
    <3>1. /\ w.trip_status = "active" /\ w.user_id = q.user
          /\ trip[q.trip].trip_status \in TRACKABLE_STATUSES
      BY <2>2, <2>3, <2>6 DEF SettledOK, ClaimOK, TrackAllowed
    <3>2. q.trip \notin todo
      BY <2>4, <3>1 DEF CopyPart, CopyCurrent, Tracked
    <3>3. Tracked(q.trip)' /\ trip'[q.trip].user_id \in Users
      BY <2>2, <3>1, AheadPhases DEF Tracked
    <3>4. RowPart'
      BY <2>5, <3>3 DEF RowPart, PhaseFieldsCleared
    <3> QED
      BY <2>2, <3>2, <3>4 DEF TypeInv, TypeOK
  <2>7. CASE q.kind = "untrack"
    <3>1. w = UntrackedRow(trip[q.trip]) /\ pc = "sleep"
      BY <2>2, <2>3, <2>7 DEF SettledOK
    <3>2. /\ w.trip_status = "draft" /\ ~ w.projected_timeline
          /\ ~ w.time_to_go /\ ~ w.feedback_requested
          /\ w.push_count = 0 /\ w.sms_count = 0
      BY <2>3, <3>1 DEF UntrackedRow, Row
    <3>3. todo = {}
      BY <2>4, <3>1 DEF CopyPart
    <3>4. ~ Tracked(q.trip)'
      BY <2>2, <3>2, AheadPhases DEF Tracked
    <3>5. RowPart'
      BY <2>2, <2>5, <3>2, <3>4 DEF RowPart, PhaseFieldsCleared
    <3> QED
      BY <2>2, <3>3, <3>5
  <2>8. CASE q.kind = "update"
    <3>1. q.cols \subseteq {"projected_timeline"}
          /\ (q.cols = {} \/ Tracked(q.trip))
      BY <2>2, <2>3, <2>8 DEF SettledOK
    <3>2. /\ w.user_id = trip[q.trip].user_id
          /\ w.trip_status = trip[q.trip].trip_status
      BY <2>2, <3>1
    <3>3. CASE Tracked(q.trip)
      <4>1. Tracked(q.trip)' /\ trip'[q.trip].user_id \in Users
        BY <2>2, <2>4, <3>2, <3>3 DEF Tracked, RowPart
      <4>2. RowPart'
        BY <2>5, <4>1 DEF RowPart, PhaseFieldsCleared
      <4> QED
        BY <2>2, <3>2, <4>2 DEF TypeInv, TypeOK
    <3>4. CASE q.cols = {}
      <4>1. w = trip[q.trip]
        BY <2>3, <3>4 DEF Written, Row
      <4>2. RowPart'
        BY <2>2, <2>4, <2>5, <4>1, RowKept DEF RowPart, PhaseFieldsCleared
      <4> QED
        BY <2>2, <3>2, <4>2 DEF TypeInv, TypeOK
    <3> QED
      BY <3>1, <3>3, <3>4
  <2> QED
    BY <2>3, <2>6, <2>7, <2>8 DEF SettledOK
<1> QED
  BY <1>1, <1>3, <1>4, <1>5, <1>6, <1>7, <1>8 DEF RequestStep

(* A new row is not tracked, and no trip of the tick is new.               *)
LEMMA SerialPost ==
  ASSUME TypeInv, SerialInv, NEW t \in Trips, PostTrip(t)
  PROVE  /\ \A s \in Trips : s # t => trip'[s] = trip[s]
         /\ trip[t].trip_status = "absent"
         /\ trip'[t].trip_status = "created"
         /\ trip'[t].user_id \in Users \union {NoUser}
         /\ trip_count' = trip_count
         /\ SerialInv'
<1>1. PICK u \in Users \union {NoUser} :
        trip[t] = NoRow /\ trip' = [trip EXCEPT ![t] = IntakeRow(u)]
  BY DEF PostTrip
<1>2. UNCHANGED <<trip_count, req, pollVars>> /\ trip \in [Trips -> Row]
  BY DEF PostTrip, TypeInv, TypeOK
<1>3. /\ IntakeRow(u).trip_status = "created" /\ IntakeRow(u).user_id = u
      /\ ~ IntakeRow(u).projected_timeline /\ ~ IntakeRow(u).time_to_go
      /\ ~ IntakeRow(u).feedback_requested
      /\ IntakeRow(u).push_count = 0 /\ IntakeRow(u).sms_count = 0
      /\ NoRow.trip_status = "absent"
  BY DEF IntakeRow, NoRow
<1>4. /\ trip'[t] = IntakeRow(u)
      /\ \A s \in Trips : s # t => trip'[s] = trip[s]
  BY <1>1, <1>2
<1>5. \A s \in Trips : Tracked(s) => s # t
  BY <1>1, <1>3 DEF Tracked
<1>6. ~ Tracked(t)'
  BY <1>3, <1>4, AheadPhases DEF Tracked
<1>7. RowPart'
  BY <1>3, <1>4, <1>6, RowKept DEF SerialInv, RowPart, PhaseFieldsCleared
<1>8. CopyPart'
  <2>1. todo \subseteq Trips
    BY DEF TypeInv, TypeOK
  <2> QED
    BY <1>2, <1>4, <1>5, <2>1, CopyOutside
    DEF SerialInv, CopyPart, CopyCurrent
<1>9. ASSUME NEW r \in Requests, req[r].at # "idle" PROVE SettledOK(req[r])'
  <2>1. SettledOK(req[r]) /\ req[r].trip \in Trips
    BY <1>9 DEF SerialInv, TypeInv, ControlOK
  <2>2. CASE req[r].trip = t
    <3>1. ~ TrackAllowed(trip[t], req[r].user)
          /\ ~ UntrackAllowed(trip[t], req[r].user) /\ ~ Tracked(t)
      BY <1>1, <1>3 DEF TrackAllowed, UntrackAllowed, Tracked,
                        TRACKABLE_STATUSES, UNTRACKABLE_STATUSES
    <3> QED
      BY <1>2, <2>1, <2>2, <3>1 DEF SettledOK, pollVars
  <2>3. CASE req[r].trip # t
    BY <1>2, <1>4, <2>1, <2>3 DEF SettledOK, Tracked, pollVars
  <2> QED
    BY <2>2, <2>3
<1>10. AgentWrites'
  BY AgentWritesStep DEF Next, SerialInv
<1> QED
  BY <1>1, <1>2, <1>3, <1>4, <1>7, <1>8, <1>9, <1>10 DEF SerialInv

(* A step of the agent only moves a trip of its tick on, to a successor of *)
(* the phase of the row.                                                   *)
LEMMA SerialPollStep ==
  ASSUME TypeInv, SerialInv, PollStep
  PROVE  /\ \A t \in Trips : trip'[t].user_id = trip[t].user_id
         /\ \A t \in Trips :
              \/ trip'[t].trip_status = trip[t].trip_status
              \/ /\ t = cur
                 /\ trip'[t].trip_status \in Successors(trip[t].trip_status)
                 /\ \A s \in Trips : s # t => trip'[s] = trip[s]
         /\ \A t \in Trips : Tracked(t) => Tracked(t)'
         /\ \A t \in Trips : ~ Tracked(t) => trip'[t] = trip[t]
         /\ UNCHANGED <<trip_count, req>>
<1>1. UNCHANGED <<trip_count, req>>
  BY AgentStep DEF TickLoad, PollCommit, FinishTrip, TickAbort, AgentMoves,
                   AgentAssigns
<1>2. UNCHANGED trip \/ PollCommit
  BY AgentStep DEF TickLoad, FinishTrip, TickAbort, AgentMoves, AgentAssigns
<1>3. CASE UNCHANGED trip
  BY <1>1, <1>3 DEF Tracked
<1>4. CASE PollCommit
  <2>1. /\ cur \in Trips /\ cur \in todo
        /\ \A t \in Trips : t # cur => trip'[t] = trip[t]
        /\ trip'[cur].user_id = trip[cur].user_id
        /\ "trip_status" \in dirty =>
             trip'[cur].trip_status = mem[cur].trip_status
        /\ "trip_status" \notin dirty =>
             trip'[cur].trip_status = trip[cur].trip_status
        /\ Tracked(cur) => Tracked(cur)' /\ cur' = cur /\ pc = "commit"
    BY <1>4, AgentCommit DEF SerialInv, PollCommit
  <2>2. CopyCurrent(cur)
    BY <2>1 DEF SerialInv, CopyPart
  <2>3. \/ trip'[cur].trip_status = trip[cur].trip_status
        \/ trip'[cur].trip_status \in Successors(trip[cur].trip_status)
    BY <2>1, <2>2 DEF CopyCurrent
  <2>4. Tracked(cur) /\ Tracked(cur)'
    BY <2>1, <2>2 DEF CopyCurrent
  <2>5. \A t \in Trips : Tracked(t) => Tracked(t)'
    BY <2>1, <2>4 DEF Tracked
  <2> QED
    BY <1>1, <2>1, <2>3, <2>4, <2>5
<1> QED
  BY <1>2, <1>3, <1>4

(* Nothing that a request has read moves before it commits.                *)
LEMMA SerialStep ==
  ASSUME OneAtATime, TypeInv, SerialInv, [Next]_vars
  PROVE  SerialInv'
<1>1. AgentWrites'
  BY AgentWritesStep DEF SerialInv
<1>2. CASE UNCHANGED vars
  <2>1. UNCHANGED <<trip, trip_count, req, pc, cur, todo, mem, dirty>>
    BY <1>2 DEF vars, pollVars
  <2>2. CopyPart' /\ RowPart'
    BY <2>1
    DEF SerialInv, CopyPart, CopyCurrent, RowPart, PhaseFieldsCleared, Tracked
  <2>3. \A r \in Requests : (req[r].at # "idle" => SettledOK(req[r]))'
    BY <2>1 DEF SerialInv, SettledOK, Tracked
  <2> QED
    BY <1>1, <2>2, <2>3 DEF SerialInv
<1>3. ASSUME NEW r \in Requests, RequestStep(r) PROVE SerialInv'
  <2>1. /\ SettledOK(req[r])' \/ req'[r].at = "idle"
        /\ \A t \in todo : trip'[t].trip_status = trip[t].trip_status
        /\ RowPart'
    BY <1>3, SerialRequestStep
  <2>2. CopyPart'
    BY <1>3, <2>1, OutsideAgent, CopyOutside DEF SerialInv
  <2>3. \A s \in Requests : (req[s].at # "idle" => SettledOK(req[s]))'
    BY <2>1, OnlyRequest
  <2> QED
    BY <1>1, <2>1, <2>2, <2>3 DEF SerialInv
<1>4. CASE PollStep
  <2>1. /\ \A t \in Trips : trip'[t].user_id = trip[t].user_id
        /\ \A t \in Trips : Tracked(t) => Tracked(t)'
        /\ \A t \in Trips : ~ Tracked(t) => trip'[t] = trip[t]
        /\ \A t \in Trips :
             \/ trip'[t].trip_status = trip[t].trip_status
             \/ t = cur
        /\ UNCHANGED <<trip_count, req>>
    BY <1>4, SerialPollStep
  <2>2. CopyPart'
    BY <1>4, CopyPollStep DEF SerialInv
  <2>3. RowPart'
    BY <2>1, RowKept DEF SerialInv, RowPart, PhaseFieldsCleared
  <2>4. ASSUME NEW r \in Requests, req[r].at # "idle" PROVE SettledOK(req[r])'
    <3>1. SettledOK(req[r]) /\ req[r].trip \in Trips
      BY <2>4 DEF SerialInv, TypeInv, ControlOK
    <3>2. req[r].kind = "untrack" => pc = "sleep" /\ UNCHANGED <<trip, pc>>
      <4> SUFFICES ASSUME req[r].kind = "untrack"
                   PROVE  pc = "sleep" /\ UNCHANGED <<trip, pc>>
        OBVIOUS
      <4>1. pc = "sleep" /\ Untracking /\ Serial
        BY <3>1 DEF SettledOK, Untracking, OneAtATime
      <4>2. FALSE
        BY <1>4, <4>1 DEF PollStep, TickLoad, PickTrip, FinishTrip, TickEnd,
             TickAbort, Push, NoPush, PushKinds, Advance, StayInPhase,
             MarkFeedback, Recompute, RecomputeFails, MarkTimeToGo, SendSms,
             NoSms, PollCommit
      <4> QED
        BY <4>2
    <3>3. TrackAllowed(trip[req[r].trip], req[r].user) =>
            trip'[req[r].trip] = trip[req[r].trip]
      BY <2>1, <3>1 DEF TrackAllowed, Tracked
    <3> QED
      BY <2>1, <3>1, <3>2, <3>3 DEF SettledOK
  <2> QED
    BY <1>1, <2>1, <2>2, <2>3, <2>4 DEF SerialInv
<1> QED
  BY <1>2, <1>3, <1>4, SerialPost DEF Next

(* Without overlapping requests, a trip that is not tracked has the phase  *)
(* fields of a new one: no plan, no marks, no push or SMS counted          *)
(* (untrack_trip, trips.py:332-342).  The columns of the recommendation    *)
(* and of the flight, which untrack_trip keeps, are not among them.        *)
THEOREM PhaseFieldsAreCleared ==
  ASSUME OneAtATime
  PROVE  Spec => []PhaseFieldsCleared
<1>1. SerialInv => PhaseFieldsCleared
  BY DEF SerialInv, RowPart
<1>2. TypeInv /\ SerialInv /\ [Next]_vars => SerialInv'
  BY SerialStep
<1> QED
  BY <1>1, <1>2, TypeInit, TypeStep, SerialInit, PTL DEF Spec

-----------------------------------------------------------------------------
(* The handlers implement the ledger.                                      *)

(* The ledger's books, with the theorems about them.                       *)
Books == INSTANCE TripLedger_proofs WITH
  phase   <- [t \in Trips |-> trip[t].trip_status],
  owner   <- [t \in Trips |-> trip[t].user_id],
  charged <- trip_count

(* The phases and owners the ledger sees.                                  *)
Phases == [t \in Trips |-> trip[t].trip_status]
Owners == [t \in Trips |-> trip[t].user_id]

LEMMA LedgerSets ==
  /\ Ledger!TRACKABLE_STATUSES = TRACKABLE_STATUSES
  /\ Ledger!UNTRACKABLE_STATUSES = UNTRACKABLE_STATUSES
  /\ Ledger!MONITORABLE_STATUSES = MONITORABLE_STATUSES
  /\ \A s : Ledger!Successors(s) = Successors(s)
  /\ \A s : Successors(s) # {} => s \in MONITORABLE_STATUSES
  BY DEF Ledger!TRACKABLE_STATUSES, TRACKABLE_STATUSES,
         Ledger!UNTRACKABLE_STATUSES, UNTRACKABLE_STATUSES,
         Ledger!MONITORABLE_STATUSES, MONITORABLE_STATUSES,
         Ledger!Successors, Successors

(* The first state of the program is the ledger's.                         *)
LEMMA LedgerStart == Init => Ledger!LedgerInit
  BY DEF Init, Ledger!LedgerInit, NoRow

(* A step that leaves phases, owners and charges alone is a stutter.       *)
LEMMA LedgerStutter ==
  ASSUME \A t \in Trips : /\ trip'[t].trip_status = trip[t].trip_status
                          /\ trip'[t].user_id = trip[t].user_id,
         UNCHANGED trip_count
  PROVE  UNCHANGED Ledger!ledgerVars
  BY DEF Ledger!ledgerVars

(* What a step does to one trip and one user, in the ledger's functions.   *)
LEMMA LedgerWrite ==
  ASSUME NEW t \in Trips,
         \A s \in Trips : s # t =>
           /\ trip'[s].trip_status = trip[s].trip_status
           /\ trip'[s].user_id = trip[s].user_id
  PROVE  /\ Phases' = [Phases EXCEPT ![t] = trip'[t].trip_status]
         /\ Owners' = [Owners EXCEPT ![t] = trip'[t].user_id]
         /\ Phases[t] = trip[t].trip_status /\ Owners[t] = trip[t].user_id
  BY DEF Phases, Owners

(* Every step of the program is a step of the ledger or changes nothing    *)
(* the ledger sees.                                                        *)
LEMMA LedgerSimulates ==
  ASSUME OneAtATime, TypeInv, SerialInv, [Next]_vars
  PROVE  [Ledger!LedgerNext]_Ledger!ledgerVars
<1>1. CASE UNCHANGED <<trip, trip_count>>
  BY <1>1, LedgerStutter
<1>2. ASSUME NEW t \in Trips, PostTrip(t) PROVE Ledger!Post(t)
  <2>1. /\ \A s \in Trips : s # t => trip'[s] = trip[s]
        /\ trip[t].trip_status = "absent"
        /\ trip'[t].trip_status = "created"
        /\ trip'[t].user_id \in Users \union {NoUser}
        /\ trip_count' = trip_count
    BY <1>2, SerialPost
  <2>2. /\ Phases' = [Phases EXCEPT ![t] = trip'[t].trip_status]
        /\ Owners' = [Owners EXCEPT ![t] = trip'[t].user_id]
        /\ Phases[t] = trip[t].trip_status
    BY <2>1, LedgerWrite
  <2> QED
    BY <2>1, <2>2 DEF Ledger!Post, Phases, Owners
<1>3. CASE PollStep
  <2>1. /\ \A t \in Trips : trip'[t].user_id = trip[t].user_id
        /\ UNCHANGED trip_count
    BY <1>3, SerialPollStep
  <2>2. CASE \A t \in Trips : trip'[t].trip_status = trip[t].trip_status
    BY <2>1, <2>2, LedgerStutter
  <2>3. ASSUME NEW t \in Trips, trip'[t].trip_status # trip[t].trip_status
        PROVE  Ledger!Advance(t)
    <3>1. /\ trip'[t].trip_status \in Successors(trip[t].trip_status)
          /\ \A s \in Trips : s # t => trip'[s] = trip[s]
      BY <1>3, <2>3, SerialPollStep
    <3>2. /\ Phases' = [Phases EXCEPT ![t] = trip'[t].trip_status]
          /\ Owners' = Owners
          /\ Phases[t] = trip[t].trip_status
      BY <2>1, <3>1, LedgerWrite, ZenonT(30) DEF Owners
    <3>3. trip[t].trip_status \in MONITORABLE_STATUSES
      BY <3>1, LedgerSets
    <3> QED
      BY <2>1, <3>1, <3>2, <3>3, LedgerSets DEF Ledger!Advance, Phases, Owners
  <2> QED
    BY <2>2, <2>3 DEF Ledger!LedgerNext
<1>4. ASSUME NEW r \in Requests, Commit(r)
      PROVE  [Ledger!LedgerNext]_Ledger!ledgerVars
  <2>1. PICK q \in Request : q = req[r]
    BY DEF TypeInv, TypeOK
  <2> DEFINE w == Written(trip[q.trip], q.cols, q.new)
             t == q.trip
             u == q.user
  <2>2. /\ q.at = "commit" /\ t \in Trips /\ u \in Users
        /\ trip'[t] = w
        /\ \A s \in Trips : s # t => trip'[s] = trip[s]
        /\ w.user_id = IF "user_id" \in q.cols THEN q.new.user_id
                                               ELSE trip[t].user_id
        /\ w.trip_status = IF "trip_status" \in q.cols
                           THEN q.new.trip_status
                           ELSE trip[t].trip_status
        /\ \A v \in Users : trip_count'[v] =
             IF v = u /\ q.newCount # q.count THEN q.newCount
                                              ELSE trip_count[v]
    BY <1>4, <2>1, RequestCommit
  <2>3. /\ SettledOK(q) /\ q.count \in Nat /\ q.count = trip_count[u]
        /\ trip[t] \in Row
    BY <2>1, <2>2 DEF SerialInv, SettledOK, TypeInv, TypeOK, Request
  <2>4. /\ trip_count \in [Users -> Nat] /\ trip_count' \in [Users -> Nat]
    BY <1>4, TypeStep DEF TypeInv, TypeOK, Next, RequestStep
  <2> HIDE DEF w, t, u
  <2>5. /\ Phases' = [Phases EXCEPT ![t] = w.trip_status]
        /\ Owners' = [Owners EXCEPT ![t] = w.user_id]
        /\ Phases[t] = trip[t].trip_status /\ Owners[t] = trip[t].user_id
    BY <2>2, LedgerWrite
  <2>6. trip_count' = [trip_count EXCEPT ![u] = q.newCount]
    BY <2>2, <2>3, <2>4
  <2>7. CASE q.kind = "track"
    <3>1. /\ w.trip_status = "active" /\ w.user_id = u
          /\ trip[t].trip_status \in TRACKABLE_STATUSES
          /\ trip[t].user_id \in {u, NoUser}
          /\ q.newCount = q.count + 1
      BY <2>2, <2>3, <2>7 DEF SettledOK, ClaimOK, TrackAllowed, t, u
    <3>2. trip_count' = [trip_count EXCEPT ![u] = @ + 1]
      BY <2>3, <2>6, <3>1
    <3>3. Ledger!Track(t, u)
      BY <2>5, <3>1, <3>2, LedgerSets DEF Ledger!Track, Phases, Owners
    <3> QED
      BY <2>2, <3>3 DEF Ledger!LedgerNext
  <2>8. CASE q.kind = "untrack"
    <3>1. /\ w = UntrackedRow(trip[t])
          /\ trip[t].trip_status \in UNTRACKABLE_STATUSES
          /\ trip[t].user_id \in {u, NoUser}
          /\ q.newCount = IF q.count > 0 THEN q.count - 1 ELSE 0
      BY <2>2, <2>3, <2>8 DEF SettledOK, UntrackAllowed, t, u, w
    <3>2. w.trip_status = "draft" /\ w.user_id = trip[t].user_id
      BY <2>3, <3>1 DEF UntrackedRow, Row
    <3>3. trip[t].user_id = u
      <4>1. Tracked(t) /\ NoUser \notin Users
        BY <3>1, AheadPhases, LifecycleAssumption
        DEF Tracked, LifecycleAssumption
      <4> QED
        BY <2>2, <3>1, <4>1 DEF SerialInv, RowPart
    <3>4. Owners' = Owners
      BY <2>5, <3>2 DEF Owners
    <3>5. trip_count' = [trip_count EXCEPT ![u] = IF @ > 0 THEN @ - 1 ELSE 0]
      BY <2>3, <2>6, <3>1
    <3>6. Ledger!Untrack(t, u)
      BY <2>5, <3>1, <3>2, <3>3, <3>4, <3>5, LedgerSets
      DEF Ledger!Untrack, Phases, Owners
    <3> QED
      BY <2>2, <3>6 DEF Ledger!LedgerNext
  <2>9. CASE q.kind = "update"
    <3>1. q.cols \subseteq {"projected_timeline"} /\ q.newCount = q.count
      BY <2>2, <2>3, <2>9 DEF SettledOK
    <3>2. /\ w.user_id = trip[t].user_id
          /\ w.trip_status = trip[t].trip_status
      BY <2>2, <3>1
    <3>3. trip_count' = trip_count
      BY <2>3, <2>4, <2>6, <3>1
    <3> QED
      BY <2>2, <3>2, <3>3, LedgerStutter
  <2> QED
    BY <2>3, <2>7, <2>8, <2>9 DEF SettledOK
<1>5. ASSUME NEW r \in Requests, RequestStep(r)
      PROVE  UNCHANGED <<trip, trip_count>> \/ Commit(r)
  BY <1>5 DEF RequestStep, Authenticate, ReadTrack, ReadUntrack, ReadUpdate,
              Reject, Fail
<1>6. CASE UNCHANGED vars
  BY <1>1, <1>6 DEF vars
<1> QED
  BY <1>1, <1>2, <1>3, <1>4, <1>5, <1>6 DEF Next, Ledger!LedgerNext

(* One request at a time, and no untrack during a tick: each commit of a   *)
(* handler or of the agent is the one-step handler of the ledger.          *)
THEOREM LifecycleImplementsLedger ==
  ASSUME OneAtATime
  PROVE  Spec => ImplementsLedger
<1>1. TypeInv /\ SerialInv /\ [Next]_vars => SerialInv'
  BY SerialStep
<1>2. TypeInv /\ SerialInv /\ [Next]_vars
        => [Ledger!LedgerNext]_Ledger!ledgerVars
  BY LedgerSimulates
<1> QED
  BY <1>1, <1>2, TypeInit, TypeStep, SerialInit, LedgerStart, PTL
  DEF Spec, ImplementsLedger, Ledger!LedgerSpec

(* So a user's trip_count is the number of their tracked trips: what       *)
(* track_trip charges once untrack_trip refunds, and the floor of the      *)
(* refund (trips.py:345) is never needed.                                  *)
THEOREM TripCountIsExact ==
  ASSUME OneAtATime
  PROVE  Spec => []TripCountExact
<1>1. Books!LedgerAssumption
  BY LifecycleAssumption
  DEF LifecycleAssumption, Books!LedgerAssumption, Books!IsFiniteSet,
      IsFiniteSet
<1>2. Ledger!LedgerInit => Books!LedgerInit
  BY DEF Ledger!LedgerInit, Books!LedgerInit
<1>3. [Ledger!LedgerNext]_Ledger!ledgerVars
        => [Books!LedgerNext]_Books!ledgerVars
  BY DEF Ledger!LedgerNext, Ledger!ledgerVars,
     Books!LedgerNext, Books!ledgerVars,
     Ledger!Post, Books!Post, Ledger!Track, Books!Track, Ledger!Untrack,
     Books!Untrack, Ledger!Advance, Books!Advance,
     Ledger!TRACKABLE_STATUSES, Books!TRACKABLE_STATUSES,
     Ledger!UNTRACKABLE_STATUSES, Books!UNTRACKABLE_STATUSES,
     Ledger!MONITORABLE_STATUSES, Books!MONITORABLE_STATUSES,
     Ledger!Successors, Books!Successors
<1>4. Books!CountExact => TripCountExact
  BY DEF Books!CountExact, TripCountExact, Ledger!CountExact,
     Books!TrackedBy, Ledger!TrackedBy, Books!Untracked, Ledger!Untracked,
     Books!Cardinality, Ledger!Cardinality,
     Books!TRACKABLE_STATUSES, Ledger!TRACKABLE_STATUSES
<1>5. Books!LedgerSpec => []Books!CountExact
  BY <1>1, Books!LedgerCountExact
<1> QED
  BY <1>2, <1>3, <1>4, <1>5, LifecycleImplementsLedger, PTL
  DEF ImplementsLedger, Ledger!LedgerSpec, Books!LedgerSpec
=============================================================================
