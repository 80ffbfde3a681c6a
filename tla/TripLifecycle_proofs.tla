------------------------ MODULE TripLifecycle_proofs ------------------------
(***************************************************************************)
(* Safety of the trip lifecycle for any trips, users, requests and limits. *)
(***************************************************************************)
EXTENDS TripLifecycle, TLAPS

-----------------------------------------------------------------------------
(* Rows and writes.                                                        *)

(* The sets of statuses the handlers and the agent test.                   *)
LEMMA StatusSets ==
  /\ MONITORABLE_STATUSES \subseteq Statuses
  /\ TRACKABLE_STATUSES \subseteq Statuses
  /\ \A s : Successors(s) \subseteq Statuses
  /\ "draft" \in Statuses /\ "created" \in Statuses /\ "active" \in Statuses
  BY DEF MONITORABLE_STATUSES, TRACKABLE_STATUSES, Statuses, Successors

(* The absent row is a row.                                                *)
LEMMA NoRowType == NoRow \in Row
  BY DEF NoRow, Row

(* So is what the intake inserts.                                          *)
LEMMA IntakeRowType ==
  ASSUME NEW u \in Users \union {NoUser}
  PROVE  IntakeRow(u) \in Row
  BY StatusSets DEF IntakeRow, NoRow, Row

(* A write keeps the type of the row and mixes the two rows by columns.    *)
LEMMA WrittenType ==
  ASSUME NEW row \in Row, NEW new \in Row, NEW cols
  PROVE  Written(row, cols, new) \in Row
  BY DEF Written, Row

(* An update names columns of the table.                                   *)
LEMMA ChangedType ==
  ASSUME NEW old, NEW new
  PROVE  Changed(old, new) \in SUBSET Columns
  BY DEF Changed

-----------------------------------------------------------------------------
(* Types and control.                                                      *)

(* A request past its start is about a trip and a user; the agent works on *)
(* a trip it has loaded; a commit has somewhere to go on.                  *)
ControlOK ==
  /\ \A r \in Requests : req[r].at # "idle" =>
       req[r].trip \in Trips /\ req[r].user \in Users
  /\ pc \notin {"sleep", "next"} => cur \in todo
  /\ pc = "commit" => then \in PollPoints \ {"sleep", "next", "commit"}

TypeInv == TypeOK /\ ControlOK

(* The slot of no request.                                                 *)
LEMMA IdleType == Idle \in Request
  BY NoRowType DEF Idle, Request

(* The types hold before the first request and tick.                       *)
LEMMA TypeInit == Init => TypeInv
<1> SUFFICES ASSUME Init PROVE TypeInv
  OBVIOUS
<1>1. TypeOK
  BY NoRowType, IdleType, LifecycleAssumption DEF Init, TypeOK, PollPoints
<1>2. ControlOK
  BY DEF Init, ControlOK, Idle
<1> QED
  BY <1>1, <1>2 DEF TypeInv

(* What Pending does to the requests.                                      *)
LEMMA PendingType ==
  ASSUME TypeInv, NEW r \in Requests, req[r].at # "idle",
         NEW new \in Row, NEW cols \in SUBSET Columns, NEW n \in Nat,
         NEW l \in BOOLEAN, Pending(r, new, cols, n, l)
  PROVE  /\ req' \in [Requests -> Request]
         /\ \A s \in Requests : s # r => req'[s] = req[s]
         /\ req'[r].at = "commit"
         /\ req'[r].kind = req[r].kind
         /\ req'[r].trip = req[r].trip /\ req'[r].user = req[r].user
         /\ req'[r].count = req[r].count
         /\ req'[r].new = Written(NoRow, cols, new)
         /\ req'[r].cols = cols /\ req'[r].newCount = n
<1>1. req \in [Requests -> Request] /\ req[r] \in Request
  BY DEF TypeInv, TypeOK
<1>2. Written(NoRow, cols, new) \in Row
  BY NoRowType, WrittenType
<1>3. [req[r] EXCEPT !.at = "commit", !.new = Written(NoRow, cols, new),
                     !.cols = cols, !.newCount = n, !.locked = l] \in Request
  BY <1>1, <1>2 DEF Request
<1> QED
  BY <1>1, <1>3 DEF Pending, Request

-----------------------------------------------------------------------------
(* What the steps write.                                                   *)

(* A row of the table: fresh from the intake, or with equal columns.       *)
DualRow(row) ==
  \/ row.status = row.trip_status /\ row.trip_status # "created"
  \/ row.status = "draft" /\ row.trip_status = "created"

(* The columns that differ after each assignment of a handler or of the    *)
(* agent.                                                                  *)
LEMMA ChangedByAgent ==
  ASSUME NEW row \in Row
  PROVE  /\ Changed(row, [row EXCEPT !.push_count = @ + 1]) = {"push_count"}
         /\ Changed(row, [row EXCEPT !.sms_count = @ + 1]) = {"sms_count"}
         /\ Changed(row, [row EXCEPT !.time_to_go = TRUE])
              \subseteq {"time_to_go"}
         /\ Changed(row, [row EXCEPT !.feedback_requested = TRUE])
              \subseteq {"feedback_requested"}
         /\ ~ row.feedback_requested =>
              Changed(row, [row EXCEPT !.feedback_requested = TRUE])
                = {"feedback_requested"}
<1>1. row.push_count \in Nat /\ row.sms_count \in Nat
  BY DEF Row
<1>2. Changed(row, [row EXCEPT !.push_count = @ + 1]) = {"push_count"}
  BY <1>1 DEF Changed, Columns, Row
<1>3. Changed(row, [row EXCEPT !.sms_count = @ + 1]) = {"sms_count"}
  BY <1>1 DEF Changed, Columns, Row
<1>4. Changed(row, [row EXCEPT !.time_to_go = TRUE]) \subseteq {"time_to_go"}
  BY DEF Changed, Columns, Row
<1>5. Changed(row, [row EXCEPT !.feedback_requested = TRUE])
        \subseteq {"feedback_requested"}
  BY DEF Changed, Columns, Row
<1>6. ~ row.feedback_requested =>
        Changed(row, [row EXCEPT !.feedback_requested = TRUE])
          = {"feedback_requested"}
  BY DEF Changed, Columns, Row
<1> QED
  BY <1>2, <1>3, <1>4, <1>5, <1>6

(* Advancing changes both status columns and no other.                     *)
LEMMA ChangedByAdvance ==
  ASSUME NEW row \in Row, NEW s \in Statuses,
         row.status = row.trip_status, s # row.trip_status
  PROVE  Changed(row, [row EXCEPT !.status = s, !.trip_status = s])
           = {"status", "trip_status"}
<1> DEFINE new == [row EXCEPT !.status = s, !.trip_status = s]
<1>1. /\ new.status = s /\ new.trip_status = s
      /\ new.user_id = row.user_id
      /\ new.projected_timeline = row.projected_timeline
      /\ new.push_count = row.push_count /\ new.time_to_go = row.time_to_go
      /\ new.sms_count = row.sms_count
      /\ new.feedback_requested = row.feedback_requested
  BY DEF Row
<1> HIDE DEF new
<1>2. Changed(row, new) = {"status", "trip_status"}
  BY <1>1 DEF Changed, Columns
<1> QED
  BY <1>2 DEF new

(* What track and untrack change, of the columns that matter below.        *)
LEMMA ChangedByHandlers ==
  ASSUME NEW row \in Row, NEW u \in Users, DualRow(row)
  PROVE  /\ row.trip_status \in TRACKABLE_STATUSES =>
              /\ Changed(row, TrackedRow(row, u))
                   \subseteq {"status", "trip_status", "user_id"}
              /\ {"status", "trip_status"} \subseteq
                   Changed(row, TrackedRow(row, u))
         /\ row.trip_status \in UNTRACKABLE_STATUSES =>
              {"status", "trip_status"} \subseteq Changed(row, UntrackedRow(row))
<1> DEFINE tr == TrackedRow(row, u)
           un == UntrackedRow(row)
<1>1. /\ tr.status = "active" /\ tr.trip_status = "active"
      /\ tr.projected_timeline = row.projected_timeline
      /\ tr.push_count = row.push_count /\ tr.time_to_go = row.time_to_go
      /\ tr.sms_count = row.sms_count
      /\ tr.feedback_requested = row.feedback_requested
  BY DEF Row, TrackedRow
<1>2. un.status = "draft" /\ un.trip_status = "draft"
  BY DEF Row, UntrackedRow
<1> HIDE DEF tr, un
<1>3. ASSUME row.trip_status \in TRACKABLE_STATUSES
      PROVE  /\ Changed(row, tr) \subseteq {"status", "trip_status", "user_id"}
             /\ {"status", "trip_status"} \subseteq Changed(row, tr)
  BY <1>1, <1>3 DEF Changed, Columns, TRACKABLE_STATUSES, DualRow
<1>4. ASSUME row.trip_status \in UNTRACKABLE_STATUSES
      PROVE  {"status", "trip_status"} \subseteq Changed(row, un)
  BY <1>2, <1>4 DEF Changed, Columns, UNTRACKABLE_STATUSES, DualRow
<1> QED
  BY <1>3, <1>4 DEF tr, un

Both(cols) == "status" \in cols <=> "trip_status" \in cols

Counters == {"push_count", "sms_count", "time_to_go", "feedback_requested"}

(* A pending write of a handler: both status columns or neither, and only  *)
(* an untrack touches what the agent counts.                               *)
WriteOK(kind, new, cols) ==
  /\ Both(cols)
  /\ "status" \in cols => /\ new.status = new.trip_status
                          /\ new.status \in {"active", "draft"}
  /\ kind # "untrack" => cols \intersect Counters = {}

PendingOK(q) == WriteOK(q.kind, q.new, q.cols)

(* The rows the handlers assign are rows.                                  *)
LEMMA HandlerRowTypes ==
  ASSUME NEW row \in Row, NEW u \in Users
  PROVE  /\ TrackedRow(row, u) \in Row
         /\ [TrackedRow(row, u) EXCEPT !.projected_timeline = TRUE] \in Row
         /\ UntrackedRow(row) \in Row
         /\ [row EXCEPT !.projected_timeline = TRUE] \in Row
<1>1. TrackedRow(row, u) \in Row
  BY StatusSets DEF TrackedRow, Row
<1>2. UntrackedRow(row) \in Row
  BY StatusSets DEF UntrackedRow, Row
<1>3. ASSUME NEW x \in Row PROVE [x EXCEPT !.projected_timeline = TRUE] \in Row
  BY DEF Row
<1> QED
  BY <1>1, <1>2, <1>3

(* A handler that has read its row is a pending write of typed values, and *)
(* the write it should be if the row it read is dual.                      *)
LEMMA ReadSteps ==
  ASSUME TypeInv, NEW r \in Requests,
         ReadTrack(r) \/ ReadUntrack(r) \/ ReadUpdate(r)
  PROVE  \E new \in Row, cols \in SUBSET Columns, n \in Nat, l \in BOOLEAN :
           /\ req[r].at = "user" /\ Pending(r, new, cols, n, l)
           /\ DualRow(trip[req[r].trip]) => WriteOK(req[r].kind, new, cols)
<1>1. req[r].at = "user"
  BY DEF ReadTrack, ReadUntrack, ReadUpdate
<1>2. req[r] \in Request /\ req[r].trip \in Trips /\ req[r].user \in Users
  BY <1>1 DEF TypeInv, TypeOK, ControlOK
<1>3. trip[req[r].trip] \in Row /\ req[r].count \in Nat
  BY <1>2 DEF TypeInv, TypeOK, Request
<1> DEFINE row == trip[req[r].trip]
           tr == TrackedRow(row, req[r].user)
           tt == [tr EXCEPT !.projected_timeline = TRUE]
           un == UntrackedRow(row)
           ut == [row EXCEPT !.projected_timeline = TRUE]
           m == IF req[r].count > 0 THEN req[r].count - 1 ELSE 0
<1>4. row \in Row /\ tr \in Row /\ tt \in Row /\ un \in Row /\ ut \in Row
  BY <1>2, <1>3, HandlerRowTypes
<1>5. /\ Changed(row, tr) \in SUBSET Columns
      /\ Changed(row, un) \in SUBSET Columns
      /\ {"projected_timeline"} \in SUBSET Columns
      /\ {} \in SUBSET Columns
      /\ Changed(row, tr) \union {"projected_timeline"} \in SUBSET Columns
  <2>1. "projected_timeline" \in Columns
    BY DEF Columns
  <2> QED
    BY <2>1, ChangedType
<1>6. req[r].count + 1 \in Nat /\ m \in Nat /\ FALSE \in BOOLEAN
  BY <1>3
<1>7. /\ tr.status = "active" /\ tr.trip_status = "active"
      /\ un.status = "draft" /\ un.trip_status = "draft"
  BY <1>3 DEF TrackedRow, UntrackedRow, Row
<1>8. tt.status = "active" /\ tt.trip_status = "active"
  BY <1>4, <1>7 DEF Row
<1>9. CASE ReadTrack(r)
  <2>1. \/ Pending(r, tr, Changed(row, tr), req[r].count + 1, FALSE)
        \/ Pending(r, tt, Changed(row, tr) \union {"projected_timeline"},
                   req[r].count + 1, FALSE)
    BY <1>9 DEF ReadTrack
  <2>2. row.trip_status \in TRACKABLE_STATUSES /\ req[r].kind = "track"
    BY <1>9 DEF ReadTrack, Allowed, TrackAllowed
  <2>3. ASSUME DualRow(row)
        PROVE  /\ Changed(row, tr) \subseteq {"status", "trip_status", "user_id"}
               /\ {"status", "trip_status"} \subseteq Changed(row, tr)
    BY <1>2, <1>4, <2>2, <2>3, ChangedByHandlers
  <2>4. ASSUME DualRow(row)
        PROVE  /\ WriteOK("track", tr, Changed(row, tr))
               /\ WriteOK("track", tt,
                          Changed(row, tr) \union {"projected_timeline"})
    BY <1>7, <1>8, <2>3, <2>4 DEF WriteOK, Both, Counters
  <2> HIDE DEF tr, tt, row
  <2> QED
    BY <1>1, <1>4, <1>5, <1>6, <2>1, <2>2, <2>4 DEF row
<1>10. CASE ReadUntrack(r)
  <2>1. Pending(r, un, Changed(row, un), m, FALSE)
    BY <1>10 DEF ReadUntrack
  <2>2. row.trip_status \in UNTRACKABLE_STATUSES /\ req[r].kind = "untrack"
    BY <1>10 DEF ReadUntrack, Allowed, UntrackAllowed
  <2>3. ASSUME DualRow(row)
        PROVE  WriteOK("untrack", un, Changed(row, un))
    <3>1. {"status", "trip_status"} \subseteq Changed(row, un)
      BY <1>2, <1>4, <2>2, <2>3, ChangedByHandlers
    <3> QED
      BY <1>7, <3>1 DEF WriteOK, Both
  <2> HIDE DEF un, row, m
  <2> QED
    BY <1>1, <1>4, <1>5, <1>6, <2>1, <2>2, <2>3 DEF row
<1>11. CASE ReadUpdate(r)
  <2>1. \E e \in BOOLEAN :
          \/ Pending(r, row, {}, req[r].count, e)
          \/ Pending(r, ut, {"projected_timeline"}, req[r].count, e)
    BY <1>11 DEF ReadUpdate
  <2>2. /\ WriteOK(req[r].kind, row, {})
        /\ WriteOK(req[r].kind, ut, {"projected_timeline"})
    BY DEF WriteOK, Both, Counters
  <2> HIDE DEF ut, row
  <2> QED
    BY <1>1, <1>3, <1>4, <1>5, <2>1, <2>2 DEF row
<1> QED
  BY <1>9, <1>10, <1>11

(* A step of a request keeps the types.                                    *)
LEMMA TypeRequestStep ==
  ASSUME TypeInv, NEW r \in Requests, RequestStep(r)
  PROVE  TypeInv'
<1> USE DEF TypeInv
<1>1. ASSUME NEW k \in {"track", "untrack", "update"}, NEW t \in Trips,
             NEW u \in Users, Authenticate(r, k, t, u)
      PROVE  TypeInv'
  <2> DEFINE q == [Idle EXCEPT !.at = "user", !.kind = k, !.trip = t,
                               !.user = u, !.count = trip_count[u]]
  <2>1. q \in Request /\ q.trip = t /\ q.user = u
    BY NoRowType DEF Idle, Request, TypeOK
  <2>2. req' = [req EXCEPT ![r] = q]
    BY <1>1 DEF Authenticate
  <2> HIDE DEF q
  <2> QED
    BY <1>1, <2>1, <2>2 DEF Authenticate, TypeOK, ControlOK, pollVars, ghosts
<1>2. CASE ReadTrack(r) \/ ReadUntrack(r) \/ ReadUpdate(r)
  <2>1. PICK new \in Row, cols \in SUBSET Columns, n \in Nat, l \in BOOLEAN :
          req[r].at = "user" /\ Pending(r, new, cols, n, l)
    BY <1>2, ReadSteps
  <2>2. /\ req' \in [Requests -> Request]
        /\ \A s \in Requests : s # r => req'[s] = req[s]
        /\ req'[r].trip = req[r].trip /\ req'[r].user = req[r].user
    BY <2>1, PendingType
  <2>3. UNCHANGED <<trip, trip_count, pollVars, ghosts, aborts>>
    BY <1>2 DEF ReadTrack, ReadUntrack, ReadUpdate
  <2> QED
    BY <2>1, <2>2, <2>3 DEF TypeOK, ControlOK, pollVars, ghosts
<1>3. CASE Reject(r) \/ Fail(r)
  <2>1. /\ req' = [req EXCEPT ![r] = Idle]
        /\ UNCHANGED <<trip, trip_count, pollVars, ghosts, aborts>>
    BY <1>3 DEF Reject, Fail
  <2>2. Idle \in Request /\ Idle.at = "idle"
    BY IdleType DEF Idle
  <2> QED
    BY <2>1, <2>2 DEF TypeOK, ControlOK, pollVars, ghosts
<1>4. CASE Commit(r)
  <2> DEFINE q == req[r]
  <2>1. q \in Request /\ q.trip \in Trips /\ q.user \in Users
    BY <1>4 DEF Commit, TypeOK, ControlOK
  <2>2. q.new \in Row /\ q.newCount \in Nat
    BY <2>1 DEF Request
  <2>3. trip' \in [Trips -> Row]
    <3>1. Written(trip[q.trip], q.cols, q.new) \in Row
      BY <2>1, <2>2, WrittenType DEF TypeOK
    <3> QED
      BY <1>4, <3>1 DEF Commit, TypeOK
  <2>4. trip_count' \in [Users -> Nat]
    BY <1>4, <2>1, <2>2 DEF Commit, NewTripCount, TypeOK
  <2>5. sent' \in [Trips -> Nat] /\ asked' \in [Trips -> Nat]
        /\ texts' \in [Trips -> Nat]
    BY <1>4 DEF Commit, TypeOK
  <2> QED
    BY <1>4, <2>3, <2>4, <2>5, IdleType
    DEF Commit, TypeOK, ControlOK, pollVars, Idle
<1> QED
  BY <1>1, <1>2, <1>3, <1>4 DEF RequestStep

(* Where the agent goes on after a push is a point of _process_trip.       *)
LEMMA PointsAfterPush ==
  ASSUME NEW kind \in PushKinds, NEW row
  PROVE  /\ kind \in PollPoints \ {"sleep", "next", "commit"}
         /\ AfterNoPush(kind) \in PollPoints \ {"sleep", "next", "commit"}
         /\ AfterPush(kind, row) \in PollPoints \ {"sleep", "next", "commit"}
  BY DEF PushKinds, PollPoints, AfterNoPush, AfterPush

(* Every point of _process_trip is a point of the agent.                   *)
LEMMA InnerPoints ==
  {"cancellation", "gate_change", "advance", "post_trip", "mark_feedback",
   "recompute", "leave_by_shift", "time_to_go", "mark_time_to_go",
   "escalate", "done"} \subseteq PollPoints \ {"sleep", "next", "commit"}
  BY DEF PushKinds, PollPoints

(* Moving on within a trip's turn keeps the types.                         *)
LEMMA TypeGoto ==
  ASSUME TypeInv, NEW label \in PollPoints \ {"sleep", "next", "commit"},
         Goto(label), cur' \in todo',
         UNCHANGED <<trip, trip_count, req, todo, aborts>>,
         UNCHANGED <<sent, asked, texts>>
  PROVE  TypeInv'
  BY DEF TypeInv, TypeOK, ControlOK, Goto

(* So does assigning a column and going to its commit.                     *)
LEMMA TypeAssign ==
  ASSUME TypeInv, pc \notin {"sleep", "next"}, NEW new \in Row,
         NEW label \in PollPoints \ {"sleep", "next", "commit"},
         Assign(new, label),
         UNCHANGED <<trip, trip_count, req, cur, todo, aborts>>,
         sent' \in [Trips -> Nat], asked' \in [Trips -> Nat],
         texts' \in [Trips -> Nat]
  PROVE  TypeInv'
<1>1. dirty' \in SUBSET Columns
  BY ChangedType DEF Assign
<1>2. "commit" \in PollPoints
  BY DEF PollPoints
<1> QED
  BY <1>1, <1>2 DEF TypeInv, TypeOK, ControlOK, Assign

(* The copy of the row the agent works on is a row.                        *)
LEMMA CopyTypes ==
  ASSUME TypeInv, pc \notin {"sleep", "next"}
  PROVE  /\ cur \in Trips /\ cur \in todo /\ mem[cur] \in Row
         /\ [mem[cur] EXCEPT !.push_count = @ + 1] \in Row
         /\ [mem[cur] EXCEPT !.sms_count = @ + 1] \in Row
         /\ [mem[cur] EXCEPT !.time_to_go = TRUE] \in Row
         /\ [mem[cur] EXCEPT !.feedback_requested = TRUE] \in Row
         /\ [mem[cur] EXCEPT !.projected_timeline = TRUE] \in Row
         /\ \A s \in Statuses :
              [mem[cur] EXCEPT !.status = s, !.trip_status = s] \in Row
<1>1. cur \in Trips /\ cur \in todo /\ mem[cur] \in Row
  BY DEF TypeInv, TypeOK, ControlOK
<1> DEFINE row == mem[cur]
<1>2. row \in Row
  BY <1>1
<1> HIDE DEF row
<1>3. /\ [row EXCEPT !.push_count = @ + 1] \in Row
      /\ [row EXCEPT !.sms_count = @ + 1] \in Row
      /\ [row EXCEPT !.time_to_go = TRUE] \in Row
      /\ [row EXCEPT !.feedback_requested = TRUE] \in Row
      /\ [row EXCEPT !.projected_timeline = TRUE] \in Row
  <2>1. row.push_count + 1 \in Nat /\ row.sms_count + 1 \in Nat
    BY <1>2 DEF Row
  <2>2. [row EXCEPT !.push_count = row.push_count + 1] \in Row
    BY <1>2, <2>1 DEF Row
  <2>3. [row EXCEPT !.sms_count = row.sms_count + 1] \in Row
    BY <1>2, <2>1 DEF Row
  <2>4. /\ [row EXCEPT !.time_to_go = TRUE] \in Row
        /\ [row EXCEPT !.feedback_requested = TRUE] \in Row
        /\ [row EXCEPT !.projected_timeline = TRUE] \in Row
    BY <1>2 DEF Row
  <2> QED
    BY <2>2, <2>3, <2>4
<1>4. \A s \in Statuses : [row EXCEPT !.status = s, !.trip_status = s] \in Row
  BY <1>2 DEF Row
<1> QED
  BY <1>1, <1>3, <1>4 DEF row

(* A step of the agent keeps the types.                                    *)
LEMMA TypePollStep ==
  ASSUME TypeInv, PollStep
  PROVE  TypeInv'
<1> USE DEF TypeInv
<1>1. CASE TickLoad
  <2>1. mem' \in [Trips -> Row]
    BY <1>1, NoRowType, WrittenType DEF TickLoad, TypeOK
  <2>2. todo' \in SUBSET Trips /\ pc' = "next" /\ "next" \in PollPoints
    BY <1>1 DEF TickLoad, PollPoints
  <2> QED
    BY <1>1, <2>1, <2>2 DEF TickLoad, TypeOK, ControlOK, ghosts
<1>2. CASE PickTrip
  <2>1. cur' \in todo' /\ cur' \in Trips
    BY <1>2 DEF PickTrip, TypeOK
  <2> QED
    BY <1>2, <2>1, InnerPoints
    DEF PickTrip, Goto, TypeOK, ControlOK, ghosts
<1>3. CASE FinishTrip
  <2>1. "next" \in PollPoints
    BY DEF PollPoints
  <2> QED
    BY <1>3, <2>1, NoRowType DEF FinishTrip, TypeOK, ControlOK, ghosts
<1>4. CASE TickEnd
  <2>1. "sleep" \in PollPoints
    BY DEF PollPoints
  <2> QED
    BY <1>4, <2>1 DEF TickEnd, Goto, TypeOK, ControlOK, ghosts
<1>5. CASE TickAbort
  <2>1. "sleep" \in PollPoints
    BY DEF PollPoints
  <2>2. aborts' \in 0..MaxAborts
    BY <1>5, LifecycleAssumption DEF TickAbort, TypeOK
  <2> QED
    BY <1>5, <2>1, <2>2, NoRowType DEF TickAbort, TypeOK, ControlOK, ghosts
<1>6. ASSUME NEW kind \in PushKinds, Push(kind)
      PROVE  TypeInv'
  <2>1. pc \notin {"sleep", "next"}
    BY <1>6, PointsAfterPush DEF Push
  <2>2. /\ sent' \in [Trips -> Nat] /\ asked' \in [Trips -> Nat]
        /\ texts' \in [Trips -> Nat]
    <3>1. cur \in Trips
      BY <2>1, CopyTypes
    <3> QED
      BY <1>6, <3>1 DEF Push, TypeOK
  <2> QED
    BY <1>6, <2>1, <2>2, CopyTypes, PointsAfterPush, TypeAssign DEF Push
<1>7. ASSUME NEW kind \in PushKinds, NoPush(kind)
      PROVE  TypeInv'
  <2>1. pc \notin {"sleep", "next"}
    BY <1>7, PointsAfterPush DEF NoPush
  <2> QED
    BY <1>7, <2>1, PointsAfterPush, TypeGoto DEF NoPush, ghosts, ControlOK
<1>8. CASE Advance
  <2>1. PICK to \in Successors(mem[cur].trip_status) :
          Assign([mem[cur] EXCEPT !.status = to, !.trip_status = to],
                 IF to = "complete" /\ ~ mem[cur].feedback_requested
                 THEN "post_trip" ELSE "done")
    BY <1>8 DEF Advance
  <2>2. to \in Statuses /\ pc \notin {"sleep", "next"}
    BY <1>8, StatusSets DEF Advance
  <2> QED
    BY <1>8, <2>1, <2>2, CopyTypes, InnerPoints, TypeAssign
    DEF Advance, ghosts, TypeOK
<1>9. CASE MarkFeedback
  BY <1>9, CopyTypes, InnerPoints, TypeAssign DEF MarkFeedback, ghosts, TypeOK
<1>10. CASE MarkTimeToGo
  BY <1>10, CopyTypes, InnerPoints, TypeAssign DEF MarkTimeToGo, ghosts, TypeOK
<1>11. CASE SendSms
  <2>1. texts' \in [Trips -> Nat]
    <3>1. cur \in Trips
      BY <1>11, CopyTypes DEF SendSms
    <3> QED
      BY <1>11, <3>1 DEF SendSms, TypeOK
  <2> QED
    BY <1>11, <2>1, CopyTypes, InnerPoints, TypeAssign DEF SendSms, TypeOK
<1>12. CASE StayInPhase \/ RecomputeFails \/ NoSms
  <2>1. PICK label \in PollPoints \ {"sleep", "next", "commit"} : Goto(label)
    BY <1>12, InnerPoints DEF StayInPhase, RecomputeFails, NoSms
  <2>2. /\ pc \notin {"sleep", "next"}
        /\ UNCHANGED <<trip, trip_count, req, cur, todo, ghosts, aborts>>
    BY <1>12 DEF StayInPhase, RecomputeFails, NoSms
  <2> QED
    BY <2>1, <2>2, TypeGoto DEF ghosts, ControlOK
<1>13. CASE Recompute
  <2>1. /\ pc \notin {"sleep", "next"}
        /\ UNCHANGED <<trip, trip_count, req, cur, todo, ghosts, aborts>>
    BY <1>13 DEF Recompute
  <2>2. CASE Goto("leave_by_shift")
    BY <2>1, <2>2, InnerPoints, TypeGoto DEF ghosts, ControlOK
  <2>3. CASE /\ mem' = [mem EXCEPT ![cur].projected_timeline = TRUE]
             /\ dirty' = {"projected_timeline"}
             /\ pc' = "commit" /\ then' = "leave_by_shift"
    <3>1. mem' \in [Trips -> Row]
      BY <2>1, <2>3, CopyTypes DEF TypeOK
    <3>2. dirty' \in SUBSET Columns /\ pc' \in PollPoints
      BY <2>3 DEF Columns, PollPoints
    <3> QED
      BY <2>1, <2>3, <3>1, <3>2, InnerPoints DEF ghosts, TypeOK, ControlOK
  <2> QED
    BY <1>13, <2>2, <2>3 DEF Recompute
<1>14. CASE PollCommit
  <2>1. cur \in Trips /\ mem[cur] \in Row
    BY <1>14, CopyTypes DEF PollCommit
  <2>2. trip' \in [Trips -> Row]
    BY <1>14, <2>1, WrittenType DEF PollCommit, TypeOK
  <2> QED
    BY <1>14, <2>2 DEF PollCommit, TypeOK, ControlOK, ghosts
<1> QED
  BY <1>1, <1>2, <1>3, <1>4, <1>5, <1>6, <1>7, <1>8, <1>9, <1>10, <1>11,
     <1>12, <1>13, <1>14 DEF PollStep

(* Every step keeps the types.                                             *)
LEMMA TypeStep == TypeInv /\ [Next]_vars => TypeInv'
<1> SUFFICES ASSUME TypeInv, [Next]_vars PROVE TypeInv'
  OBVIOUS
<1>1. ASSUME NEW t \in Trips, PostTrip(t) PROVE TypeInv'
  BY <1>1, IntakeRowType
  DEF PostTrip, TypeInv, TypeOK, ControlOK, pollVars, ghosts
<1>2. CASE UNCHANGED vars
  BY <1>2 DEF vars, pollVars, ghosts, TypeInv, TypeOK, ControlOK
<1> QED
  BY <1>1, <1>2, TypeRequestStep, TypePollStep DEF Next

(* Rows, copies of rows, pending writes and counters keep their types, and *)
(* every request and the agent work on rows they have read.                *)
THEOREM TypeCorrect == Spec => []TypeOK
<1>1. TypeInv => TypeOK
  BY DEF TypeInv
<1> QED
  BY <1>1, TypeInit, TypeStep, PTL DEF Spec

-----------------------------------------------------------------------------
(* The two status columns.                                                 *)

(* A copy of the agent: a trip that was under way when it was loaded.      *)
CopyOK(row) ==
  /\ row.status = row.trip_status
  /\ row.trip_status \in MONITORABLE_STATUSES \union {"complete"}

DualInv ==
  /\ \A t \in Trips : DualRow(trip[t])
  /\ \A r \in Requests : req[r].at = "commit" => PendingOK(req[r])
  /\ \A t \in todo : CopyOK(mem[t])
  /\ pc = "commit" => Both(dirty)

(* A write of both columns, or of neither, keeps a row dual.               *)
LEMMA WrittenDual ==
  ASSUME NEW row, NEW new, NEW cols, DualRow(row), Both(cols),
         "status" \in cols => new.status = new.trip_status
                              /\ new.trip_status # "created"
  PROVE  DualRow(Written(row, cols, new))
<1>1. /\ Written(row, cols, new).status =
           IF "status" \in cols THEN new.status ELSE row.status
      /\ Written(row, cols, new).trip_status =
           IF "trip_status" \in cols THEN new.trip_status ELSE row.trip_status
  BY DEF Written
<1> QED
  BY <1>1 DEF DualRow, Both

(* A handler that has read its row waits with such a write.                *)
LEMMA PendingTracked ==
  ASSUME TypeInv, DualInv, NEW r \in Requests,
         ReadTrack(r) \/ ReadUntrack(r) \/ ReadUpdate(r)
  PROVE  /\ PendingOK(req'[r])
         /\ \A s \in Requests : s # r => req'[s] = req[s]
<1>1. PICK new \in Row, cols \in SUBSET Columns, n \in Nat, l \in BOOLEAN :
        /\ req[r].at = "user" /\ Pending(r, new, cols, n, l)
        /\ DualRow(trip[req[r].trip]) => WriteOK(req[r].kind, new, cols)
  BY ReadSteps
<1>2. DualRow(trip[req[r].trip])
  BY <1>1 DEF TypeInv, ControlOK, DualInv
<1>a. req[r].at # "idle" /\ Pending(r, new, cols, n, l)
  BY <1>1
<1>3. /\ req'[r].kind = req[r].kind /\ req'[r].cols = cols
      /\ req'[r].new = Written(NoRow, cols, new)
      /\ \A s \in Requests : s # r => req'[s] = req[s]
  BY <1>a, PendingType
<1>4. "status" \in cols => /\ Written(NoRow, cols, new).status = new.status
  BY DEF Written
<1>5. "trip_status" \in cols =>
        Written(NoRow, cols, new).trip_status = new.trip_status
  BY DEF Written
<1> QED
  BY <1>1, <1>2, <1>3, <1>4, <1>5 DEF PendingOK, WriteOK, Both

(* No row, no difference between its status columns.                       *)
LEMMA DualInit == Init => DualInv
<1> SUFFICES ASSUME Init PROVE DualInv
  OBVIOUS
<1>1. NoRow.status = "absent" /\ NoRow.trip_status = "absent"
  BY DEF NoRow
<1>2. Idle.at = "idle"
  BY DEF Idle
<1> QED
  BY <1>1, <1>2 DEF Init, DualInv, DualRow

(* A request writes both status columns or neither.                        *)
LEMMA DualRequestStep ==
  ASSUME TypeInv, DualInv, NEW r \in Requests, RequestStep(r)
  PROVE  DualInv'
<1>1. ASSUME NEW q \in Request, q.at # "commit",
             req' = [req EXCEPT ![r] = q],
             UNCHANGED <<trip, pollVars>>
      PROVE  DualInv'
  BY <1>1 DEF DualInv, TypeInv, TypeOK, pollVars
<1>2. ASSUME NEW k \in {"track", "untrack", "update"}, NEW t \in Trips,
             NEW u \in Users, Authenticate(r, k, t, u)
      PROVE  DualInv'
  <2> DEFINE q == [Idle EXCEPT !.at = "user", !.kind = k, !.trip = t,
                               !.user = u, !.count = trip_count[u]]
  <2>1. q \in Request /\ q.at # "commit"
    BY NoRowType DEF Idle, Request, TypeInv, TypeOK
  <2>2. req' = [req EXCEPT ![r] = q] /\ UNCHANGED <<trip, pollVars>>
    BY <1>2 DEF Authenticate
  <2> HIDE DEF q
  <2> QED
    BY <1>1, <2>1, <2>2
<1>3. CASE ReadTrack(r) \/ ReadUntrack(r) \/ ReadUpdate(r)
  <2>1. PendingOK(req'[r]) /\ \A s \in Requests : s # r => req'[s] = req[s]
    BY <1>3, PendingTracked
  <2>3. UNCHANGED <<trip, pollVars>>
    BY <1>3 DEF ReadTrack, ReadUntrack, ReadUpdate
  <2> QED
    BY <2>1, <2>3 DEF DualInv, pollVars, PendingOK
<1>4. CASE Reject(r) \/ Fail(r)
  <2>1. Idle \in Request /\ Idle.at # "commit"
    BY IdleType DEF Idle
  <2>2. req' = [req EXCEPT ![r] = Idle] /\ UNCHANGED <<trip, pollVars>>
    BY <1>4 DEF Reject, Fail
  <2> QED
    BY <1>1, <2>1, <2>2
<1>5. CASE Commit(r)
  <2> DEFINE q == req[r]
  <2>1. q.at = "commit" /\ q.trip \in Trips /\ PendingOK(q)
    BY <1>5 DEF Commit, TypeInv, ControlOK, DualInv
  <2>2. DualRow(Written(trip[q.trip], q.cols, q.new))
    <3>1. DualRow(trip[q.trip]) /\ WriteOK(q.kind, q.new, q.cols)
      BY <2>1 DEF PendingOK, DualInv
    <3> HIDE DEF q
    <3> QED
      BY <3>1, WrittenDual DEF WriteOK
  <2>3. \A t \in Trips : DualRow(trip'[t])
    BY <1>5, <2>1, <2>2 DEF Commit, DualInv, TypeInv, TypeOK
  <2>4. \A s \in Requests : req'[s] = IF s = r THEN Idle ELSE req[s]
    BY <1>5 DEF Commit, TypeInv, TypeOK
  <2>5. Idle.at # "commit"
    BY DEF Idle
  <2>6. UNCHANGED pollVars
    BY <1>5 DEF Commit
  <2> QED
    BY <2>3, <2>4, <2>5, <2>6 DEF DualInv, pollVars
<1> QED
  BY <1>2, <1>3, <1>4, <1>5 DEF RequestStep

(* What the agent assigns is dual on the columns it changes.               *)
LEMMA DualAssign ==
  ASSUME TypeInv, DualInv, pc \notin {"sleep", "next"},
         NEW new \in Row, NEW label, Assign(new, label), CopyOK(new),
         Both(Changed(mem[cur], new)), UNCHANGED <<trip, req, todo>>
  PROVE  DualInv'
<1>1. mem' = [mem EXCEPT ![cur] = new] /\ mem \in [Trips -> Row]
      /\ todo \subseteq Trips
  BY DEF Assign, TypeInv, TypeOK
<1>2. \A t \in todo' : CopyOK(mem'[t])
  BY <1>1 DEF DualInv
<1>3. Both(dirty')
  BY DEF Assign
<1> QED
  BY <1>2, <1>3 DEF DualInv, PendingOK

(* The assignments that leave both status columns alone.                   *)
LEMMA DualCopy ==
  ASSUME NEW row \in Row, CopyOK(row)
  PROVE  /\ CopyOK([row EXCEPT !.push_count = @ + 1])
         /\ CopyOK([row EXCEPT !.sms_count = @ + 1])
         /\ CopyOK([row EXCEPT !.time_to_go = TRUE])
         /\ CopyOK([row EXCEPT !.feedback_requested = TRUE])
         /\ CopyOK([row EXCEPT !.projected_timeline = TRUE])
         /\ Both(Changed(row, [row EXCEPT !.push_count = @ + 1]))
         /\ Both(Changed(row, [row EXCEPT !.sms_count = @ + 1]))
         /\ Both(Changed(row, [row EXCEPT !.time_to_go = TRUE]))
         /\ Both(Changed(row, [row EXCEPT !.feedback_requested = TRUE]))
<1>1. /\ CopyOK([row EXCEPT !.push_count = @ + 1])
      /\ CopyOK([row EXCEPT !.sms_count = @ + 1])
      /\ CopyOK([row EXCEPT !.time_to_go = TRUE])
      /\ CopyOK([row EXCEPT !.feedback_requested = TRUE])
      /\ CopyOK([row EXCEPT !.projected_timeline = TRUE])
  BY DEF CopyOK, Row
<1>2. \A cols : cols \subseteq {"push_count"} \/ cols \subseteq {"sms_count"}
                \/ cols \subseteq {"time_to_go"}
                \/ cols \subseteq {"feedback_requested"} => Both(cols)
  BY DEF Both
<1> QED
  BY <1>1, <1>2, ChangedByAgent

(* So does the agent.                                                      *)
LEMMA DualPollStep ==
  ASSUME TypeInv, DualInv, PollStep
  PROVE  DualInv'
<1>1. CASE TickLoad
  <2>1. ASSUME NEW t \in todo' PROVE CopyOK(mem'[t])
    <3>1. t \in Trips /\ trip[t].trip_status \in MONITORABLE_STATUSES
          /\ mem'[t] = Written(NoRow, PollColumns, trip[t])
      BY <1>1, <2>1 DEF TickLoad, Monitored
    <3>2. mem'[t].status = trip[t].status
          /\ mem'[t].trip_status = trip[t].trip_status
      BY <3>1 DEF Written, PollColumns, Columns
    <3>3. DualRow(trip[t])
      BY <3>1 DEF DualInv
    <3> QED
      BY <3>1, <3>2, <3>3 DEF DualRow, CopyOK, MONITORABLE_STATUSES
  <2>2. trip' = trip /\ req' = req /\ pc' = "next"
    BY <1>1 DEF TickLoad
  <2> QED
    BY <2>1, <2>2 DEF DualInv, PendingOK
<1>2. CASE PickTrip \/ TickEnd \/ StayInPhase \/ RecomputeFails \/ NoSms
           \/ \E kind \in PushKinds : NoPush(kind)
  <2>1. /\ trip' = trip /\ req' = req /\ todo' = todo /\ mem' = mem
        /\ pc' # "commit"
    BY <1>2, PointsAfterPush
    DEF PickTrip, TickEnd, StayInPhase, RecomputeFails, NoSms, NoPush, Goto
  <2> QED
    BY <2>1 DEF DualInv, PendingOK
<1>3. CASE FinishTrip
  <2>1. \A t \in todo' : t \in todo /\ mem'[t] = mem[t]
    BY <1>3 DEF FinishTrip, TypeInv, TypeOK
  <2>2. trip' = trip /\ req' = req /\ pc' = "next"
    BY <1>3 DEF FinishTrip
  <2> QED
    BY <2>1, <2>2 DEF DualInv, PendingOK
<1>4. CASE TickAbort
  BY <1>4 DEF TickAbort, DualInv, PendingOK
<1>5. ASSUME pc \notin {"sleep", "next"}
      PROVE  /\ mem[cur] \in Row /\ CopyOK(mem[cur])
             /\ [mem[cur] EXCEPT !.push_count = @ + 1] \in Row
             /\ [mem[cur] EXCEPT !.sms_count = @ + 1] \in Row
             /\ [mem[cur] EXCEPT !.time_to_go = TRUE] \in Row
             /\ [mem[cur] EXCEPT !.feedback_requested = TRUE] \in Row
  BY <1>5, CopyTypes DEF DualInv
<1>6. CASE \E kind \in PushKinds : Push(kind)
  <2>1. PICK kind \in PushKinds : Push(kind)
    BY <1>6
  <2>2. pc \notin {"sleep", "next"}
    BY <2>1, PointsAfterPush DEF Push
  <2>3. /\ Assign([mem[cur] EXCEPT !.push_count = @ + 1],
                  AfterPush(kind, mem[cur]))
        /\ UNCHANGED <<trip, req, todo>>
    BY <2>1 DEF Push
  <2> QED
    BY <1>5, <2>2, <2>3, DualCopy, DualAssign
<1>7. CASE MarkFeedback
  <2>1. /\ pc \notin {"sleep", "next"} /\ UNCHANGED <<trip, req, todo>>
        /\ Assign([mem[cur] EXCEPT !.feedback_requested = TRUE], "done")
    BY <1>7 DEF MarkFeedback
  <2> QED
    BY <1>5, <2>1, DualCopy, DualAssign
<1>8. CASE MarkTimeToGo
  <2>1. /\ pc \notin {"sleep", "next"} /\ UNCHANGED <<trip, req, todo>>
        /\ Assign([mem[cur] EXCEPT !.time_to_go = TRUE], "done")
    BY <1>8 DEF MarkTimeToGo
  <2> QED
    BY <1>5, <2>1, DualCopy, DualAssign
<1>9. CASE SendSms
  <2>1. /\ pc \notin {"sleep", "next"} /\ UNCHANGED <<trip, req, todo>>
        /\ Assign([mem[cur] EXCEPT !.sms_count = @ + 1], "done")
    BY <1>9 DEF SendSms
  <2> QED
    BY <1>5, <2>1, DualCopy, DualAssign
<1>10. CASE Advance
  <2>1. /\ pc \notin {"sleep", "next"} /\ UNCHANGED <<trip, req, todo>>
    BY <1>10 DEF Advance
  <2>2. PICK to \in Successors(mem[cur].trip_status), label \in {"post_trip", "done"} :
          /\ CanAdvance(mem[cur].trip_status, to)
          /\ Assign([mem[cur] EXCEPT !.status = to, !.trip_status = to], label)
    BY <1>10 DEF Advance
  <2>3. /\ to \in Statuses /\ to # mem[cur].trip_status
        /\ to \in MONITORABLE_STATUSES \union {"complete"}
    BY <2>2, StatusSets DEF CanAdvance, Rank, Successors, MONITORABLE_STATUSES
  <2> DEFINE row == mem[cur]
             new == [row EXCEPT !.status = to, !.trip_status = to]
  <2>4. row \in Row /\ CopyOK(row) /\ new \in Row
    BY <1>5, <2>1, <2>3, CopyTypes
  <2>5. CopyOK(new)
    BY <2>3, <2>4 DEF CopyOK, Row
  <2>6. Changed(row, new) = {"status", "trip_status"}
    BY <2>3, <2>4, ChangedByAdvance DEF CopyOK
  <2>7. Both(Changed(row, new))
    BY <2>6 DEF Both
  <2> QED
    BY <2>1, <2>2, <2>4, <2>5, <2>7, DualAssign
<1>11. CASE Recompute
  <2>1. /\ pc \notin {"sleep", "next"} /\ UNCHANGED <<trip, req, todo>>
    BY <1>11 DEF Recompute
  <2>2. CASE Goto("leave_by_shift")
    BY <2>1, <2>2 DEF Goto, DualInv, PendingOK
  <2>3. CASE /\ mem' = [mem EXCEPT ![cur].projected_timeline = TRUE]
             /\ dirty' = {"projected_timeline"}
    <3>1. CopyOK([mem[cur] EXCEPT !.projected_timeline = TRUE])
      BY <1>5, <2>1, DualCopy
    <3>2. \A t \in todo' : CopyOK(mem'[t])
      BY <2>1, <2>3, <3>1 DEF DualInv, TypeInv, TypeOK
    <3>3. Both(dirty')
      BY <2>3 DEF Both
    <3> QED
      BY <2>1, <3>2, <3>3 DEF DualInv, PendingOK
  <2> QED
    BY <1>11, <2>2, <2>3 DEF Recompute
<1>12. CASE PollCommit
  <2>1. pc = "commit" /\ cur \in Trips /\ cur \in todo
    BY <1>12, CopyTypes DEF PollCommit
  <2>2. CopyOK(mem[cur]) /\ Both(dirty) /\ DualRow(trip[cur])
    BY <2>1 DEF DualInv
  <2>3. mem[cur].status = mem[cur].trip_status
        /\ mem[cur].trip_status # "created"
    BY <2>2 DEF CopyOK, MONITORABLE_STATUSES
  <2>4. DualRow(Written(trip[cur], dirty, mem[cur]))
    BY <2>2, <2>3, WrittenDual
  <2>5. trip' = [trip EXCEPT ![cur] = Written(trip[cur], dirty, mem[cur])]
    BY <1>12 DEF PollCommit
  <2>6. \A t \in Trips : DualRow(trip'[t])
    BY <2>1, <2>4, <2>5 DEF DualInv, TypeInv, TypeOK
  <2>7. UNCHANGED <<req, todo, mem>> /\ pc' # "commit"
    BY <1>12, <2>1 DEF PollCommit, TypeInv, ControlOK
  <2> QED
    BY <2>6, <2>7 DEF DualInv, PendingOK
<1> QED
  BY <1>1, <1>2, <1>3, <1>4, <1>6, <1>7, <1>8, <1>9, <1>10, <1>11, <1>12
  DEF PollStep

(* Every step keeps the columns in agreement.                              *)
LEMMA DualStep == TypeInv /\ DualInv /\ [Next]_vars => DualInv'
<1> SUFFICES ASSUME TypeInv, DualInv, [Next]_vars PROVE DualInv'
  OBVIOUS
<1>1. ASSUME NEW t \in Trips, PostTrip(t) PROVE DualInv'
  <2>1. PICK u \in Users \union {NoUser} : trip' = [trip EXCEPT ![t] = IntakeRow(u)]
    BY <1>1 DEF PostTrip
  <2>2. DualRow(IntakeRow(u))
    BY DEF IntakeRow, NoRow, DualRow
  <2>3. \A s \in Trips : DualRow(trip'[s])
    BY <2>1, <2>2 DEF DualInv, TypeInv, TypeOK
  <2>4. UNCHANGED <<req, pollVars>>
    BY <1>1 DEF PostTrip
  <2> QED
    BY <2>3, <2>4 DEF DualInv, PendingOK, pollVars
<1>2. CASE UNCHANGED vars
  BY <1>2 DEF vars, pollVars, DualInv, PendingOK
<1> QED
  BY <1>1, <1>2, DualRequestStep, DualPollStep DEF Next

(* Past the intake the deprecated status column and trip_status agree,     *)
(* however requests and ticks overlap.                                     *)
THEOREM DualWriteHolds == Spec => []DualWrite
<1>1. DualInv => DualWrite
  BY DEF DualInv, DualRow, DualWrite
<1> QED
  BY <1>1, TypeInit, TypeStep, DualInit, DualStep, PTL DEF Spec

-----------------------------------------------------------------------------
(* The budget of notifications.                                            *)

Bit(b) == IF b THEN 1 ELSE 0

(* A new value of column c of row t waits for the agent's commit.          *)
Unsaved(t, c) == pc = "commit" /\ cur = t /\ c \in dirty

(* What reached the phone is counted in the agent's copy, and in the row   *)
(* once the commit is done; a lost tick loses one count at most.           *)
BudgetInv ==
  /\ \A t \in Trips :
       /\ sent[t] <= trip[t].push_count + aborts + Bit(Unsaved(t, "push_count"))
       /\ texts[t] <= trip[t].sms_count + aborts + Bit(Unsaved(t, "sms_count"))
  /\ \A t \in todo : /\ sent[t] <= mem[t].push_count + aborts
                     /\ texts[t] <= mem[t].sms_count + aborts
  /\ NotificationBudget

(* What the API does to the agent's counts and to the phase of a trip.     *)
LEMMA RequestEffect ==
  ASSUME TypeInv, DualInv, NEW r \in Requests, RequestStep(r),
         NEW t \in Trips
  PROVE  /\ UNCHANGED <<pollVars, aborts>>
         /\ \/ sent'[t] = 0 /\ texts'[t] = 0 /\ asked'[t] = 0
            \/ /\ sent'[t] = sent[t] /\ texts'[t] = texts[t]
               /\ asked'[t] = asked[t]
               /\ trip'[t].push_count = trip[t].push_count
               /\ trip'[t].sms_count = trip[t].sms_count
               /\ trip'[t].feedback_requested = trip[t].feedback_requested
         /\ \/ trip'[t].trip_status = trip[t].trip_status
            \/ trip'[t].trip_status \in {"active", "draft"}
<1>1. CASE UNCHANGED <<trip, pollVars, ghosts, aborts>>
  BY <1>1 DEF ghosts
<1>2. CASE Commit(r)
  <2> DEFINE q == req[r]
             w == Written(trip[q.trip], q.cols, q.new)
  <2>1. /\ q \in Request /\ q.trip \in Trips
        /\ WriteOK(q.kind, q.new, q.cols)
    BY <1>2 DEF Commit, TypeInv, TypeOK, ControlOK, DualInv, PendingOK
  <2>2. /\ trip' = [trip EXCEPT ![q.trip] = w]
        /\ UNCHANGED <<pollVars, aborts>>
        /\ q.kind = "untrack" => /\ sent' = [sent EXCEPT ![q.trip] = 0]
                                 /\ asked' = [asked EXCEPT ![q.trip] = 0]
                                 /\ texts' = [texts EXCEPT ![q.trip] = 0]
        /\ q.kind # "untrack" => UNCHANGED <<sent, asked, texts>>
    BY <1>2 DEF Commit
  <2>3. /\ trip \in [Trips -> Row] /\ sent \in [Trips -> Nat]
        /\ asked \in [Trips -> Nat] /\ texts \in [Trips -> Nat]
    BY DEF TypeInv, TypeOK
  <2>4. /\ w.trip_status = IF "trip_status" \in q.cols
                           THEN q.new.trip_status ELSE trip[q.trip].trip_status
        /\ w.push_count = IF "push_count" \in q.cols
                          THEN q.new.push_count ELSE trip[q.trip].push_count
        /\ w.sms_count = IF "sms_count" \in q.cols
                         THEN q.new.sms_count ELSE trip[q.trip].sms_count
        /\ w.feedback_requested = IF "feedback_requested" \in q.cols
                                  THEN q.new.feedback_requested
                                  ELSE trip[q.trip].feedback_requested
    BY DEF Written
  <2>5. /\ "trip_status" \in q.cols => q.new.trip_status \in {"active", "draft"}
        /\ q.kind # "untrack" =>
             "push_count" \notin q.cols /\ "sms_count" \notin q.cols
             /\ "feedback_requested" \notin q.cols
    BY <2>1 DEF WriteOK, Both, Counters
  <2> HIDE DEF q, w
  <2> QED
    BY <2>1, <2>2, <2>3, <2>4, <2>5
<1>3. CASE ~ Commit(r)
  <2>1. UNCHANGED <<trip, pollVars, ghosts, aborts>>
    BY <1>3 DEF RequestStep, Authenticate, ReadTrack, ReadUntrack, ReadUpdate,
                Reject, Fail
  <2> QED
    BY <1>1, <2>1
<1> QED
  BY <1>2, <1>3

(* A new row changes no count, and the agent has not loaded it.            *)
LEMMA PostEffect ==
  ASSUME TypeInv, NEW s \in Trips, PostTrip(s), NEW t \in Trips
  PROVE  /\ UNCHANGED <<pollVars, ghosts, aborts>>
         /\ trip'[t].push_count = trip[t].push_count
         /\ trip'[t].sms_count = trip[t].sms_count
         /\ trip'[t].feedback_requested = trip[t].feedback_requested
         /\ \/ trip'[t].trip_status = trip[t].trip_status
            \/ trip[t].trip_status = "absent"
<1>1. PICK u \in Users \union {NoUser} :
        /\ trip' = [trip EXCEPT ![s] = IntakeRow(u)]
        /\ trip[s] = NoRow
        /\ UNCHANGED <<pollVars, ghosts, aborts>>
  BY DEF PostTrip
<1>2. /\ IntakeRow(u).push_count = NoRow.push_count
      /\ IntakeRow(u).sms_count = NoRow.sms_count
      /\ IntakeRow(u).feedback_requested = NoRow.feedback_requested
      /\ NoRow.trip_status = "absent"
  BY DEF IntakeRow, NoRow
<1> QED
  BY <1>1, <1>2 DEF TypeInv, TypeOK

(* Requests keep the budget: an untrack sets the counts to zero.           *)
LEMMA BudgetOutside ==
  ASSUME TypeInv, DualInv, BudgetInv,
         \/ \E s \in Trips : PostTrip(s)
         \/ \E r \in Requests : RequestStep(r)
  PROVE  BudgetInv'
<1>1. UNCHANGED <<pollVars, aborts>>
  <2>1. ASSUME NEW s \in Trips, PostTrip(s) PROVE UNCHANGED <<pollVars, aborts>>
    BY <2>1 DEF PostTrip
  <2>2. ASSUME NEW r \in Requests, RequestStep(r)
        PROVE  UNCHANGED <<pollVars, aborts>>
    BY <2>2 DEF RequestStep, Authenticate, ReadTrack, ReadUntrack, ReadUpdate,
                Reject, Commit, Fail
  <2> QED
    BY <2>1, <2>2
<1>2. ASSUME NEW t \in Trips
      PROVE  \/ sent'[t] = 0 /\ texts'[t] = 0
             \/ /\ sent'[t] = sent[t] /\ texts'[t] = texts[t]
                /\ trip'[t].push_count = trip[t].push_count
                /\ trip'[t].sms_count = trip[t].sms_count
  BY RequestEffect, PostEffect DEF ghosts
<1>3. TypeInv'
  BY TypeStep DEF Next
<1>4. \A t \in Trips : trip'[t].push_count \in Nat /\ trip'[t].sms_count \in Nat
  BY <1>3 DEF TypeInv, TypeOK, Row
<1>5. \A t \in todo : mem[t].push_count \in Nat /\ mem[t].sms_count \in Nat
                      /\ t \in Trips
  BY DEF TypeInv, TypeOK, Row
<1>6. aborts \in Nat /\ MaxPushes \in Nat /\ MaxSms \in Nat
  BY LifecycleAssumption DEF TypeInv, TypeOK
<1>7. \A t : Unsaved(t, "push_count")' = Unsaved(t, "push_count")
             /\ Unsaved(t, "sms_count")' = Unsaved(t, "sms_count")
  BY <1>1 DEF Unsaved, pollVars
<1>8. \A t : Bit(Unsaved(t, "push_count")) \in {0, 1}
             /\ Bit(Unsaved(t, "sms_count")) \in {0, 1}
  BY DEF Bit
<1>9. \A t \in Trips :
        /\ sent'[t] <= trip'[t].push_count + aborts' + Bit(Unsaved(t, "push_count"))'
        /\ texts'[t] <= trip'[t].sms_count + aborts' + Bit(Unsaved(t, "sms_count"))'
  BY <1>1, <1>2, <1>4, <1>6, <1>7, <1>8 DEF BudgetInv
<1>10. \A t \in todo' : /\ sent'[t] <= mem'[t].push_count + aborts'
                        /\ texts'[t] <= mem'[t].sms_count + aborts'
  BY <1>1, <1>2, <1>5, <1>6 DEF BudgetInv, pollVars
<1>11. NotificationBudget'
  BY <1>1, <1>2, <1>6 DEF BudgetInv, NotificationBudget
<1> QED
  BY <1>9, <1>10, <1>11 DEF BudgetInv

(* The numbers the budget is about.                                        *)
LEMMA BudgetTypes ==
  ASSUME TypeInv
  PROVE  /\ \A t \in Trips :
              /\ sent[t] \in Nat /\ texts[t] \in Nat
              /\ trip[t].push_count \in Nat /\ trip[t].sms_count \in Nat
              /\ mem[t].push_count \in Nat /\ mem[t].sms_count \in Nat
         /\ todo \subseteq Trips
         /\ aborts \in Nat /\ MaxPushes \in Nat /\ MaxSms \in Nat
  BY LifecycleAssumption DEF TypeInv, TypeOK, Row

(* A loaded copy has the row's values.                                     *)
LEMMA LoadedColumns ==
  ASSUME NEW row
  PROVE  /\ Written(NoRow, PollColumns, row).trip_status = row.trip_status
         /\ Written(NoRow, PollColumns, row).push_count = row.push_count
         /\ Written(NoRow, PollColumns, row).sms_count = row.sms_count
         /\ Written(NoRow, PollColumns, row).feedback_requested
              = row.feedback_requested
  BY DEF Written, PollColumns, Columns

(* A step of the agent that neither sends, nor commits, nor loses a tick.  *)
LEMMA BudgetQuiet ==
  ASSUME TypeInv, BudgetInv, UNCHANGED <<trip, sent, texts, aborts>>,
         pc # "commit", todo' \subseteq todo,
         \A t \in todo' : /\ mem'[t].push_count = mem[t].push_count
                          /\ mem'[t].sms_count = mem[t].sms_count
  PROVE  BudgetInv'
<1>1. \A t \in Trips : /\ sent[t] <= trip[t].push_count + aborts
                       /\ texts[t] <= trip[t].sms_count + aborts
  BY BudgetTypes DEF BudgetInv, Unsaved, Bit
<1>2. \A b : Bit(b) \in {0, 1}
  BY DEF Bit
<1>3. \A t \in Trips :
        /\ sent'[t] <= trip'[t].push_count + aborts' + Bit(Unsaved(t, "push_count"))'
        /\ texts'[t] <= trip'[t].sms_count + aborts' + Bit(Unsaved(t, "sms_count"))'
  BY <1>1, <1>2, BudgetTypes
<1>4. NotificationBudget'
  BY DEF BudgetInv, NotificationBudget
<1> QED
  BY <1>3, <1>4 DEF BudgetInv

(* The agent keeps it: a push is counted before the next is allowed.       *)
LEMMA BudgetPollStep ==
  ASSUME TypeInv, BudgetInv, PollStep
  PROVE  BudgetInv'
<1>0. \A b : Bit(b) \in {0, 1}
  BY DEF Bit
<1>1. CASE TickLoad
  <2>1. /\ pc = "sleep" /\ pc' = "next"
        /\ UNCHANGED <<trip, sent, texts, aborts>>
        /\ todo' \subseteq Trips
        /\ \A t \in todo' : mem'[t] = Written(NoRow, PollColumns, trip[t])
    BY <1>1 DEF TickLoad, ghosts
  <2>2. \A t \in todo' : /\ mem'[t].push_count = trip[t].push_count
                         /\ mem'[t].sms_count = trip[t].sms_count
    BY <2>1, LoadedColumns
  <2>3. \A t \in Trips : /\ sent[t] <= trip[t].push_count + aborts
                         /\ texts[t] <= trip[t].sms_count + aborts
    BY <2>1, BudgetTypes DEF BudgetInv, Unsaved, Bit
  <2>4. \A t \in Trips :
          /\ sent'[t] <= trip'[t].push_count + aborts' + Bit(Unsaved(t, "push_count"))'
          /\ texts'[t] <= trip'[t].sms_count + aborts' + Bit(Unsaved(t, "sms_count"))'
    BY <1>0, <2>1, <2>3, BudgetTypes
  <2>5. NotificationBudget'
    BY <2>1 DEF BudgetInv, NotificationBudget
  <2> QED
    BY <2>1, <2>2, <2>3, <2>4, <2>5 DEF BudgetInv
<1>2. CASE PickTrip \/ TickEnd \/ StayInPhase \/ RecomputeFails \/ NoSms
           \/ \E kind \in PushKinds : NoPush(kind)
  <2>1. /\ UNCHANGED <<trip, sent, texts, aborts, todo, mem>>
        /\ pc # "commit"
    BY <1>2, PointsAfterPush
    DEF PickTrip, TickEnd, StayInPhase, RecomputeFails, NoSms, NoPush, Goto,
        ghosts
  <2> QED
    BY <2>1, BudgetQuiet
<1>3. CASE FinishTrip
  <2>1. /\ UNCHANGED <<trip, sent, texts, aborts>> /\ pc # "commit"
        /\ todo' \subseteq todo
        /\ \A t \in todo' : mem'[t] = mem[t]
    BY <1>3 DEF FinishTrip, ghosts, TypeInv, TypeOK
  <2> QED
    BY <2>1, BudgetQuiet
<1>4. CASE TickAbort
  <2>1. /\ UNCHANGED <<trip, sent, texts>> /\ aborts' = aborts + 1
        /\ todo' = {}
    BY <1>4 DEF TickAbort, ghosts
  <2>2. \A t \in Trips :
          /\ sent[t] <= trip[t].push_count + aborts + 1
          /\ texts[t] <= trip[t].sms_count + aborts + 1
    BY <1>0, BudgetTypes DEF BudgetInv
  <2>3. \A t \in Trips :
          /\ sent'[t] <= trip'[t].push_count + aborts' + Bit(Unsaved(t, "push_count"))'
          /\ texts'[t] <= trip'[t].sms_count + aborts' + Bit(Unsaved(t, "sms_count"))'
    BY <1>0, <2>1, <2>2, BudgetTypes
  <2>4. NotificationBudget'
    BY <2>1, BudgetTypes DEF BudgetInv, NotificationBudget
  <2> QED
    BY <2>1, <2>3, <2>4 DEF BudgetInv
<1>5. CASE \E kind \in PushKinds : Push(kind)
  <2>1. PICK kind \in PushKinds : Push(kind)
    BY <1>5
  <2>2. pc \notin {"sleep", "next", "commit"}
    BY <2>1, PointsAfterPush DEF Push
  <2>3. cur \in Trips /\ cur \in todo /\ mem[cur] \in Row
    BY <2>2, CopyTypes
  <2> DEFINE new == [mem[cur] EXCEPT !.push_count = @ + 1]
  <2>4. /\ new.push_count = mem[cur].push_count + 1
        /\ new.sms_count = mem[cur].sms_count
        /\ Changed(mem[cur], new) = {"push_count"}
    BY <2>3, ChangedByAgent DEF Row
  <2>5. /\ mem' = [mem EXCEPT ![cur] = new]
        /\ dirty' = Changed(mem[cur], new) /\ pc' = "commit"
        /\ sent' = [sent EXCEPT ![cur] = @ + 1]
        /\ mem[cur].push_count < MaxPushes
        /\ UNCHANGED <<trip, cur, todo, texts, aborts>>
    BY <2>1 DEF Push, Assign, PushAllowed
  <2> HIDE DEF new
  <2>6. sent \in [Trips -> Nat] /\ mem \in [Trips -> Row]
    BY DEF TypeInv, TypeOK
  <2>7. sent'[cur] = sent[cur] + 1
        /\ \A t \in Trips : t # cur => sent'[t] = sent[t] /\ mem'[t] = mem[t]
    BY <2>3, <2>5, <2>6
  <2>8. mem'[cur] = new
    BY <2>3, <2>5, <2>6
  <2>9. \A t \in Trips : /\ sent[t] <= trip[t].push_count + aborts
                         /\ texts[t] <= trip[t].sms_count + aborts
    BY <2>2, BudgetTypes DEF BudgetInv, Unsaved, Bit
  <2>10. /\ Bit(Unsaved(cur, "push_count"))' = 1
    BY <2>4, <2>5 DEF Unsaved, Bit
  <2>11. \A t \in Trips :
          /\ sent'[t] <= trip'[t].push_count + aborts' + Bit(Unsaved(t, "push_count"))'
          /\ texts'[t] <= trip'[t].sms_count + aborts' + Bit(Unsaved(t, "sms_count"))'
    <3>1. ASSUME NEW t \in Trips
          PROVE  sent'[t] <= trip'[t].push_count + aborts'
                             + Bit(Unsaved(t, "push_count"))'
      <4>1. CASE t = cur
        BY <2>3, <2>5, <2>7, <2>9, <2>10, <4>1, BudgetTypes
      <4>2. CASE t # cur
        BY <1>0, <2>5, <2>7, <2>9, <4>2, BudgetTypes
      <4> QED
        BY <4>1, <4>2
    <3>2. ASSUME NEW t \in Trips
          PROVE  texts'[t] <= trip'[t].sms_count + aborts'
                              + Bit(Unsaved(t, "sms_count"))'
      BY <1>0, <2>5, <2>9, BudgetTypes
    <3> QED
      BY <3>1, <3>2
  <2>12. \A t \in todo' : /\ sent'[t] <= mem'[t].push_count + aborts'
                          /\ texts'[t] <= mem'[t].sms_count + aborts'
    BY <2>3, <2>4, <2>5, <2>7, <2>8, BudgetTypes DEF BudgetInv
  <2>13. NotificationBudget'
    BY <2>3, <2>5, <2>7, BudgetTypes DEF BudgetInv, NotificationBudget
  <2> QED
    BY <2>11, <2>12, <2>13 DEF BudgetInv
<1>6. CASE SendSms
  <2>2. pc \notin {"sleep", "next", "commit"}
    BY <1>6 DEF SendSms
  <2>3. cur \in Trips /\ cur \in todo /\ mem[cur] \in Row
    BY <2>2, CopyTypes
  <2> DEFINE new == [mem[cur] EXCEPT !.sms_count = @ + 1]
  <2>4. /\ new.sms_count = mem[cur].sms_count + 1
        /\ new.push_count = mem[cur].push_count
        /\ Changed(mem[cur], new) = {"sms_count"}
    BY <2>3, ChangedByAgent DEF Row
  <2>5. /\ mem' = [mem EXCEPT ![cur] = new]
        /\ dirty' = Changed(mem[cur], new) /\ pc' = "commit"
        /\ texts' = [texts EXCEPT ![cur] = @ + 1]
        /\ mem[cur].sms_count < MaxSms
        /\ UNCHANGED <<trip, cur, todo, sent, aborts>>
    BY <1>6 DEF SendSms, Assign, SmsAllowed
  <2> HIDE DEF new
  <2>6. texts \in [Trips -> Nat] /\ mem \in [Trips -> Row]
    BY DEF TypeInv, TypeOK
  <2>7. texts'[cur] = texts[cur] + 1
        /\ \A t \in Trips : t # cur => texts'[t] = texts[t] /\ mem'[t] = mem[t]
    BY <2>3, <2>5, <2>6
  <2>8. mem'[cur] = new
    BY <2>3, <2>5, <2>6
  <2>9. \A t \in Trips : /\ sent[t] <= trip[t].push_count + aborts
                         /\ texts[t] <= trip[t].sms_count + aborts
    BY <2>2, BudgetTypes DEF BudgetInv, Unsaved, Bit
  <2>10. Bit(Unsaved(cur, "sms_count"))' = 1
    BY <2>4, <2>5 DEF Unsaved, Bit
  <2>11. \A t \in Trips :
          /\ sent'[t] <= trip'[t].push_count + aborts' + Bit(Unsaved(t, "push_count"))'
          /\ texts'[t] <= trip'[t].sms_count + aborts' + Bit(Unsaved(t, "sms_count"))'
    <3>1. ASSUME NEW t \in Trips
          PROVE  texts'[t] <= trip'[t].sms_count + aborts'
                             + Bit(Unsaved(t, "sms_count"))'
      <4>1. CASE t = cur
        BY <2>3, <2>5, <2>7, <2>9, <2>10, <4>1, BudgetTypes
      <4>2. CASE t # cur
        BY <1>0, <2>5, <2>7, <2>9, <4>2, BudgetTypes
      <4> QED
        BY <4>1, <4>2
    <3>2. ASSUME NEW t \in Trips
          PROVE  sent'[t] <= trip'[t].push_count + aborts'
                              + Bit(Unsaved(t, "push_count"))'
      BY <1>0, <2>5, <2>9, BudgetTypes
    <3> QED
      BY <3>1, <3>2
  <2>12. \A t \in todo' : /\ sent'[t] <= mem'[t].push_count + aborts'
                          /\ texts'[t] <= mem'[t].sms_count + aborts'
    BY <2>3, <2>4, <2>5, <2>7, <2>8, BudgetTypes DEF BudgetInv
  <2>13. NotificationBudget'
    BY <2>3, <2>5, <2>7, BudgetTypes DEF BudgetInv, NotificationBudget
  <2> QED
    BY <2>11, <2>12, <2>13 DEF BudgetInv
<1>7. CASE Advance \/ MarkFeedback \/ MarkTimeToGo \/ Recompute
  <2>1. /\ pc \notin {"sleep", "next", "commit"}
        /\ UNCHANGED <<trip, sent, texts, aborts, todo>>
    BY <1>7 DEF Advance, MarkFeedback, MarkTimeToGo, Recompute, ghosts
  <2>2. cur \in Trips /\ mem \in [Trips -> Row] /\ mem[cur] \in Row
    BY <2>1, CopyTypes DEF TypeInv, TypeOK
  <2>3. mem' = mem \/ \E new :
          /\ mem' = [mem EXCEPT ![cur] = new]
          /\ new.push_count = mem[cur].push_count
          /\ new.sms_count = mem[cur].sms_count
    <3> DEFINE row == mem[cur]
    <3>1. row \in Row
      BY <2>2
    <3>2. \/ \E s : mem' = [mem EXCEPT ![cur] =
                              [row EXCEPT !.status = s, !.trip_status = s]]
          \/ mem' = [mem EXCEPT ![cur] = [row EXCEPT !.feedback_requested = TRUE]]
          \/ mem' = [mem EXCEPT ![cur] = [row EXCEPT !.time_to_go = TRUE]]
          \/ mem' = [mem EXCEPT ![cur] = [row EXCEPT !.projected_timeline = TRUE]]
          \/ mem' = mem
      BY <1>7 DEF Advance, MarkFeedback, MarkTimeToGo, Recompute, Assign, Goto
    <3> HIDE DEF row
    <3>3. \A s : LET new == [row EXCEPT !.status = s, !.trip_status = s]
                 IN new.push_count = row.push_count
                    /\ new.sms_count = row.sms_count
      BY <3>1 DEF Row
    <3>4. LET new == [row EXCEPT !.feedback_requested = TRUE]
          IN new.push_count = row.push_count /\ new.sms_count = row.sms_count
      BY <3>1 DEF Row
    <3>5. LET new == [row EXCEPT !.time_to_go = TRUE]
          IN new.push_count = row.push_count /\ new.sms_count = row.sms_count
      BY <3>1 DEF Row
    <3>6. LET new == [row EXCEPT !.projected_timeline = TRUE]
          IN new.push_count = row.push_count /\ new.sms_count = row.sms_count
      BY <3>1 DEF Row
    <3>7. CASE \E s : mem' = [mem EXCEPT ![cur] =
                               [row EXCEPT !.status = s, !.trip_status = s]]
      <4>1. PICK s : mem' = [mem EXCEPT ![cur] =
                               [row EXCEPT !.status = s, !.trip_status = s]]
        BY <3>7
      <4> DEFINE new == [row EXCEPT !.status = s, !.trip_status = s]
      <4>2. /\ new.push_count = row.push_count
            /\ new.sms_count = row.sms_count
        BY <3>3
      <4>3. mem' = [mem EXCEPT ![cur] = new]
        BY <4>1
      <4> HIDE DEF new
      <4> QED
        BY <4>2, <4>3 DEF row
    <3>8. CASE mem' = [mem EXCEPT ![cur] =
                         [row EXCEPT !.feedback_requested = TRUE]]
      BY <3>4, <3>8 DEF row
    <3>9. CASE mem' = [mem EXCEPT ![cur] = [row EXCEPT !.time_to_go = TRUE]]
      BY <3>5, <3>9 DEF row
    <3>10. CASE mem' = [mem EXCEPT ![cur] =
                          [row EXCEPT !.projected_timeline = TRUE]]
      BY <3>6, <3>10 DEF row
    <3> QED
      BY <3>2, <3>7, <3>8, <3>9, <3>10
  <2>4. \A t \in Trips : /\ mem'[t].push_count = mem[t].push_count
                         /\ mem'[t].sms_count = mem[t].sms_count
    BY <2>2, <2>3
  <2>5. todo \subseteq Trips
    BY BudgetTypes
  <2> QED
    BY <2>1, <2>4, <2>5, BudgetQuiet
<1>8. CASE PollCommit
  <2>1. pc = "commit" /\ cur \in Trips /\ cur \in todo
    BY <1>8, CopyTypes DEF PollCommit
  <2> DEFINE w == Written(trip[cur], dirty, mem[cur])
  <2>2. /\ trip' = [trip EXCEPT ![cur] = w]
        /\ UNCHANGED <<sent, texts, aborts, todo, mem>>
    BY <1>8 DEF PollCommit, ghosts
  <2>3. /\ w.push_count = IF "push_count" \in dirty
                          THEN mem[cur].push_count ELSE trip[cur].push_count
        /\ w.sms_count = IF "sms_count" \in dirty
                         THEN mem[cur].sms_count ELSE trip[cur].sms_count
    BY DEF Written
  <2> HIDE DEF w
  <2>4. trip \in [Trips -> Row]
    BY DEF TypeInv, TypeOK
  <2>5. \A t \in Trips : t # cur =>
          /\ trip'[t] = trip[t]
          /\ sent[t] <= trip[t].push_count + aborts
          /\ texts[t] <= trip[t].sms_count + aborts
    BY <2>2, <2>4, BudgetTypes DEF BudgetInv, Unsaved, Bit
  <2>6. trip'[cur] = w
    BY <2>1, <2>2, <2>4
  <2>7. sent[cur] <= w.push_count + aborts
    <3>1. CASE "push_count" \in dirty
      BY <2>1, <2>3, <3>1 DEF BudgetInv
    <3>2. CASE "push_count" \notin dirty
      <4>1. Bit(Unsaved(cur, "push_count")) = 0
        BY <3>2 DEF Unsaved, Bit
      <4> QED
        BY <2>1, <2>3, <3>2, <4>1, BudgetTypes DEF BudgetInv
    <3> QED
      BY <3>1, <3>2
  <2>8. texts[cur] <= w.sms_count + aborts
    <3>1. CASE "sms_count" \in dirty
      BY <2>1, <2>3, <3>1 DEF BudgetInv
    <3>2. CASE "sms_count" \notin dirty
      <4>1. Bit(Unsaved(cur, "sms_count")) = 0
        BY <3>2 DEF Unsaved, Bit
      <4> QED
        BY <2>1, <2>3, <3>2, <4>1, BudgetTypes DEF BudgetInv
    <3> QED
      BY <3>1, <3>2
  <2>9. \A t \in Trips :
          /\ trip'[t].push_count \in Nat /\ trip'[t].sms_count \in Nat
          /\ sent[t] <= trip'[t].push_count + aborts
          /\ texts[t] <= trip'[t].sms_count + aborts
    BY <2>1, <2>3, <2>5, <2>6, <2>7, <2>8, BudgetTypes
  <2>10. \A t \in Trips :
          /\ sent'[t] <= trip'[t].push_count + aborts' + Bit(Unsaved(t, "push_count"))'
          /\ texts'[t] <= trip'[t].sms_count + aborts' + Bit(Unsaved(t, "sms_count"))'
    BY <1>0, <2>2, <2>9, BudgetTypes
  <2>11. NotificationBudget'
    BY <2>2 DEF BudgetInv, NotificationBudget
  <2> QED
    BY <2>2, <2>10, <2>11 DEF BudgetInv
<1> QED
  BY <1>1, <1>2, <1>3, <1>4, <1>5, <1>6, <1>7, <1>8 DEF PollStep

(* Nothing has been sent.                                                  *)
LEMMA BudgetInit == Init => BudgetInv
<1> SUFFICES ASSUME Init PROVE BudgetInv
  OBVIOUS
<1>1. NoRow.push_count = 0 /\ NoRow.sms_count = 0
  BY DEF NoRow
<1>2. \A b : Bit(b) \in {0, 1}
  BY DEF Bit
<1>3. MaxPushes \in Nat /\ MaxSms \in Nat
  BY LifecycleAssumption
<1>4. \A t \in Trips :
        /\ sent[t] <= trip[t].push_count + aborts + Bit(Unsaved(t, "push_count"))
        /\ texts[t] <= trip[t].sms_count + aborts + Bit(Unsaved(t, "sms_count"))
  BY <1>1, <1>2 DEF Init
<1>5. NotificationBudget
  BY <1>3 DEF Init, NotificationBudget
<1>6. todo = {}
  BY DEF Init
<1> QED
  BY <1>4, <1>5, <1>6 DEF BudgetInv

(* Every step keeps the budget.                                            *)
LEMMA BudgetStep ==
  TypeInv /\ DualInv /\ BudgetInv /\ [Next]_vars => BudgetInv'
<1> SUFFICES ASSUME TypeInv, DualInv, BudgetInv, [Next]_vars PROVE BudgetInv'
  OBVIOUS
<1>1. CASE UNCHANGED vars
  BY <1>1 DEF vars, pollVars, ghosts, BudgetInv, NotificationBudget, Unsaved,
              Bit
<1> QED
  BY <1>1, BudgetOutside, BudgetPollStep DEF Next

(* A phone gets at most MaxPushes pushes and MaxSms SMS between two        *)
(* untracks of a trip, plus one for each lost tick, whatever requests      *)
(* overlap with the agent.                                                 *)
THEOREM BudgetHolds == Spec => []NotificationBudget
<1>1. BudgetInv => NotificationBudget
  BY DEF BudgetInv
<1> QED
  BY <1>1, TypeInit, TypeStep, DualInit, DualStep, BudgetInit, BudgetStep, PTL
  DEF Spec

-----------------------------------------------------------------------------
(* The feedback request.                                                   *)

(* Where the agent is or will be once its commit is done.                  *)
Point == IF pc = "commit" THEN then ELSE pc

(* The request may be out and its mark not yet in the row.                 *)
Asking(t) ==
  /\ cur = t
  /\ Point = "mark_feedback" \/ (pc = "commit" /\ "feedback_requested" \in dirty)

FeedbackInv ==
  /\ \A t \in Trips :
       asked[t] <= Bit(trip[t].feedback_requested) + aborts + Bit(Asking(t))
  /\ \A t \in todo :
       asked[t] <= Bit(mem[t].feedback_requested) + aborts + Bit(Asking(t))
  /\ FeedbackOnce
  /\ Point \in {"post_trip", "mark_feedback"} => ~ mem[cur].feedback_requested
  /\ pc = "commit" /\ "feedback_requested" \in dirty
       => mem[cur].feedback_requested

(* A truth value as a number.                                              *)
LEMMA BitValues ==
  /\ \A b : Bit(b) \in {0, 1}
  /\ Bit(TRUE) = 1 /\ Bit(FALSE) = 0
  BY DEF Bit

(* The types the feedback count needs.                                     *)
LEMMA FeedbackTypes ==
  ASSUME TypeInv
  PROVE  /\ \A t \in Trips : /\ asked[t] \in Nat
                             /\ trip[t].feedback_requested \in BOOLEAN
                             /\ mem[t].feedback_requested \in BOOLEAN
         /\ todo \subseteq Trips /\ aborts \in Nat
  BY LifecycleAssumption DEF TypeInv, TypeOK, Row

(* Which steps change the feedback mark.                                   *)
LEMMA ChangedFeedback ==
  ASSUME NEW old, NEW new
  PROVE  "feedback_requested" \in Changed(old, new)
           <=> old.feedback_requested # new.feedback_requested
  BY DEF Changed, Columns

(* A step of the agent outside a commit that asks nothing and marks        *)
(* nothing.                                                                *)
LEMMA FeedbackQuiet ==
  ASSUME TypeInv, FeedbackInv, UNCHANGED <<trip, asked, aborts>>,
         pc \notin {"commit", "mark_feedback"}, todo' \subseteq todo,
         \A t \in todo' : mem'[t].feedback_requested = mem[t].feedback_requested,
         Point' \in {"post_trip", "mark_feedback"}
           => ~ mem'[cur'].feedback_requested,
         ~ (pc' = "commit" /\ "feedback_requested" \in dirty')
  PROVE  FeedbackInv'
<1>1. \A t : Bit(Asking(t)) = 0
  BY DEF Asking, Point, Bit
<1>2. /\ \A t \in Trips : asked[t] <= Bit(trip[t].feedback_requested) + aborts
      /\ \A t \in todo : asked[t] <= Bit(mem[t].feedback_requested) + aborts
  BY <1>1, BitValues, FeedbackTypes DEF FeedbackInv
<1>3. \A t \in Trips : asked'[t] <= Bit(trip[t].feedback_requested)' + aborts'
                                    + Bit(Asking(t))'
  BY <1>2, BitValues, FeedbackTypes
<1>4. \A t \in todo' : Bit(mem[t].feedback_requested)'
                       = Bit(mem[t].feedback_requested)
  BY DEF Bit
<1>5. \A t \in todo' : asked'[t] <= Bit(mem[t].feedback_requested)' + aborts'
                                    + Bit(Asking(t))'
  BY <1>2, <1>4, BitValues, FeedbackTypes
<1>6. FeedbackOnce'
  BY DEF FeedbackInv, FeedbackOnce
<1> QED
  BY <1>3, <1>5, <1>6 DEF FeedbackInv

(* Requests never ask for feedback; an untrack forgets that it was.        *)
LEMMA FeedbackOutside ==
  ASSUME TypeInv, DualInv, FeedbackInv,
         \/ \E s \in Trips : PostTrip(s)
         \/ \E r \in Requests : RequestStep(r)
  PROVE  FeedbackInv'
<1>1. UNCHANGED <<pollVars, aborts>>
  <2>1. ASSUME NEW s \in Trips, PostTrip(s) PROVE UNCHANGED <<pollVars, aborts>>
    BY <2>1 DEF PostTrip
  <2>2. ASSUME NEW r \in Requests, RequestStep(r)
        PROVE  UNCHANGED <<pollVars, aborts>>
    BY <2>2 DEF RequestStep, Authenticate, ReadTrack, ReadUntrack, ReadUpdate,
                Reject, Commit, Fail
  <2> QED
    BY <2>1, <2>2
<1>2. ASSUME NEW t \in Trips
      PROVE  \/ asked'[t] = 0
             \/ /\ asked'[t] = asked[t]
                /\ trip'[t].feedback_requested = trip[t].feedback_requested
  BY RequestEffect, PostEffect DEF ghosts
<1>3. \A t : Bit(Asking(t))' = Bit(Asking(t))
  BY <1>1 DEF Asking, Point, Bit, pollVars
<1>4. \A t \in Trips :
        \/ asked'[t] = 0
        \/ /\ asked'[t] = asked[t]
           /\ Bit(trip[t].feedback_requested)' = Bit(trip[t].feedback_requested)
  BY <1>2 DEF Bit
<1>5. /\ \A t : Bit(trip[t].feedback_requested)' \in {0, 1}
      /\ \A t : Bit(mem[t].feedback_requested) \in {0, 1}
      /\ \A t : Bit(Asking(t)) \in {0, 1}
  BY DEF Bit
<1>6. \A t \in Trips : asked'[t] <= Bit(trip[t].feedback_requested)' + aborts'
                                    + Bit(Asking(t))'
  BY <1>1, <1>3, <1>4, <1>5, FeedbackTypes DEF FeedbackInv
<1>7. \A t : Bit(mem[t].feedback_requested)' = Bit(mem[t].feedback_requested)
  BY <1>1 DEF Bit, pollVars
<1>8. \A t \in todo' : asked'[t] <= Bit(mem[t].feedback_requested)' + aborts'
                                    + Bit(Asking(t))'
  BY <1>1, <1>3, <1>4, <1>5, <1>7, FeedbackTypes DEF FeedbackInv, pollVars
<1>9. FeedbackOnce'
  BY <1>1, <1>2, FeedbackTypes DEF FeedbackInv, FeedbackOnce
<1> QED
  BY <1>1, <1>6, <1>8, <1>9 DEF FeedbackInv, Point, pollVars

(* The agent asks once per mark.                                           *)
LEMMA FeedbackPollStep ==
  ASSUME TypeInv, FeedbackInv, PollStep
  PROVE  FeedbackInv'
<1>1. CASE TickLoad
  <2>1. /\ pc = "sleep" /\ pc' = "next"
        /\ UNCHANGED <<trip, asked, aborts>>
        /\ todo' \subseteq Trips
        /\ \A t \in todo' : mem'[t] = Written(NoRow, PollColumns, trip[t])
    BY <1>1 DEF TickLoad, ghosts
  <2>2. \A t \in todo' : Bit(mem[t].feedback_requested)'
                         = Bit(trip[t].feedback_requested)
    BY <2>1, LoadedColumns DEF Bit
  <2>3. \A t : Bit(Asking(t)) = 0
    BY <2>1 DEF Asking, Point, Bit
  <2>4. \A t \in Trips : asked[t] <= Bit(trip[t].feedback_requested) + aborts
    BY <2>3, BitValues, FeedbackTypes DEF FeedbackInv
  <2>5. \A t \in Trips : asked'[t] <= Bit(trip[t].feedback_requested)' + aborts'
                                      + Bit(Asking(t))'
    BY <2>1, <2>4, BitValues, FeedbackTypes
  <2>6. \A t \in todo' : asked'[t] <= Bit(mem[t].feedback_requested)' + aborts'
                                      + Bit(Asking(t))'
    BY <2>1, <2>2, <2>4, BitValues, FeedbackTypes
  <2>7. FeedbackOnce'
    BY <2>1 DEF FeedbackInv, FeedbackOnce
  <2>8. Point' = "next"
    BY <2>1 DEF Point
  <2> QED
    BY <2>1, <2>5, <2>6, <2>7, <2>8 DEF FeedbackInv
<1>2. CASE PickTrip \/ TickEnd \/ StayInPhase \/ RecomputeFails \/ NoSms
  <2>1. /\ UNCHANGED <<trip, asked, aborts, todo, mem>>
        /\ pc \in {"next", "advance", "recompute", "escalate"}
        /\ pc' \in {"cancellation", "sleep", "recompute", "done"}
    BY <1>2 DEF PickTrip, TickEnd, StayInPhase, RecomputeFails, NoSms, Goto,
                ghosts
  <2>2. Point' = pc'
    BY <2>1 DEF Point
  <2> QED
    BY <2>1, <2>2, FeedbackQuiet
<1>3. ASSUME NEW kind \in PushKinds, NoPush(kind)
      PROVE  FeedbackInv'
  <2>1. /\ UNCHANGED <<trip, asked, aborts, todo, mem, cur>>
        /\ pc = kind /\ pc' = AfterNoPush(kind)
    BY <1>3 DEF NoPush, Goto, ghosts
  <2>2. /\ pc \notin {"commit", "mark_feedback"}
        /\ pc' \notin {"commit", "post_trip"}
        /\ pc' = "mark_feedback" => pc = "post_trip"
    BY <2>1 DEF AfterNoPush, PushKinds
  <2>3. Point = pc /\ Point' = pc'
    BY <2>2 DEF Point
  <2>4. Point' \in {"post_trip", "mark_feedback"}
          => ~ mem'[cur'].feedback_requested
    BY <2>1, <2>2, <2>3 DEF FeedbackInv
  <2> QED
    BY <2>1, <2>2, <2>4, FeedbackQuiet
<1>4. CASE FinishTrip
  <2>1. /\ UNCHANGED <<trip, asked, aborts>> /\ pc = "done" /\ pc' = "next"
        /\ todo' \subseteq todo
        /\ \A t \in todo' : mem'[t] = mem[t]
    BY <1>4 DEF FinishTrip, ghosts, TypeInv, TypeOK
  <2>2. Point' = "next"
    BY <2>1 DEF Point
  <2> QED
    BY <2>1, <2>2, FeedbackQuiet
<1>5. CASE TickAbort
  <2>1. /\ UNCHANGED <<trip, asked>> /\ aborts' = aborts + 1
        /\ todo' = {} /\ pc' = "sleep"
    BY <1>5 DEF TickAbort, ghosts
  <2>2. \A t \in Trips :
          asked[t] <= Bit(trip[t].feedback_requested) + aborts + 1
    BY BitValues, FeedbackTypes DEF FeedbackInv
  <2>3. \A t \in Trips : asked'[t] <= Bit(trip[t].feedback_requested)' + aborts'
                                      + Bit(Asking(t))'
    BY <2>1, <2>2, BitValues, FeedbackTypes
  <2>4. FeedbackOnce'
    BY <2>1, FeedbackTypes DEF FeedbackInv, FeedbackOnce
  <2>5. Point' = "sleep"
    BY <2>1 DEF Point
  <2> QED
    BY <2>1, <2>3, <2>4, <2>5 DEF FeedbackInv
<1>6. ASSUME NEW new, NEW label, Assign(new, label),
             pc \notin {"sleep", "next", "commit", "mark_feedback"},
             UNCHANGED <<trip, cur, todo, asked, aborts>>,
             new.feedback_requested = mem[cur].feedback_requested,
             label # "mark_feedback",
             label = "post_trip" => ~ new.feedback_requested
      PROVE  FeedbackInv'
  <2>1. cur \in Trips /\ mem \in [Trips -> Row] /\ todo \subseteq Trips
    BY <1>6, CopyTypes DEF TypeInv, TypeOK
  <2>2. mem'[cur] = new /\ \A t \in Trips : t # cur => mem'[t] = mem[t]
    BY <1>6, <2>1 DEF Assign
  <2>3. \A t \in todo' : mem'[t].feedback_requested = mem[t].feedback_requested
    BY <1>6, <2>1, <2>2
  <2>4. "feedback_requested" \notin dirty' /\ Point' = label
    BY <1>6, ChangedFeedback DEF Assign, Point
  <2> QED
    BY <1>6, <2>2, <2>3, <2>4, FeedbackQuiet
<1>7. ASSUME NEW kind \in PushKinds, Push(kind)
      PROVE  FeedbackInv'
  <2> DEFINE new == [mem[cur] EXCEPT !.push_count = @ + 1]
  <2>1. pc = kind /\ pc \notin {"sleep", "next", "commit", "mark_feedback"}
    BY <1>7 DEF Push, PushKinds
  <2>2. cur \in Trips /\ cur \in todo /\ mem[cur] \in Row
    BY <2>1, CopyTypes
  <2>3. new.feedback_requested = mem[cur].feedback_requested
    BY <2>2 DEF Row
  <2>4. /\ Assign(new, AfterPush(kind, mem[cur]))
        /\ UNCHANGED <<trip, cur, todo, aborts>>
    BY <1>7 DEF Push
  <2> HIDE DEF new
  <2>5. CASE kind # "post_trip"
    <3>1. /\ AfterPush(kind, mem[cur]) # "mark_feedback"
          /\ AfterPush(kind, mem[cur]) # "post_trip"
      BY <2>5 DEF AfterPush, AfterNoPush, PushKinds
    <3>2. asked' = asked
      BY <1>7, <2>5 DEF Push
    <3> QED
      BY <1>6, <2>1, <2>3, <2>4, <3>1, <3>2
  <2>6. CASE kind = "post_trip"
    <3>1. AfterPush(kind, mem[cur]) = "mark_feedback"
      BY <2>6 DEF AfterPush, AfterNoPush
    <3>2. /\ mem' = [mem EXCEPT ![cur] = new] /\ pc' = "commit"
          /\ then' = "mark_feedback" /\ dirty' = Changed(mem[cur], new)
      BY <2>4, <3>1 DEF Assign
    <3>3. /\ mem \in [Trips -> Row] /\ asked \in [Trips -> Nat]
          /\ todo \subseteq Trips
      BY DEF TypeInv, TypeOK
    <3>4. /\ asked'[cur] = asked[cur] + 1
          /\ \A t \in Trips : t # cur => asked'[t] = asked[t]
      BY <1>7, <2>2, <2>6, <3>3 DEF Push
    <3>5. mem'[cur] = new /\ \A t \in Trips : t # cur => mem'[t] = mem[t]
      BY <2>2, <3>2, <3>3
    <3>6. ~ mem[cur].feedback_requested /\ \A t : Bit(Asking(t)) = 0
      BY <2>1, <2>6 DEF FeedbackInv, Point, Asking, Bit
    <3>7. \A t \in Trips : asked[t] <= Bit(trip[t].feedback_requested) + aborts
      BY <3>6, BitValues, FeedbackTypes DEF FeedbackInv
    <3>8. asked[cur] <= aborts
      <4>1. Bit(mem[cur].feedback_requested) = 0 /\ Bit(Asking(cur)) = 0
        BY <3>6 DEF Bit
      <4> QED
        BY <2>2, <4>1, FeedbackTypes DEF FeedbackInv
    <3>9. Point' = "mark_feedback" /\ Bit(Asking(cur))' = 1
      BY <2>4, <3>2 DEF Point, Asking, Bit
    <3>10. \A t \in Trips : asked'[t] <= Bit(trip[t].feedback_requested)'
                                         + aborts' + Bit(Asking(t))'
      <4>1. asked'[cur] <= Bit(trip[cur].feedback_requested)' + aborts' + 1
        BY <2>2, <2>4, <3>4, <3>7, BitValues, FeedbackTypes
      <4>2. ASSUME NEW t \in Trips, t # cur
            PROVE  asked'[t] <= Bit(trip[t].feedback_requested)' + aborts'
                                + Bit(Asking(t))'
        BY <2>4, <3>4, <3>7, <4>2, BitValues, FeedbackTypes
      <4> QED
        BY <2>4, <3>9, <4>1, <4>2
    <3>11. \A t \in todo' : asked'[t] <= Bit(mem[t].feedback_requested)'
                                         + aborts' + Bit(Asking(t))'
      <4>1. asked'[cur] <= Bit(mem[cur].feedback_requested)' + aborts' + 1
        BY <2>2, <2>4, <3>4, <3>8, BitValues, FeedbackTypes
      <4>2. ASSUME NEW t \in todo, t # cur
            PROVE  asked'[t] <= Bit(mem[t].feedback_requested)' + aborts'
                                + Bit(Asking(t))'
        <5>1. asked[t] <= Bit(mem[t].feedback_requested) + aborts
          BY <3>6, BitValues, FeedbackTypes DEF FeedbackInv
        <5>2. Bit(mem[t].feedback_requested)' = Bit(mem[t].feedback_requested)
          BY <3>3, <3>5, <4>2 DEF Bit
        <5> QED
          BY <2>4, <3>3, <3>4, <4>2, <5>1, <5>2, BitValues, FeedbackTypes
      <4> QED
        BY <2>4, <3>9, <4>1, <4>2
    <3>12. FeedbackOnce'
      BY <2>4, <3>4, <3>8, FeedbackTypes DEF FeedbackInv, FeedbackOnce
    <3>13. /\ ~ mem'[cur'].feedback_requested
           /\ "feedback_requested" \notin dirty'
      BY <2>3, <2>4, <3>2, <3>5, <3>6, ChangedFeedback
    <3> QED
      BY <3>10, <3>11, <3>12, <3>13 DEF FeedbackInv
  <2> QED
    BY <2>5, <2>6
<1>8. CASE Advance
  <2>1. /\ pc = "advance" /\ UNCHANGED <<trip, cur, todo, asked, aborts>>
        /\ mem[cur] \in Row
    BY <1>8, CopyTypes DEF Advance, ghosts
  <2>2. PICK to \in Statuses :
          Assign([mem[cur] EXCEPT !.status = to, !.trip_status = to],
                 IF to = "complete" /\ ~ mem[cur].feedback_requested
                 THEN "post_trip" ELSE "done")
    BY <1>8, StatusSets DEF Advance
  <2> DEFINE new == [mem[cur] EXCEPT !.status = to, !.trip_status = to]
  <2>3. new.feedback_requested = mem[cur].feedback_requested
    BY <2>1 DEF Row
  <2> HIDE DEF new
  <2>4. PICK label : /\ Assign(new, label) /\ label # "mark_feedback"
                     /\ label = "post_trip" => ~ mem[cur].feedback_requested
    BY <2>2 DEF new
  <2> QED
    BY <1>6, <2>1, <2>3, <2>4
<1>9. CASE MarkTimeToGo
  <2>1. /\ pc = "mark_time_to_go" /\ mem[cur] \in Row
        /\ Assign([mem[cur] EXCEPT !.time_to_go = TRUE], "done")
        /\ UNCHANGED <<trip, cur, todo, asked, aborts>>
    BY <1>9, CopyTypes DEF MarkTimeToGo, ghosts
  <2>2. [mem[cur] EXCEPT !.time_to_go = TRUE].feedback_requested
          = mem[cur].feedback_requested
    BY <2>1 DEF Row
  <2> QED
    BY <1>6, <2>1, <2>2
<1>10. CASE SendSms
  <2>1. /\ pc = "escalate" /\ mem[cur] \in Row
        /\ Assign([mem[cur] EXCEPT !.sms_count = @ + 1], "done")
        /\ UNCHANGED <<trip, cur, todo, asked, aborts>>
    BY <1>10, CopyTypes DEF SendSms
  <2>2. [mem[cur] EXCEPT !.sms_count = @ + 1].feedback_requested
          = mem[cur].feedback_requested
    BY <2>1 DEF Row
  <2> QED
    BY <1>6, <2>1, <2>2
<1>11. CASE Recompute
  <2>1. /\ pc = "recompute" /\ UNCHANGED <<trip, cur, todo, asked, aborts>>
        /\ Point' = "leave_by_shift"
        /\ pc' = "commit" => dirty' = {"projected_timeline"}
    BY <1>11 DEF Recompute, Goto, Point, ghosts
  <2>2. cur \in Trips /\ mem \in [Trips -> Row] /\ todo \subseteq Trips
        /\ mem[cur] \in Row
    BY <2>1, CopyTypes DEF TypeInv, TypeOK
  <2>3. [mem[cur] EXCEPT !.projected_timeline = TRUE].feedback_requested
          = mem[cur].feedback_requested
    BY <2>2 DEF Row
  <2>4. \/ mem' = mem
        \/ mem' = [mem EXCEPT ![cur] = [mem[cur] EXCEPT !.projected_timeline = TRUE]]
    BY <1>11 DEF Recompute, Goto
  <2>5. \A t \in todo' : mem'[t].feedback_requested = mem[t].feedback_requested
    BY <2>1, <2>2, <2>3, <2>4
  <2> QED
    BY <2>1, <2>5, FeedbackQuiet
<1>12. CASE MarkFeedback
  <2> DEFINE new == [mem[cur] EXCEPT !.feedback_requested = TRUE]
  <2>1. /\ pc = "mark_feedback" /\ UNCHANGED <<trip, cur, todo, asked, aborts>>
        /\ cur \in Trips /\ mem[cur] \in Row
        /\ mem \in [Trips -> Row] /\ todo \subseteq Trips
    BY <1>12, CopyTypes DEF MarkFeedback, ghosts, TypeInv, TypeOK
  <2>2. new.feedback_requested = TRUE
    BY <2>1 DEF Row
  <2>3. /\ mem' = [mem EXCEPT ![cur] = new] /\ pc' = "commit"
        /\ then' = "done" /\ dirty' = Changed(mem[cur], new)
    BY <1>12 DEF MarkFeedback, Assign
  <2> HIDE DEF new
  <2>4. ~ mem[cur].feedback_requested
    BY <2>1 DEF FeedbackInv, Point
  <2>5. "feedback_requested" \in dirty' /\ Point' = "done"
    BY <2>2, <2>3, <2>4, ChangedFeedback DEF Point
  <2>6. mem'[cur] = new /\ \A t \in Trips : t # cur => mem'[t] = mem[t]
    BY <2>1, <2>3
  <2>7. \A t : Asking(t)' <=> Asking(t)
    BY <2>1, <2>3, <2>5 DEF Asking, Point
  <2>8. \A t : Bit(Asking(t))' = Bit(Asking(t))
    BY <2>7 DEF Bit
  <2>9. \A t \in Trips : asked'[t] <= Bit(trip[t].feedback_requested)'
                                      + aborts' + Bit(Asking(t))'
    BY <2>1, <2>8 DEF FeedbackInv
  <2>10. \A t \in todo' : asked'[t] <= Bit(mem[t].feedback_requested)'
                                       + aborts' + Bit(Asking(t))'
    <3>1. asked[cur] <= 1 + aborts
      BY <2>1 DEF FeedbackInv, FeedbackOnce
    <3>2. Bit(mem[cur].feedback_requested)' = 1
      BY <2>1, <2>2, <2>6 DEF Bit
    <3>3. asked'[cur] <= Bit(mem[cur].feedback_requested)' + aborts'
                         + Bit(Asking(cur))'
      BY <2>1, <3>1, <3>2, BitValues, FeedbackTypes
    <3>4. \A t \in todo : t # cur => Bit(mem[t].feedback_requested)'
                                     = Bit(mem[t].feedback_requested)
      BY <2>1, <2>6 DEF Bit
    <3> QED
      BY <2>1, <2>8, <3>3, <3>4 DEF FeedbackInv
  <2>11. FeedbackOnce'
    BY <2>1 DEF FeedbackInv, FeedbackOnce
  <2> QED
    BY <2>1, <2>2, <2>5, <2>6, <2>9, <2>10, <2>11 DEF FeedbackInv
<1>13. CASE PollCommit
  <2> DEFINE w == Written(trip[cur], dirty, mem[cur])
  <2>1. /\ pc = "commit" /\ cur \in Trips /\ cur \in todo
        /\ UNCHANGED <<cur, todo, mem, asked, aborts>>
        /\ trip' = [trip EXCEPT ![cur] = w]
        /\ pc' = then /\ then # "commit" /\ trip \in [Trips -> Row]
    BY <1>13, CopyTypes DEF PollCommit, ghosts, TypeInv, TypeOK, ControlOK
  <2>2. w.feedback_requested = IF "feedback_requested" \in dirty
                               THEN mem[cur].feedback_requested
                               ELSE trip[cur].feedback_requested
    BY DEF Written
  <2> HIDE DEF w
  <2>3. trip'[cur] = w /\ \A t \in Trips : t # cur => trip'[t] = trip[t]
    BY <2>1
  <2>4. Point' = Point
    BY <2>1 DEF Point
  <2>5. \A t : t # cur => Asking(t)' = Asking(t)
    BY <2>1 DEF Asking
  <2>6. CASE "feedback_requested" \in dirty
    <3>1. /\ mem[cur].feedback_requested /\ w.feedback_requested
      BY <2>1, <2>2, <2>6 DEF FeedbackInv
    <3>2. /\ Bit(mem[cur].feedback_requested)' = 1
          /\ Bit(trip[cur].feedback_requested)' = 1
      BY <2>1, <2>3, <3>1 DEF Bit
    <3>3. asked'[cur] <= 1 + aborts'
      BY <2>1 DEF FeedbackInv, FeedbackOnce
    <3>4. \A t : t # cur => Bit(Asking(t))' = Bit(Asking(t))
      BY <2>5 DEF Bit
    <3>5. \A t \in Trips : t # cur => Bit(trip[t].feedback_requested)'
                                      = Bit(trip[t].feedback_requested)
      BY <2>3 DEF Bit
    <3>6. \A t : Bit(mem[t].feedback_requested)' = Bit(mem[t].feedback_requested)
      BY <2>1 DEF Bit
    <3>7. \A t \in Trips : asked'[t] <= Bit(trip[t].feedback_requested)'
                                        + aborts' + Bit(Asking(t))'
      <4>1. asked'[cur] <= Bit(trip[cur].feedback_requested)' + aborts'
                           + Bit(Asking(cur))'
        BY <2>1, <3>2, <3>3, BitValues, FeedbackTypes
      <4> QED
        BY <2>1, <3>4, <3>5, <4>1 DEF FeedbackInv
    <3>8. \A t \in todo' : asked'[t] <= Bit(mem[t].feedback_requested)'
                                        + aborts' + Bit(Asking(t))'
      <4>1. asked'[cur] <= Bit(mem[cur].feedback_requested)' + aborts'
                           + Bit(Asking(cur))'
        BY <2>1, <3>2, <3>3, BitValues, FeedbackTypes
      <4> QED
        BY <2>1, <3>4, <3>6, <4>1 DEF FeedbackInv
    <3>9. FeedbackOnce'
      BY <2>1 DEF FeedbackInv, FeedbackOnce
    <3> QED
      BY <2>1, <2>4, <3>7, <3>8, <3>9 DEF FeedbackInv
  <2>7. CASE "feedback_requested" \notin dirty
    <3>1. \A t : Asking(t)' <=> Asking(t)
      BY <2>1, <2>4, <2>7 DEF Asking
    <3>2. \A t : Bit(Asking(t))' = Bit(Asking(t))
      BY <3>1 DEF Bit
    <3>3. \A t \in Trips : Bit(trip[t].feedback_requested)'
                           = Bit(trip[t].feedback_requested)
      BY <2>2, <2>3, <2>7 DEF Bit
    <3>4. \A t : Bit(mem[t].feedback_requested)' = Bit(mem[t].feedback_requested)
      BY <2>1 DEF Bit
    <3>5. FeedbackOnce'
      BY <2>1 DEF FeedbackInv, FeedbackOnce
    <3> QED
      BY <2>1, <2>4, <3>2, <3>3, <3>4, <3>5 DEF FeedbackInv
  <2> QED
    BY <2>6, <2>7
<1> QED
  BY <1>1, <1>2, <1>3, <1>4, <1>5, <1>7, <1>8, <1>9, <1>10, <1>11, <1>12, <1>13
  DEF PollStep

(* Nobody has been asked.                                                  *)
LEMMA FeedbackInit == Init => FeedbackInv
<1> SUFFICES ASSUME Init PROVE FeedbackInv
  OBVIOUS
<1>1. /\ \A t \in Trips : asked[t] = 0
      /\ todo = {} /\ aborts = 0 /\ pc = "sleep" /\ Point = "sleep"
  BY DEF Init, Point
<1> QED
  BY <1>1, BitValues DEF FeedbackInv, FeedbackOnce

(* Every step keeps the count of feedback requests.                        *)
LEMMA FeedbackStep ==
  TypeInv /\ DualInv /\ FeedbackInv /\ [Next]_vars => FeedbackInv'
<1> SUFFICES ASSUME TypeInv, DualInv, FeedbackInv, [Next]_vars
             PROVE  FeedbackInv'
  OBVIOUS
<1>1. CASE UNCHANGED vars
  BY <1>1 DEF vars, pollVars, ghosts, FeedbackInv, FeedbackOnce, Asking, Point,
              Bit
<1> QED
  BY <1>1, FeedbackOutside, FeedbackPollStep DEF Next

(* The traveller is asked for feedback once per episode of a trip, plus    *)
(* once for each lost tick, whatever requests overlap with the agent.      *)
THEOREM FeedbackHolds == Spec => []FeedbackOnce
<1>1. FeedbackInv => FeedbackOnce
  BY DEF FeedbackInv
<1> QED
  BY <1>1, TypeInit, TypeStep, DualInit, DualStep, FeedbackInit, FeedbackStep,
     PTL DEF Spec

-----------------------------------------------------------------------------
(* The phase only moves forward.                                           *)

(* The ranks, in order.                                                    *)
LEMMA RankValues ==
  /\ Rank("draft") = 1 /\ Rank("created") = 2 /\ Rank("active") = 3
  /\ Rank("en_route") = 4 /\ Rank("at_airport") = 5 /\ Rank("at_gate") = 6
  /\ Rank("complete") = 7
<1>1. Rank("draft") = 1
  BY DEF Rank, STATUS_ORDER
<1>2. Rank("created") = 2
  BY DEF Rank, STATUS_ORDER
<1>3. Rank("active") = 3
  BY DEF Rank, STATUS_ORDER
<1>4. Rank("en_route") = 4
  BY DEF Rank, STATUS_ORDER
<1>5. Rank("at_airport") = 5
  BY DEF Rank, STATUS_ORDER
<1>6. Rank("at_gate") = 6
  BY DEF Rank, STATUS_ORDER
<1>7. Rank("complete") = 7
  BY DEF Rank, STATUS_ORDER
<1> QED
  BY <1>1, <1>2, <1>3, <1>4, <1>5, <1>6, <1>7

(* A row the agent has loaded is never ahead of the agent's copy, and it   *)
(* is strictly behind a phase that waits for its commit; a request can     *)
(* only put it back to active or draft.                                    *)
ForwardInv ==
  /\ \A t \in todo : /\ trip[t].trip_status \in Statuses
                     /\ Rank(trip[t].trip_status) <= Rank(mem[t].trip_status)
  /\ pc = "commit" /\ "trip_status" \in dirty
       => /\ Rank(trip[cur].trip_status) < Rank(mem[cur].trip_status)
          /\ Rank("active") < Rank(mem[cur].trip_status)

(* Ranks are numbers.                                                      *)
LEMMA RankTypes ==
  /\ \A s \in Statuses : Rank(s) \in Nat
  /\ \A s \in MONITORABLE_STATUSES \union {"complete"} :
       s \in Statuses /\ Rank("active") <= Rank(s)
  /\ \A s \in {"active", "draft"} : s \in Statuses /\ Rank(s) <= Rank("active")
  BY RankValues DEF Statuses, MONITORABLE_STATUSES

(* Requests move a row to active or draft at most.                         *)
LEMMA ForwardOutside ==
  ASSUME TypeInv, DualInv, ForwardInv,
         \/ \E s \in Trips : PostTrip(s)
         \/ \E r \in Requests : RequestStep(r)
  PROVE  ForwardInv' /\ pc' = pc
<1>1. UNCHANGED pollVars
  <2>1. ASSUME NEW s \in Trips, PostTrip(s) PROVE UNCHANGED pollVars
    BY <2>1 DEF PostTrip
  <2>2. ASSUME NEW r \in Requests, RequestStep(r) PROVE UNCHANGED pollVars
    BY <2>2 DEF RequestStep, Authenticate, ReadTrack, ReadUntrack, ReadUpdate,
                Reject, Commit, Fail
  <2> QED
    BY <2>1, <2>2
<1>2. ASSUME NEW t \in todo
      PROVE  \/ trip'[t].trip_status = trip[t].trip_status
             \/ trip'[t].trip_status \in {"active", "draft"}
  <2>1. t \in Trips /\ trip[t].trip_status # "absent"
    BY DEF TypeInv, TypeOK, ForwardInv, Statuses
  <2> QED
    BY <2>1, RequestEffect, PostEffect
<1>3. \A t \in todo : mem[t].trip_status \in MONITORABLE_STATUSES \union {"complete"}
  BY DEF DualInv, CopyOK
<1>4. pc = "commit" => cur \in todo
  BY CopyTypes
<1>5. \A t \in todo' : /\ trip'[t].trip_status \in Statuses
                       /\ Rank(trip'[t].trip_status) <= Rank(mem'[t].trip_status)
  <2> SUFFICES ASSUME NEW t \in todo
               PROVE  /\ trip'[t].trip_status \in Statuses
                      /\ Rank(trip'[t].trip_status) <= Rank(mem[t].trip_status)
    BY <1>1 DEF pollVars
  <2>1. CASE trip'[t].trip_status = trip[t].trip_status
    BY <2>1 DEF ForwardInv
  <2>2. CASE trip'[t].trip_status \in {"active", "draft"}
    BY <1>3, <2>2, RankTypes
  <2> QED
    BY <1>2, <2>1, <2>2
<1>6. ASSUME pc = "commit", "trip_status" \in dirty
      PROVE  Rank(trip'[cur].trip_status) < Rank(mem[cur].trip_status)
  <2>1. CASE trip'[cur].trip_status = trip[cur].trip_status
    BY <1>6, <2>1 DEF ForwardInv
  <2>2. CASE trip'[cur].trip_status \in {"active", "draft"}
    <3>1. /\ Rank(trip'[cur].trip_status) <= Rank("active")
          /\ Rank("active") < Rank(mem[cur].trip_status)
          /\ trip'[cur].trip_status \in Statuses /\ "active" \in Statuses
          /\ mem[cur].trip_status \in Statuses
      BY <1>3, <1>4, <1>6, <2>2, RankTypes DEF ForwardInv
    <3> QED
      BY <3>1, RankTypes
  <2> QED
    BY <1>2, <1>4, <1>6, <2>1, <2>2
<1> QED
  BY <1>1, <1>5, <1>6 DEF ForwardInv, pollVars

(* A step of the agent that leaves every phase alone.                      *)
LEMMA ForwardQuiet ==
  ASSUME ForwardInv, UNCHANGED trip, todo' \subseteq todo,
         \A t \in todo' : mem'[t].trip_status = mem[t].trip_status,
         ~ (pc' = "commit" /\ "trip_status" \in dirty')
  PROVE  ForwardInv'
  BY DEF ForwardInv

(* The agent's copy is never behind the row.                               *)
LEMMA ForwardPollStep ==
  ASSUME TypeInv, DualInv, ForwardInv, PollStep
  PROVE  ForwardInv'
<1>1. CASE TickLoad
  <2>1. /\ pc' = "next" /\ UNCHANGED trip
        /\ \A t \in todo' : /\ mem'[t] = Written(NoRow, PollColumns, trip[t])
                            /\ trip[t].trip_status \in MONITORABLE_STATUSES
    BY <1>1 DEF TickLoad, Monitored
  <2>2. \A t \in todo' : /\ mem'[t].trip_status = trip[t].trip_status
                         /\ trip[t].trip_status \in Statuses
    BY <2>1, LoadedColumns, RankTypes
  <2> QED
    BY <2>1, <2>2, RankTypes DEF ForwardInv
<1>2. CASE PickTrip \/ TickEnd \/ StayInPhase \/ RecomputeFails \/ NoSms
           \/ \E kind \in PushKinds : NoPush(kind)
  <2>1. /\ UNCHANGED <<trip, todo, mem>> /\ pc' # "commit"
    BY <1>2, PointsAfterPush
    DEF PickTrip, TickEnd, StayInPhase, RecomputeFails, NoSms, NoPush, Goto
  <2> QED
    BY <2>1, ForwardQuiet
<1>3. CASE FinishTrip
  <2>1. /\ UNCHANGED trip /\ pc' = "next" /\ todo' \subseteq todo
        /\ \A t \in todo' : mem'[t] = mem[t]
    BY <1>3 DEF FinishTrip, TypeInv, TypeOK
  <2> QED
    BY <2>1, ForwardQuiet
<1>4. CASE TickAbort
  <2>1. UNCHANGED trip /\ todo' = {} /\ pc' = "sleep"
    BY <1>4 DEF TickAbort
  <2> QED
    BY <2>1 DEF ForwardInv
<1>5. ASSUME NEW new, NEW label, Assign(new, label), pc \notin {"sleep", "next"},
             UNCHANGED <<trip, cur, todo>>, mem[cur] \in Row,
             new.trip_status = mem[cur].trip_status
      PROVE  ForwardInv'
  <2>1. cur \in Trips /\ mem \in [Trips -> Row] /\ todo \subseteq Trips
    BY <1>5, CopyTypes DEF TypeInv, TypeOK
  <2>2. \A t \in todo' : mem'[t].trip_status = mem[t].trip_status
    BY <1>5, <2>1 DEF Assign
  <2>3. "trip_status" \notin dirty'
    BY <1>5 DEF Assign, Changed
  <2> QED
    BY <1>5, <2>2, <2>3, ForwardQuiet
<1>6. ASSUME NEW kind \in PushKinds, Push(kind) PROVE ForwardInv'
  <2>1. /\ pc \notin {"sleep", "next"} /\ UNCHANGED <<trip, cur, todo>>
        /\ Assign([mem[cur] EXCEPT !.push_count = @ + 1],
                  AfterPush(kind, mem[cur]))
    BY <1>6, PointsAfterPush DEF Push
  <2>2. mem[cur] \in Row
    BY <2>1, CopyTypes
  <2>3. [mem[cur] EXCEPT !.push_count = @ + 1].trip_status
          = mem[cur].trip_status
    BY <2>2 DEF Row
  <2> QED
    BY <1>5, <2>1, <2>2, <2>3
<1>7. CASE MarkFeedback
  <2>1. /\ pc \notin {"sleep", "next"} /\ UNCHANGED <<trip, cur, todo>>
        /\ Assign([mem[cur] EXCEPT !.feedback_requested = TRUE], "done")
    BY <1>7 DEF MarkFeedback
  <2>2. mem[cur] \in Row
    BY <2>1, CopyTypes
  <2>3. [mem[cur] EXCEPT !.feedback_requested = TRUE].trip_status
          = mem[cur].trip_status
    BY <2>2 DEF Row
  <2> QED
    BY <1>5, <2>1, <2>2, <2>3
<1>8. CASE MarkTimeToGo
  <2>1. /\ pc \notin {"sleep", "next"} /\ UNCHANGED <<trip, cur, todo>>
        /\ Assign([mem[cur] EXCEPT !.time_to_go = TRUE], "done")
    BY <1>8 DEF MarkTimeToGo
  <2>2. mem[cur] \in Row
    BY <2>1, CopyTypes
  <2>3. [mem[cur] EXCEPT !.time_to_go = TRUE].trip_status
          = mem[cur].trip_status
    BY <2>2 DEF Row
  <2> QED
    BY <1>5, <2>1, <2>2, <2>3
<1>9. CASE SendSms
  <2>1. /\ pc \notin {"sleep", "next"} /\ UNCHANGED <<trip, cur, todo>>
        /\ Assign([mem[cur] EXCEPT !.sms_count = @ + 1], "done")
    BY <1>9 DEF SendSms
  <2>2. mem[cur] \in Row
    BY <2>1, CopyTypes
  <2>3. [mem[cur] EXCEPT !.sms_count = @ + 1].trip_status
          = mem[cur].trip_status
    BY <2>2 DEF Row
  <2> QED
    BY <1>5, <2>1, <2>2, <2>3
<1>10. CASE Recompute
  <2>1. /\ pc \notin {"sleep", "next"} /\ UNCHANGED <<trip, cur, todo>>
        /\ pc' = "commit" => dirty' = {"projected_timeline"}
        /\ \/ mem' = mem
           \/ mem' = [mem EXCEPT ![cur] =
                        [mem[cur] EXCEPT !.projected_timeline = TRUE]]
    BY <1>10 DEF Recompute, Goto
  <2>2. mem[cur] \in Row /\ mem \in [Trips -> Row] /\ todo \subseteq Trips
    BY <2>1, CopyTypes DEF TypeInv, TypeOK
  <2>3. [mem[cur] EXCEPT !.projected_timeline = TRUE].trip_status
          = mem[cur].trip_status
    BY <2>2 DEF Row
  <2>4. \A t \in todo' : mem'[t].trip_status = mem[t].trip_status
    BY <2>1, <2>2, <2>3
  <2> QED
    BY <2>1, <2>4, ForwardQuiet
<1>11. CASE Advance
  <2>1. /\ pc = "advance" /\ UNCHANGED <<trip, cur, todo>>
    BY <1>11 DEF Advance
  <2>2. /\ mem[cur] \in Row /\ mem \in [Trips -> Row] /\ todo \subseteq Trips
        /\ cur \in todo
    BY <2>1, CopyTypes DEF TypeInv, TypeOK
  <2>3. PICK to \in Successors(mem[cur].trip_status), label \in {"post_trip", "done"} :
          /\ CanAdvance(mem[cur].trip_status, to)
          /\ Assign([mem[cur] EXCEPT !.status = to, !.trip_status = to], label)
    BY <1>11 DEF Advance
  <2> DEFINE new == [mem[cur] EXCEPT !.status = to, !.trip_status = to]
  <2>4. new.trip_status = to
    BY <2>2 DEF Row
  <2>5. mem' = [mem EXCEPT ![cur] = new]
    BY <2>3 DEF Assign
  <2> HIDE DEF new
  <2>6. mem'[cur].trip_status = to
        /\ \A t \in todo : t # cur => mem'[t] = mem[t]
    BY <2>2, <2>4, <2>5
  <2>7. /\ to \in Statuses
        /\ mem[cur].trip_status \in MONITORABLE_STATUSES \union {"complete"}
    BY <2>2, <2>3, StatusSets DEF DualInv, CopyOK
  <2>8. /\ Rank(mem[cur].trip_status) < Rank(to)
        /\ Rank(trip[cur].trip_status) <= Rank(mem[cur].trip_status)
        /\ Rank("active") <= Rank(mem[cur].trip_status)
        /\ {Rank(to), Rank(mem[cur].trip_status), Rank(trip[cur].trip_status),
            Rank("active")} \subseteq Nat
    <3>1. "active" \in Statuses /\ mem[cur].trip_status \in Statuses
      BY <2>7, RankTypes
    <3>2. trip[cur].trip_status \in Statuses
      BY <2>2 DEF ForwardInv
    <3>3. Rank(mem[cur].trip_status) < Rank(to)
      BY <2>3, <2>7, <3>1, RankTypes DEF CanAdvance
    <3> QED
      BY <2>2, <2>7, <3>1, <3>2, <3>3, RankTypes DEF ForwardInv
  <2>9. Rank(trip[cur].trip_status) < Rank(to) /\ Rank("active") < Rank(to)
    BY <2>8
  <2>10. \A t \in todo' : /\ trip'[t].trip_status \in Statuses
                          /\ Rank(trip'[t].trip_status) <= Rank(mem'[t].trip_status)
    <3>1. ASSUME NEW t \in todo
          PROVE  Rank(trip[t].trip_status) <= Rank(mem'[t].trip_status)
      <4>1. CASE t = cur
        BY <2>6, <2>8, <2>9, <4>1
      <4>2. CASE t # cur
        BY <2>6, <4>2 DEF ForwardInv
      <4> QED
        BY <4>1, <4>2
    <3> QED
      BY <2>1, <3>1 DEF ForwardInv
  <2> QED
    BY <2>1, <2>6, <2>9, <2>10 DEF ForwardInv
<1>12. CASE PollCommit
  <2> DEFINE w == Written(trip[cur], dirty, mem[cur])
  <2>1. /\ pc = "commit" /\ cur \in Trips /\ cur \in todo /\ pc' # "commit"
        /\ UNCHANGED <<cur, todo, mem>> /\ trip' = [trip EXCEPT ![cur] = w]
        /\ trip \in [Trips -> Row] /\ todo \subseteq Trips
    BY <1>12, CopyTypes DEF PollCommit, TypeInv, TypeOK, ControlOK
  <2>2. w.trip_status = IF "trip_status" \in dirty
                        THEN mem[cur].trip_status ELSE trip[cur].trip_status
    BY DEF Written
  <2> HIDE DEF w
  <2>3. trip'[cur] = w /\ \A t \in todo : t # cur => trip'[t] = trip[t]
    BY <2>1
  <2>4. /\ mem[cur].trip_status \in Statuses
        /\ Rank(mem[cur].trip_status) <= Rank(mem[cur].trip_status)
    BY <2>1, RankTypes DEF DualInv, CopyOK
  <2> QED
    BY <2>1, <2>2, <2>3, <2>4 DEF ForwardInv
<1> QED
  BY <1>1, <1>2, <1>3, <1>4, <1>6, <1>7, <1>8, <1>9, <1>10, <1>11, <1>12
  DEF PollStep

(* Every step keeps the order of copy and row.                             *)
LEMMA ForwardStep ==
  TypeInv /\ DualInv /\ ForwardInv /\ [Next]_vars => ForwardInv'
<1> SUFFICES ASSUME TypeInv, DualInv, ForwardInv, [Next]_vars
             PROVE  ForwardInv'
  OBVIOUS
<1>1. CASE UNCHANGED vars
  BY <1>1 DEF vars, pollVars, ForwardInv
<1> QED
  BY <1>1, ForwardOutside, ForwardPollStep DEF Next

(* A commit of the agent does not move the row back.                       *)
LEMMA ForwardCommit ==
  ASSUME TypeInv, DualInv, ForwardInv, [Next]_vars,
         pc = "commit", pc' # "commit", NEW t \in Trips
  PROVE  \/ trip'[t].trip_status = trip[t].trip_status
         \/ CanAdvance(trip[t].trip_status, trip'[t].trip_status)
<1>1. PollCommit \/ TickAbort
  <2>1. CASE PollStep
    BY <2>1 DEF PollStep, TickLoad, PickTrip, FinishTrip, TickEnd, Push, NoPush,
                PushKinds, Advance, StayInPhase, MarkFeedback, Recompute,
                RecomputeFails, MarkTimeToGo, SendSms, NoSms
  <2> QED
    BY <2>1, ForwardOutside DEF Next, vars, pollVars
<1>2. CASE TickAbort
  BY <1>2 DEF TickAbort
<1>3. CASE PollCommit
  <2> DEFINE w == Written(trip[cur], dirty, mem[cur])
  <2>1. /\ cur \in Trips /\ cur \in todo /\ trip' = [trip EXCEPT ![cur] = w]
        /\ trip \in [Trips -> Row]
    BY CopyTypes, <1>3 DEF PollCommit, TypeInv, TypeOK
  <2>2. w.trip_status = IF "trip_status" \in dirty
                        THEN mem[cur].trip_status ELSE trip[cur].trip_status
    BY DEF Written
  <2> HIDE DEF w
  <2>3. CASE t # cur
    BY <2>1, <2>3
  <2>4. CASE t = cur
    <3>1. trip'[t] = w
      BY <2>1, <2>4
    <3>2. trip[cur].trip_status \in Statuses /\ mem[cur].trip_status \in Statuses
      BY <2>1, RankTypes DEF ForwardInv, DualInv, CopyOK
    <3> QED
      BY <2>2, <2>4, <3>1, <3>2, RankTypes DEF ForwardInv, CanAdvance
  <2> QED
    BY <2>3, <2>4
<1> QED
  BY <1>1, <1>2, <1>3

(* A commit of the polling agent never moves a trip back, however old its  *)
(* copy of the row is.                                                     *)
THEOREM ForwardHolds == Spec => PollerForwardOnly
<1>1. Init => ForwardInv
  BY DEF Init, ForwardInv
<1>2. TypeInv /\ DualInv /\ ForwardInv /\ [Next]_vars =>
        [pc = "commit" /\ pc' # "commit" =>
           \A t \in Trips : \/ trip'[t].trip_status = trip[t].trip_status
                            \/ CanAdvance(trip[t].trip_status,
                                          trip'[t].trip_status)]_vars
  BY ForwardCommit
<1> QED
  BY <1>1, <1>2, TypeInit, TypeStep, DualInit, DualStep, ForwardStep, PTL
  DEF Spec, PollerForwardOnly
=============================================================================
