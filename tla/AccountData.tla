---------------------------- MODULE AccountData ----------------------------
(***************************************************************************)
(* The rows that belong to an account and the deletion of the account      *)
(* (app/api/routes/users.py, delete_account) while other requests of the   *)
(* same account are being served: device registration (devices.py), events *)
(* (events.py), trips (trips.py, post_trip) and feedback (feedback.py).    *)
(* A request reads what its handler reads in one step and commits in       *)
(* another; the deletion runs one statement per step in a transaction of   *)
(* isolation level READ COMMITTED: a statement sees what is committed when *)
(* it starts, others see its effects when it commits.  TSA observations    *)
(* and recommendations have no rows: the code never inserts a              *)
(* recommendation, and an observation needs one.                           *)
(***************************************************************************)
EXTENDS Naturals, FiniteSets

CONSTANTS
  Users, Devices,
  Sessions,   \* concurrent requests
  NoUser, NoThing,
  MaxRows     \* bound on the rows inserted

ASSUME AccountAssumption ==
  /\ NoUser \notin Users /\ NoThing \notin Devices
  /\ IsFiniteSet(Sessions)
  /\ Devices \intersect (1..MaxRows) = {} /\ MaxRows \in Nat

VARIABLES
  accounts,      \* the accounts that exist
  rows,       \* committed rows: id, table, owner (user_id), by (the account
              \* it was made for), about (a token's device, a feedback's trip)
  inserted,   \* ids given to rows
  req         \* what each session is doing

accountVars == <<accounts, rows, inserted, req>>

NoRequest == [op |-> "idle"]

(* A request that is about to commit one new row or one removal.           *)
Insert(table, user, about) ==
  [op |-> "insert", table |-> table, user |-> user, about |-> about]
Remove(id) == [op |-> "remove", id |-> id]

(* The open transaction of a deletion: the next statement, the rows its    *)
(* statements have deleted, the trips it has selected and, for the         *)
(* properties, whether a row was added to the account since it started.    *)
Deletion(u, next, gone, trips, disturbed) ==
  [op |-> "delete", user |-> u, next |-> next, gone |-> gone, trips |-> trips,
   disturbed |-> disturbed]
Conflict(disturbed) == [op |-> "conflict", disturbed |-> disturbed]

FreeSession(s) == req[s].op \in {"idle", "conflict"}
RowsOf(table, u) == {r \in rows : r.table = table /\ r.owner = u}
Tokens(u, d) == {r \in RowsOf("device_tokens", u) : r.about = d}
Ids(some) == {r.id : r \in some}

(* The rows whose lock another open deletion holds.                        *)
LockedFor(s) ==
  UNION {req[o].gone : o \in {x \in Sessions \ {s} : req[x].op = "delete"}}

AccountInit ==
  /\ accounts = Users /\ rows = {} /\ inserted = 0
  /\ req = [s \in Sessions |-> NoRequest]
-----------------------------------------------------------------------------
Pending == Cardinality({s \in Sessions : req[s].op = "insert"})

Begin(s, request) ==
  /\ FreeSession(s)
  /\ request.op = "insert" => inserted + Pending < MaxRows
  /\ req' = [req EXCEPT ![s] = request]
  /\ UNCHANGED <<accounts, rows, inserted>>

(* Optional authentication: the token of a deleted account counts as none. *)
Signed(u) == IF u \in accounts THEN u ELSE NoUser

RecordEvent(s, u) == Begin(s, Insert("events", Signed(u), NoThing))

PostTrip(s, u) == Begin(s, Insert("trips", Signed(u), NoThing))

(* Faulty variant: the token is inserted without looking for it.           *)
RegisterBlindly(s, u, d) ==
  /\ u \in accounts
  /\ Begin(s, Insert("device_tokens", u, d))

(* A token that is there answers "registered"; one that is there twice     *)
(* raises MultipleResultsFound.  Neither changes anything.                 *)
RegisterDevice(s, u, d) ==
  /\ u \in accounts /\ Tokens(u, d) = {}
  /\ Begin(s, Insert("device_tokens", u, d))

UnregisterDevice(s, u, d) ==
  /\ u \in accounts
  /\ \E r \in Tokens(u, d) : Tokens(u, d) = {r} /\ Begin(s, Remove(r.id))

SubmitFeedback(s, u, t) ==
  /\ u \in accounts /\ t \in RowsOf("trips", u)
  /\ Begin(s, Insert("feedback", u, t.id))

(* The foreign keys of a row.                                              *)
References(table, user, about) ==
  /\ user \in accounts \union {NoUser}
  /\ table = "feedback" => about \in Ids(RowsOf("trips", user))

(* The commit of an insert waits for a deletion that holds its trip, and   *)
(* fails when what it refers to has gone.                                  *)
CommitRow(s) ==
  LET q == req[s] IN
  /\ q.op = "insert" /\ q.about \notin LockedFor(s)
  /\ IF References(q.table, q.user, q.about)
     THEN /\ inserted' = inserted + 1
          /\ rows' = rows \union {[id |-> inserted + 1, table |-> q.table,
                                   owner |-> q.user, by |-> q.user,
                                   about |-> q.about]}
          /\ req' = [o \in Sessions |->
                       IF o = s THEN NoRequest
                       ELSE IF req[o].op = "delete" /\ req[o].user = q.user
                       THEN [req[o] EXCEPT !.disturbed = TRUE] ELSE req[o]]
     ELSE req' = [req EXCEPT ![s] = NoRequest] /\ UNCHANGED <<rows, inserted>>
  /\ UNCHANGED accounts

(* A removal that finds its row gone succeeds.                             *)
CommitRemove(s) ==
  /\ req[s].op = "remove" /\ req[s].id \notin LockedFor(s)
  /\ rows' = {r \in rows : r.id # req[s].id}
  /\ req' = [req EXCEPT ![s] = NoRequest]
  /\ UNCHANGED <<accounts, inserted>>

(* The connection or the process is lost: nothing is committed.            *)
Abort(s) ==
  /\ ~FreeSession(s) /\ req' = [req EXCEPT ![s] = NoRequest]
  /\ UNCHANGED <<accounts, rows, inserted>>
-----------------------------------------------------------------------------
BeginDeletion(s, u) ==
  u \in accounts /\ Begin(s, Deletion(u, "events", {}, {}, FALSE))

(* One DELETE statement: of the rows some, then the statement next.        *)
Delete(s, some, next) ==
  /\ Ids(some) \intersect LockedFor(s) = {}
  /\ req' = [req EXCEPT ![s].gone = @ \union Ids(some), ![s].next = next]
  /\ UNCHANGED <<accounts, rows, inserted>>

At(s, next) == req[s].op = "delete" /\ req[s].next = next

DeleteEvents(s) ==
  At(s, "events") /\ Delete(s, RowsOf("events", req[s].user), "device_tokens")

DeleteTokens(s) ==
  /\ At(s, "device_tokens")
  /\ Delete(s, RowsOf("device_tokens", req[s].user), "feedback")

(* Faulty variant: the trips are deleted before their feedback.            *)
DeleteFeedbackLater(s) == At(s, "feedback") /\ Delete(s, {}, "trips")

DeleteFeedback(s) ==
  At(s, "feedback") /\ Delete(s, RowsOf("feedback", req[s].user), "select")

SelectTrips(s) ==
  /\ At(s, "select")
  /\ LET ids == Ids(RowsOf("trips", req[s].user)) IN
     req' = [req EXCEPT
               ![s].trips = ids,
               ![s].next = IF ids = {} THEN "trips" ELSE "trip_feedback"]
  /\ UNCHANGED <<accounts, rows, inserted>>

DeleteTripFeedback(s) ==
  /\ At(s, "trip_feedback")
  /\ Delete(s, {r \in rows : r.table = "feedback" /\ r.about \in req[s].trips},
            "trips")

(* An IntegrityError: the transaction is rolled back.                      *)
RolledBack(s) ==
  /\ req' = [req EXCEPT ![s] = Conflict(req[s].disturbed)]
  /\ UNCHANGED <<accounts, rows, inserted>>

(* The statement fails on a trip that feedback refers to.                  *)
DeleteTrips(s) ==
  /\ At(s, "trips")
  /\ LET trips == RowsOf("trips", req[s].user)
         left == {r \in rows : r.id \notin req[s].gone} IN
     IF \E r \in left : r.table = "feedback" /\ r.about \in Ids(trips)
     THEN RolledBack(s) ELSE Delete(s, trips, "user")

(* Faulty variant: the row of the user goes whatever still refers to it.    *)
DeleteUserUnchecked(s) ==
  /\ At(s, "user")
  /\ accounts' = accounts \ {req[s].user}
  /\ rows' = {r \in rows : r.id \notin req[s].gone}
  /\ req' = [req EXCEPT ![s] = NoRequest]
  /\ UNCHANGED inserted

(* Flush and commit.  The relationships of User are not cascades: the      *)
(* session loads the account's trips, tokens and feedback that are left    *)
(* and sets their user_id to null, which only a trip allows; a remaining   *)
(* event violates its foreign key.                                         *)
DeleteUser(s) ==
  /\ At(s, "user")
  /\ LET u == req[s].user
         left == {r \in rows : r.id \notin req[s].gone} IN
     IF \E r \in left : r.owner = u /\ r.table # "trips"
     THEN RolledBack(s)
     ELSE /\ accounts' = accounts \ {u}
          /\ rows' = {IF r.owner = u THEN [r EXCEPT !.owner = NoUser] ELSE r :
                        r \in left}
          /\ req' = [req EXCEPT ![s] = NoRequest]
          /\ UNCHANGED inserted

AccountNext ==
  \E s \in Sessions :
    \/ \E u \in Users :
         \/ RecordEvent(s, u) \/ PostTrip(s, u) \/ BeginDeletion(s, u)
         \/ \E d \in Devices :
              RegisterDevice(s, u, d) \/ UnregisterDevice(s, u, d)
         \/ \E t \in rows : SubmitFeedback(s, u, t)
    \/ CommitRow(s) \/ CommitRemove(s) \/ Abort(s)
    \/ DeleteEvents(s) \/ DeleteTokens(s) \/ DeleteFeedback(s)
    \/ SelectTrips(s) \/ DeleteTripFeedback(s) \/ DeleteTrips(s)
    \/ DeleteUser(s)

AccountSpec == AccountInit /\ [][AccountNext]_accountVars
-----------------------------------------------------------------------------
(* Deleting an account deletes all its data (users.py:115).                *)
DeletedLeavesNothing == \A r \in rows : r.by \in accounts \union {NoUser}

(* All that can survive of a deleted account is a trip posted while it was *)
(* being deleted, and that trip has no owner.  Nothing else made for the   *)
(* account is left, and no feedback without its trip.                      *)
OnlyOrphanTripsSurvive ==
  \A r \in rows :
    /\ r.by \notin accounts \union {NoUser} =>
         r.table = "trips" /\ r.owner = NoUser
    /\ r.table = "feedback" => r.about \in Ids(RowsOf("trips", r.owner))

(* The order of the statements respects the foreign keys: a deletion is    *)
(* refused only when another request has added to the account meanwhile.   *)
RefusedOnlyWhenDisturbed ==
  \A s \in Sessions : req[s].op = "conflict" => req[s].disturbed

(* A token is registered twice only by registrations that overlap: never   *)
(* more often than there are concurrent requests (devices.py:36-49).       *)
TokenRowsBounded ==
  \A u \in Users, d \in Devices :
    Cardinality(Tokens(u, d)) <= Cardinality(Sessions)
=============================================================================
