------------------------- MODULE AccountData_proofs -------------------------
(***************************************************************************)
(* What the deletion of an account leaves behind, when it is refused, and  *)
(* how often a device can be registered, for any number of accounts, rows  *)
(* and concurrent requests.                                                *)
(***************************************************************************)
EXTENDS AccountData, FiniteSetTheorems, TLAPS

Tables == {"events", "device_tokens", "feedback", "trips"}
Owners == Users \union {NoUser}
Statements == {"events", "device_tokens", "feedback", "select",
               "trip_feedback", "trips", "user"}

RowType == [id : Nat, table : Tables, owner : Owners, by : Owners,
            about : Devices \union {NoThing} \union Nat]

InsertType == [op : {"insert"}, table : Tables, user : Owners,
               about : Devices \union {NoThing} \union Nat]
RemoveType == [op : {"remove"}, id : Nat]
DeletionType == [op : {"delete"}, user : Users, next : Statements,
                 gone : SUBSET Nat, trips : SUBSET Nat, disturbed : BOOLEAN]
ConflictType == [op : {"conflict"}, disturbed : BOOLEAN]

ReqType == {NoRequest} \union InsertType \union RemoveType \union DeletionType
             \union ConflictType

TypePart ==
  /\ accounts \subseteq Users /\ inserted \in Nat
  /\ rows \subseteq RowType
  /\ req \in [Sessions -> ReqType]

(* Ids are given once; what a removal or a deletion holds has an id.       *)
IdPart ==
  /\ \A r \in rows : r.id <= inserted
  /\ \A r1, r2 \in rows : r1.id = r2.id => r1 = r2
  /\ \A s \in Sessions :
       /\ req[s].op = "remove" =>
            /\ req[s].id <= inserted
            /\ \A r \in rows : r.id = req[s].id => r.table = "device_tokens"
       /\ req[s].op = "delete" => \A i \in req[s].gone : i <= inserted

(* A row belongs to the account it was made for, which exists, or it is an *)
(* orphaned trip.                                                          *)
OwnerPart ==
  \A r \in rows : /\ r.owner \in accounts \union {NoUser}
                  /\ r.owner # r.by => r.table = "trips" /\ r.owner = NoUser

(* Feedback is about a trip of its owner, and a deletion that has deleted  *)
(* the trip has deleted the feedback.                                      *)
FeedbackPart ==
  /\ \A r \in rows :
       r.table = "feedback" => r.about \in Ids(RowsOf("trips", r.owner))
  /\ \A s \in Sessions : req[s].op = "delete" =>
       \A r \in rows : r.table = "feedback" /\ r.about \in req[s].gone
                         => r.id \in req[s].gone

(* The tables a deletion has been through before its next statement.       *)
Through(next) ==
  CASE next = "events" -> {}
    [] next = "device_tokens" -> {"events"}
    [] next = "feedback" -> {"events", "device_tokens"}
    [] OTHER -> {"events", "device_tokens", "feedback"}

(* Of those, an undisturbed deletion has deleted all rows of the account.  *)
DeletedPart ==
  \A s \in Sessions :
    /\ req[s].op = "delete" /\ ~ req[s].disturbed =>
         \A r \in rows : r.owner = req[s].user
                         /\ r.table \in Through(req[s].next)
                           => r.id \in req[s].gone
    /\ req[s].op = "conflict" => req[s].disturbed

AccountInv == TypePart /\ IdPart /\ OwnerPart /\ FeedbackPart /\ DeletedPart

(* The requests about to register device d for u.                          *)
Registering(u, d) ==
  {s \in Sessions : /\ req[s].op = "insert"
                    /\ req[s].table = "device_tokens"
                    /\ req[s].user = u /\ req[s].about = d}

(* Every token of u and d has been, or is, in the slot of a request.       *)
TokenPart ==
  \A u \in Users, d \in Devices :
    Cardinality(Tokens(u, d)) + Cardinality(Registering(u, d))
      <= Cardinality(Sessions)

TokenInv == IsFiniteSet(rows) /\ TokenPart

-----------------------------------------------------------------------------
(* What a request's op says about its type.                                *)
LEMMA ReqTypes ==
  ASSUME TypePart, NEW s \in Sessions
  PROVE  /\ req[s] \in ReqType
         /\ req[s].op \in {"idle", "insert", "remove", "delete", "conflict"}
         /\ req[s].op = "insert" => req[s] \in InsertType
         /\ req[s].op = "remove" => req[s] \in RemoveType
         /\ req[s].op = "delete" => req[s] \in DeletionType
  BY DEF TypePart, ReqType, InsertType, RemoveType, DeletionType,
         ConflictType, NoRequest

(* The trip that feedback is about is one row of the same owner.           *)
LEMMA TripOf ==
  ASSUME AccountInv, NEW r \in rows, r.table = "feedback"
  PROVE  \E t \in rows : /\ t.table = "trips" /\ t.owner = r.owner
                         /\ t.id = r.about
  BY DEF AccountInv, FeedbackPart, Ids, RowsOf

LEMMA InitAccount == AccountInit => AccountInv
  BY DEF AccountInit, AccountInv, TypePart, IdPart, OwnerPart, FeedbackPart,
         DeletedPart, ReqType, NoRequest

(* A slot takes a request that holds nothing yet.                          *)
LEMMA BeginKeeps ==
  ASSUME AccountInv, NEW s \in Sessions, NEW request \in ReqType,
         Begin(s, request),
         request.op = "remove" =>
           \E t \in rows : t.id = request.id /\ t.table = "device_tokens",
         request.op = "delete" => request.gone = {} /\ request.next = "events",
         request.op # "conflict"
  PROVE  AccountInv'
<1>1. /\ UNCHANGED <<accounts, rows, inserted>>
      /\ req' = [req EXCEPT ![s] = request]
  BY DEF Begin
<1>2. TypePart'
  BY <1>1 DEF AccountInv, TypePart
<1>3. req'[s] = request /\ \A o \in Sessions \ {s} : req'[o] = req[o]
  BY <1>1 DEF AccountInv, TypePart
<1>4. IdPart'
  <2>1. request.op = "remove" =>
          /\ request.id <= inserted
          /\ \A r \in rows : r.id = request.id => r.table = "device_tokens"
    BY DEF AccountInv, IdPart
  <2> QED
    BY <1>1, <1>3, <2>1 DEF AccountInv, IdPart
<1>5. OwnerPart'
  BY <1>1 DEF AccountInv, OwnerPart
<1>6. FeedbackPart'
  BY <1>1, <1>3 DEF AccountInv, FeedbackPart, RowsOf, Ids
<1>7. DeletedPart'
  BY <1>1, <1>3 DEF AccountInv, DeletedPart, Through
<1> QED
  BY <1>2, <1>4, <1>5, <1>6, <1>7 DEF AccountInv

(* A slot is emptied.                                                      *)
LEMMA IdleKeeps ==
  ASSUME AccountInv, NEW s \in Sessions,
         UNCHANGED <<accounts, rows, inserted>>,
         req' = [req EXCEPT ![s] = NoRequest]
  PROVE  AccountInv'
<1>1. /\ req'[s] = NoRequest /\ NoRequest \in ReqType
      /\ \A o \in Sessions \ {s} : req'[o] = req[o]
  BY DEF AccountInv, TypePart, ReqType
<1>2. TypePart'
  BY <1>1 DEF AccountInv, TypePart
<1> QED
  BY <1>1, <1>2 DEF AccountInv, IdPart, OwnerPart, FeedbackPart, DeletedPart,
                    RowsOf, Ids, NoRequest

(* A row is added.  Its trip, if it has one, is not in a deletion's hands, *)
(* and the deletions of its account become disturbed.                      *)
LEMMA InsertKeeps ==
  ASSUME AccountInv, NEW s \in Sessions, CommitRow(s)
  PROVE  AccountInv'
<1> DEFINE q == req[s]
           new == [id |-> inserted + 1, table |-> q.table, owner |-> q.user,
                   by |-> q.user, about |-> q.about]
<1>1. q \in InsertType /\ q.op = "insert" /\ accounts' = accounts
  BY ReqTypes DEF CommitRow, AccountInv
<1>2. CASE ~ References(q.table, q.user, q.about)
  BY <1>2, IdleKeeps DEF CommitRow
<1>3. CASE References(q.table, q.user, q.about)
  <2>1. inserted' = inserted + 1 /\ rows' = rows \union {new}
    BY <1>3 DEF CommitRow
  <2>2. req' = [o \in Sessions |->
                  IF o = s THEN NoRequest
                  ELSE IF req[o].op = "delete" /\ req[o].user = q.user
                  THEN [req[o] EXCEPT !.disturbed = TRUE] ELSE req[o]]
    BY <1>3 DEF CommitRow
  <2>3. new \in RowType /\ new.id = inserted + 1 /\ inserted \in Nat
    BY <1>1 DEF InsertType, RowType, AccountInv, TypePart
  <2>4. \A o \in Sessions :
          /\ req'[o].op \in {req[o].op, "idle"}
          /\ req'[o].op = "remove" => req'[o] = req[o]
          /\ req'[o].op = "conflict" => req'[o] = req[o]
          /\ req'[o].op = "delete" =>
               /\ req[o] \in DeletionType /\ req[o].op = "delete" /\ o # s
               /\ req'[o] \in DeletionType
               /\ req'[o].gone = req[o].gone /\ req'[o].next = req[o].next
               /\ req'[o].user = req[o].user
               /\ req'[o].disturbed =
                    (req[o].disturbed \/ req[o].user = q.user)
    <3> TAKE o \in Sessions
    <3>1. CASE o = s
      BY <2>2, <3>1 DEF NoRequest
    <3>2. CASE o # s /\ req[o].op = "delete"
      <4>1. req[o] \in DeletionType
        BY <3>2, ReqTypes DEF AccountInv
      <4>2. req'[o] = [req[o] EXCEPT !.disturbed = TRUE] \/ req'[o] = req[o]
        BY <2>2, <3>2
      <4> QED
        BY <2>2, <3>2, <4>1, <4>2 DEF DeletionType
    <3>3. CASE o # s /\ req[o].op # "delete"
      BY <2>2, <3>3
    <3> QED
      BY <3>1, <3>2, <3>3
  <2>5. TypePart'
    <3>1. \A o \in Sessions : req'[o] \in ReqType
      <4> TAKE o \in Sessions
      <4>1. CASE o = s
        BY <2>2, <4>1 DEF ReqType
      <4>2. CASE o # s /\ req[o].op = "delete"
        <5>1. req'[o].op = "delete"
          BY <2>2, <4>2, ReqTypes DEF AccountInv, DeletionType
        <5> QED
          BY <2>4, <5>1 DEF ReqType
      <4>3. CASE o # s /\ req[o].op # "delete"
        BY <2>2, <4>3 DEF AccountInv, TypePart
      <4> QED
        BY <4>1, <4>2, <4>3
    <3> QED
      BY <1>1, <2>1, <2>2, <2>3, <3>1 DEF AccountInv, TypePart
  <2>6. IdPart'
    <3>1. \A r \in rows' : r.id <= inserted'
      BY <2>1, <2>3 DEF AccountInv, IdPart, TypePart, RowType
    <3>2. \A r1, r2 \in rows' : r1.id = r2.id => r1 = r2
      BY <2>1, <2>3 DEF AccountInv, IdPart, TypePart, RowType
    <3>3. ASSUME NEW o \in Sessions, req'[o].op = "remove"
          PROVE  /\ req'[o].id <= inserted'
                 /\ \A r \in rows' :
                      r.id = req'[o].id => r.table = "device_tokens"
      <4>1. req'[o] = req[o] /\ req[o] \in RemoveType
        BY <2>4, <3>3, ReqTypes DEF AccountInv
      <4> QED
        BY <2>1, <2>3, <3>3, <4>1 DEF AccountInv, IdPart, RemoveType
    <3>4. ASSUME NEW o \in Sessions, req'[o].op = "delete"
          PROVE  \A i \in req'[o].gone : i <= inserted'
      BY <2>1, <2>3, <2>4, <3>4 DEF AccountInv, IdPart, DeletionType
    <3> QED
      BY <3>1, <3>2, <3>3, <3>4 DEF IdPart
  <2>7. OwnerPart'
    BY <1>1, <1>3, <2>1 DEF AccountInv, OwnerPart, References
  <2>8. FeedbackPart'
    <3>1. ASSUME NEW r \in rows', r.table = "feedback"
          PROVE  \E t \in rows' : /\ t.table = "trips" /\ t.owner = r.owner
                                  /\ t.id = r.about
      <4>1. CASE r \in rows
        BY <2>1, <3>1, <4>1, TripOf
      <4>2. CASE r = new
        BY <1>3, <2>1, <3>1, <4>2 DEF References, Ids, RowsOf
      <4> QED
        BY <2>1, <4>1, <4>2
    <3>2. ASSUME NEW o \in Sessions, req'[o].op = "delete",
                 NEW r \in rows', r.table = "feedback",
                 r.about \in req'[o].gone
          PROVE  r.id \in req'[o].gone
      <4>1. CASE r \in rows
        BY <2>4, <3>2, <4>1 DEF AccountInv, FeedbackPart
      <4>2. CASE r = new
        <5>1. o # s /\ req[o].op = "delete" /\ req[o].gone = req'[o].gone
          BY <2>4, <3>2
        <5>2. q.about \notin req[o].gone
          BY <1>1, <5>1 DEF CommitRow, LockedFor
        <5> QED
          BY <3>2, <4>2, <5>1, <5>2
      <4> QED
        BY <2>1, <4>1, <4>2
    <3> QED
      BY <3>1, <3>2 DEF FeedbackPart, Ids, RowsOf
  <2>9. DeletedPart'
    <3>1. ASSUME NEW o \in Sessions, req'[o].op = "delete",
                 ~ req'[o].disturbed, NEW r \in rows',
                 r.owner = req'[o].user, r.table \in Through(req'[o].next)
          PROVE  r.id \in req'[o].gone
      <4>1. /\ ~ req[o].disturbed /\ req[o].user # q.user
            /\ req[o].op = "delete" /\ req'[o].user = req[o].user
            /\ req'[o].gone = req[o].gone /\ req'[o].next = req[o].next
        BY <2>4, <3>1
      <4>2. r \in rows
        BY <2>1, <3>1, <4>1
      <4> QED
        BY <3>1, <4>1, <4>2 DEF AccountInv, DeletedPart
    <3>2. \A o \in Sessions : req'[o].op = "conflict" => req'[o].disturbed
      BY <2>4 DEF AccountInv, DeletedPart
    <3> QED
      BY <3>1, <3>2 DEF DeletedPart
  <2> QED
    BY <2>5, <2>6, <2>7, <2>8, <2>9 DEF AccountInv
<1> QED
  BY <1>2, <1>3

(* A token is removed, unless its row has gone already.                    *)
LEMMA RemoveKeeps ==
  ASSUME AccountInv, NEW s \in Sessions, CommitRemove(s)
  PROVE  AccountInv'
<1>1. /\ rows' = {r \in rows : r.id # req[s].id}
      /\ req' = [req EXCEPT ![s] = NoRequest]
      /\ accounts' = accounts /\ inserted' = inserted /\ req[s].op = "remove"
  BY DEF CommitRemove
<1>2. /\ req'[s] = NoRequest /\ NoRequest \in ReqType /\ NoRequest.op = "idle"
      /\ \A o \in Sessions \ {s} : req'[o] = req[o]
  BY <1>1 DEF AccountInv, TypePart, ReqType, NoRequest
<1>3. \A r \in rows : r.table # "device_tokens" => r \in rows'
  BY <1>1 DEF AccountInv, IdPart
<1>4. TypePart'
  BY <1>1, <1>2 DEF AccountInv, TypePart
<1>5. IdPart'
  BY <1>1, <1>2 DEF AccountInv, IdPart
<1>6. OwnerPart'
  BY <1>1 DEF AccountInv, OwnerPart
<1>7. FeedbackPart'
  <2>1. ASSUME NEW r \in rows', r.table = "feedback"
        PROVE  \E t \in rows' : /\ t.table = "trips" /\ t.owner = r.owner
                                /\ t.id = r.about
    BY <1>1, <1>3, <2>1, TripOf
  <2>2. ASSUME NEW o \in Sessions, req'[o].op = "delete"
        PROVE  \A r \in rows' : r.table = "feedback"
                                /\ r.about \in req'[o].gone
                                  => r.id \in req'[o].gone
    BY <1>1, <1>2, <2>2 DEF AccountInv, FeedbackPart
  <2> QED
    BY <2>1, <2>2 DEF FeedbackPart, Ids, RowsOf
<1>8. DeletedPart'
  BY <1>1, <1>2 DEF AccountInv, DeletedPart
<1> QED
  BY <1>4, <1>5, <1>6, <1>7, <1>8 DEF AccountInv

-----------------------------------------------------------------------------
(* The statements of a deletion.                                           *)

(* A step of the deletion changes what it holds, not the tables.  The rows *)
(* it holds have ids; of what it has been through an undisturbed deletion  *)
(* holds every row of the account, and with a trip its feedback.           *)
LEMMA StatementKeeps ==
  ASSUME AccountInv, NEW s \in Sessions, NEW q \in DeletionType,
         req[s].op = "delete", UNCHANGED <<accounts, rows, inserted>>,
         req' = [req EXCEPT ![s] = q],
         \A i \in q.gone : i <= inserted,
         \A r \in rows : r.table = "feedback" /\ r.about \in q.gone
                           => r.id \in q.gone,
         ~ q.disturbed =>
           \A r \in rows : r.owner = q.user /\ r.table \in Through(q.next)
                             => r.id \in q.gone
  PROVE  AccountInv'
<1>1. /\ req'[s] = q /\ q \in ReqType /\ q.op = "delete"
      /\ \A o \in Sessions \ {s} : req'[o] = req[o]
  BY DEF AccountInv, TypePart, ReqType, DeletionType
<1>2. TypePart'
  BY <1>1 DEF AccountInv, TypePart
<1>3. IdPart'
  BY <1>1 DEF AccountInv, IdPart
<1>4. OwnerPart'
  BY DEF AccountInv, OwnerPart
<1>5. FeedbackPart'
  BY <1>1 DEF AccountInv, FeedbackPart, RowsOf, Ids
<1>6. DeletedPart'
  BY <1>1 DEF AccountInv, DeletedPart
<1> QED
  BY <1>2, <1>3, <1>4, <1>5, <1>6 DEF AccountInv

(* A DELETE adds ids of rows to what the deletion holds.                   *)
LEMMA DeleteStep ==
  ASSUME AccountInv, NEW s \in Sessions, req[s].op = "delete",
         NEW some \in SUBSET rows, NEW next \in Statements,
         Delete(s, some, next),
         \A r \in rows : r.table = "feedback" /\ r.about \in Ids(some)
                           => r.id \in req[s].gone \union Ids(some),
         ~ req[s].disturbed =>
           \A r \in rows : r.owner = req[s].user /\ r.table \in Through(next)
                             => r.id \in req[s].gone \union Ids(some)
  PROVE  AccountInv'
<1> DEFINE q == [req[s] EXCEPT !.gone = @ \union Ids(some), !.next = next]
<1>1. req[s] \in DeletionType
  BY ReqTypes DEF AccountInv
<1>2. Ids(some) \subseteq Nat /\ \A i \in Ids(some) : i <= inserted
  BY DEF AccountInv, TypePart, RowType, IdPart, Ids
<1>3. /\ q \in DeletionType /\ q.gone = req[s].gone \union Ids(some)
      /\ q.next = next /\ q.user = req[s].user
      /\ q.disturbed = req[s].disturbed
  BY <1>1, <1>2 DEF DeletionType
<1>4. UNCHANGED <<accounts, rows, inserted>> /\ req' = [req EXCEPT ![s] = q]
  BY DEF Delete, AccountInv, TypePart
<1>5. \A i \in q.gone : i <= inserted
  BY <1>2, <1>3 DEF AccountInv, IdPart
<1>6. \A r \in rows : r.table = "feedback" /\ r.about \in q.gone
                        => r.id \in q.gone
  BY <1>3 DEF AccountInv, FeedbackPart
<1> HIDE DEF q
<1> QED
  BY <1>3, <1>4, <1>5, <1>6, StatementKeeps

(* No trip's id is that of a row of another table, so that deleting those  *)
(* rows takes no trip away from its feedback.                              *)
LEMMA OthersHaveNoFeedback ==
  ASSUME AccountInv, NEW some \in SUBSET rows,
         \A r \in some : r.table # "trips"
  PROVE  \A r \in rows : r.table = "feedback" => r.about \notin Ids(some)
<1> SUFFICES ASSUME NEW r \in rows, r.table = "feedback",
                    NEW o \in some, o.id = r.about
             PROVE  FALSE
  BY DEF Ids
<1>1. PICK t \in rows : t.table = "trips" /\ t.id = r.about
  BY TripOf
<1> QED
  BY <1>1 DEF AccountInv, IdPart

(* The statements before the one on the trips.                             *)
LEMMA EarlyStatements ==
  ASSUME AccountInv, NEW s \in Sessions,
         \/ DeleteEvents(s) \/ DeleteTokens(s) \/ DeleteFeedback(s)
         \/ SelectTrips(s) \/ DeleteTripFeedback(s)
  PROVE  AccountInv'
<1> DEFINE u == req[s].user
<1>1. req[s].op = "delete" /\ req[s] \in DeletionType
  BY ReqTypes DEF DeleteEvents, DeleteTokens, DeleteFeedback, SelectTrips,
                  DeleteTripFeedback, At, AccountInv
<1>2. ~ req[s].disturbed =>
        \A r \in rows : r.owner = u /\ r.table \in Through(req[s].next)
                          => r.id \in req[s].gone
  BY <1>1 DEF AccountInv, DeletedPart
<1>3. ASSUME NEW table \in {"events", "device_tokens", "feedback"}
      PROVE  /\ RowsOf(table, u) \in SUBSET rows
             /\ \A r \in RowsOf(table, u) : r.table # "trips"
             /\ \A r \in rows : r.table = table /\ r.owner = u
                                  => r.id \in Ids(RowsOf(table, u))
  BY DEF RowsOf, Ids
<1>4. CASE DeleteEvents(s)
  BY <1>1, <1>3, <1>4, DeleteStep, OthersHaveNoFeedback
     DEF DeleteEvents, Through, Statements
<1>5. CASE DeleteTokens(s)
  BY <1>1, <1>2, <1>3, <1>5, DeleteStep, OthersHaveNoFeedback
     DEF DeleteTokens, At, Through, Statements
<1>6. CASE DeleteFeedback(s)
  BY <1>1, <1>2, <1>3, <1>6, DeleteStep, OthersHaveNoFeedback
     DEF DeleteFeedback, At, Through, Statements
<1>7. CASE SelectTrips(s)
  <2> DEFINE ids == Ids(RowsOf("trips", u))
             q == [req[s] EXCEPT
                     !.trips = ids,
                     !.next = IF ids = {} THEN "trips" ELSE "trip_feedback"]
  <2>1. /\ req' = [req EXCEPT ![s] = q] /\ req[s].next = "select"
        /\ UNCHANGED <<accounts, rows, inserted>>
    BY <1>7 DEF SelectTrips, At, AccountInv, TypePart
  <2>2. ids \in SUBSET Nat
    BY DEF Ids, RowsOf, AccountInv, TypePart, RowType
  <2>3. /\ q \in DeletionType /\ q.gone = req[s].gone /\ q.user = u
        /\ q.next \in {"trips", "trip_feedback"}
        /\ q.disturbed = req[s].disturbed
    BY <1>1, <2>2 DEF DeletionType, Statements
  <2>4. /\ \A i \in q.gone : i <= inserted
        /\ \A r \in rows : r.table = "feedback" /\ r.about \in q.gone
                             => r.id \in q.gone
    BY <1>1, <2>3 DEF AccountInv, IdPart, FeedbackPart
  <2>5. Through(q.next) = Through(req[s].next)
    BY <2>1, <2>3 DEF Through
  <2> HIDE DEF q
  <2> QED
    BY <1>1, <1>2, <2>1, <2>3, <2>4, <2>5, StatementKeeps
<1>8. CASE DeleteTripFeedback(s)
  <2> DEFINE some == {r \in rows : r.table = "feedback"
                                   /\ r.about \in req[s].trips}
  <2>1. some \in SUBSET rows /\ \A r \in some : r.table # "trips"
    OBVIOUS
  <2>2. Delete(s, some, "trips") /\ req[s].next = "trip_feedback"
    BY <1>8 DEF DeleteTripFeedback, At
  <2>3. Through("trips") = Through("trip_feedback") /\ "trips" \in Statements
    BY DEF Through, Statements
  <2> HIDE DEF some
  <2> QED
    BY <1>1, <1>2, <2>1, <2>2, <2>3, DeleteStep, OthersHaveNoFeedback,
       ZenonT(30)
<1> QED
  BY <1>4, <1>5, <1>6, <1>7, <1>8

(* The database refuses a statement of a disturbed deletion.               *)
LEMMA RefusedKeeps ==
  ASSUME AccountInv, NEW s \in Sessions, req[s].op = "delete",
         req[s].disturbed, RolledBack(s)
  PROVE  AccountInv'
<1>1. req[s].disturbed \in BOOLEAN
  BY ReqTypes DEF AccountInv, DeletionType
<1>2. /\ req'[s] = Conflict(TRUE)
      /\ Conflict(TRUE) \in ReqType /\ Conflict(TRUE).op = "conflict"
      /\ Conflict(TRUE).disturbed
      /\ \A o \in Sessions \ {s} : req'[o] = req[o]
      /\ req' \in [Sessions -> ReqType]
      /\ UNCHANGED <<accounts, rows, inserted>>
  BY <1>1 DEF RolledBack, AccountInv, TypePart, ReqType, Conflict, ConflictType
<1>3. TypePart' /\ IdPart' /\ OwnerPart'
  BY <1>2, ZenonT(30) DEF AccountInv, TypePart, IdPart, OwnerPart
<1>4. FeedbackPart'
  BY <1>2 DEF AccountInv, FeedbackPart, RowsOf, Ids
<1>5. DeletedPart'
  BY <1>2 DEF AccountInv, DeletedPart
<1> QED
  BY <1>3, <1>4, <1>5 DEF AccountInv

(* The trips: feedback about one of them is the account's own, so that an  *)
(* undisturbed deletion has deleted it before.                             *)
LEMMA TripsStatement ==
  ASSUME AccountInv, NEW s \in Sessions, DeleteTrips(s)
  PROVE  AccountInv'
<1> DEFINE u == req[s].user
           trips == RowsOf("trips", u)
           left == {r \in rows : r.id \notin req[s].gone}
<1>1. req[s].op = "delete" /\ req[s] \in DeletionType
      /\ req[s].next = "trips"
  BY ReqTypes DEF DeleteTrips, At, AccountInv
<1>2. ~ req[s].disturbed =>
        \A r \in rows : r.owner = u
                        /\ r.table \in {"events", "device_tokens", "feedback"}
                          => r.id \in req[s].gone
  BY <1>1 DEF AccountInv, DeletedPart, Through
<1>3. CASE \E r \in left : r.table = "feedback" /\ r.about \in Ids(trips)
  <2>1. PICK r \in left : r.table = "feedback" /\ r.about \in Ids(trips)
    BY <1>3
  <2>2. PICK t1 \in rows : t1.owner = u /\ t1.id = r.about
    BY <2>1 DEF Ids, RowsOf
  <2>3. PICK t2 \in rows : t2.owner = r.owner /\ t2.id = r.about
    BY <2>1, TripOf
  <2>4. r.owner = u
    BY <2>2, <2>3 DEF AccountInv, IdPart
  <2>5. req[s].disturbed
    BY <1>1, <1>2, <2>1, <2>4 DEF DeletionType
  <2>6. RolledBack(s)
    BY <1>3 DEF DeleteTrips
  <2> QED
    BY <1>1, <2>5, <2>6, RefusedKeeps
<1>4. CASE ~ \E r \in left : r.table = "feedback" /\ r.about \in Ids(trips)
  <2>1. Delete(s, trips, "user")
    BY <1>4 DEF DeleteTrips
  <2>2. trips \in SUBSET rows /\ "user" \in Statements
    BY DEF RowsOf, Statements
  <2>3. \A r \in rows : r.table = "feedback" /\ r.about \in Ids(trips)
                          => r.id \in req[s].gone \union Ids(trips)
    BY <1>4
  <2>4. ~ req[s].disturbed =>
          \A r \in rows : r.owner = u /\ r.table \in Through("user")
                            => r.id \in req[s].gone \union Ids(trips)
    BY <1>2 DEF Through
  <2> HIDE DEF trips
  <2> QED
    BY <1>1, <2>1, <2>2, <2>3, <2>4, DeleteStep
<1> QED
  BY <1>3, <1>4

(* The flush and the commit.  Feedback that is left keeps its trip: a trip *)
(* in the deletion's hands has taken it along, and feedback of the account *)
(* itself would have made the flush fail.                                  *)
LEMMA UserStatement ==
  ASSUME AccountInv, NEW s \in Sessions, DeleteUser(s)
  PROVE  AccountInv'
<1> DEFINE u == req[s].user
           left == {r \in rows : r.id \notin req[s].gone}
           orphan(r) == IF r.owner = u THEN [r EXCEPT !.owner = NoUser] ELSE r
<1>1. req[s].op = "delete" /\ req[s] \in DeletionType /\ u \in Users
      /\ req[s].next = "user"
  BY ReqTypes DEF DeleteUser, At, AccountInv, DeletionType
<1>2. CASE \E r \in left : r.owner = u /\ r.table # "trips"
  <2>1. PICK r \in rows : /\ r.id \notin req[s].gone
                          /\ r.owner = u /\ r.table # "trips"
    BY <1>2
  <2>2. r.table \in Through("user")
    BY <2>1 DEF Through, AccountInv, TypePart, RowType, Tables
  <2>3. req[s].disturbed
    BY <1>1, <2>1, <2>2 DEF AccountInv, DeletedPart
  <2>4. RolledBack(s)
    BY <1>2 DEF DeleteUser
  <2> QED
    BY <1>1, <2>3, <2>4, RefusedKeeps
<1>3. CASE ~ \E r \in left : r.owner = u /\ r.table # "trips"
  <2>1. /\ accounts' = accounts \ {u} /\ rows' = {orphan(r) : r \in left}
        /\ req' = [req EXCEPT ![s] = NoRequest] /\ inserted' = inserted
    BY <1>3 DEF DeleteUser
  <2>2. \A r \in rows :
          /\ orphan(r) \in RowType /\ orphan(r).id = r.id
          /\ orphan(r).table = r.table /\ orphan(r).by = r.by
          /\ orphan(r).about = r.about
          /\ r.owner # u => orphan(r) = r
          /\ r.owner = u => orphan(r).owner = NoUser
    BY DEF AccountInv, TypePart, RowType, Owners
  <2> HIDE DEF orphan
  <2>3. \A r \in rows' : \E o \in rows : /\ r = orphan(o)
                                         /\ o.id \notin req[s].gone
                                         /\ o.owner = u => o.table = "trips"
    BY <1>3, <2>1
  <2>4. /\ req'[s] = NoRequest /\ NoRequest \in ReqType
        /\ NoRequest.op = "idle"
        /\ \A o \in Sessions \ {s} : req'[o] = req[o]
        /\ req' \in [Sessions -> ReqType]
    BY <2>1 DEF AccountInv, TypePart, ReqType, NoRequest
  <2>5. TypePart'
    BY <2>1, <2>2, <2>3, <2>4 DEF AccountInv, TypePart
  <2>6. IdPart'
    <3>1. \A r \in rows' : r.id <= inserted'
      BY <2>1, <2>2, <2>3 DEF AccountInv, IdPart
    <3>2. \A r1, r2 \in rows' : r1.id = r2.id => r1 = r2
      BY <2>2, <2>3 DEF AccountInv, IdPart
    <3>3. ASSUME NEW o \in Sessions
          PROVE  /\ req'[o].op = "remove" =>
                      /\ req'[o].id <= inserted'
                      /\ \A r \in rows' :
                           r.id = req'[o].id => r.table = "device_tokens"
                 /\ req'[o].op = "delete" =>
                      \A i \in req'[o].gone : i <= inserted'
      BY <2>1, <2>2, <2>3, <2>4 DEF AccountInv, IdPart
    <3> QED
      BY <3>1, <3>2, <3>3 DEF IdPart
  <2>7. OwnerPart'
    BY <2>1, <2>2, <2>3 DEF AccountInv, OwnerPart
  <2>8. FeedbackPart'
    <3>1. ASSUME NEW r \in rows', r.table = "feedback"
          PROVE  \E t \in rows' : /\ t.table = "trips" /\ t.owner = r.owner
                                  /\ t.id = r.about
      <4>1. PICK o \in rows : /\ r = orphan(o) /\ o.id \notin req[s].gone
                              /\ o.owner = u => o.table = "trips"
        BY <2>3
      <4>2. o.table = "feedback" /\ o.owner # u /\ r = o
        BY <2>2, <3>1, <4>1
      <4>3. PICK t \in rows : /\ t.table = "trips" /\ t.owner = o.owner
                              /\ t.id = o.about
        BY <4>2, TripOf
      <4>4. t.id \notin req[s].gone
        BY <1>1, <4>1, <4>2, <4>3 DEF AccountInv, FeedbackPart
      <4>5. t \in rows'
        BY <2>1, <2>2, <4>2, <4>3, <4>4
      <4> QED
        BY <4>2, <4>3, <4>5
    <3>2. ASSUME NEW o \in Sessions, req'[o].op = "delete"
          PROVE  \A r \in rows' : r.table = "feedback"
                                  /\ r.about \in req'[o].gone
                                    => r.id \in req'[o].gone
      BY <2>2, <2>3, <2>4, <3>2 DEF AccountInv, FeedbackPart
    <3> QED
      BY <3>1, <3>2 DEF FeedbackPart, Ids, RowsOf
  <2>9. DeletedPart'
    <3>1. ASSUME NEW o \in Sessions, req'[o].op = "delete",
                 ~ req'[o].disturbed, NEW r \in rows',
                 r.owner = req'[o].user, r.table \in Through(req'[o].next)
          PROVE  r.id \in req'[o].gone
      <4>1. o # s /\ req'[o] = req[o] /\ req[o] \in DeletionType
        BY <2>4, <3>1, ReqTypes DEF AccountInv
      <4>2. PICK b \in rows : r = orphan(b)
        BY <2>3
      <4>3. b.owner = r.owner
        BY <2>2, <3>1, <4>1, <4>2, AccountAssumption DEF DeletionType
      <4> QED
        BY <2>2, <3>1, <4>1, <4>2, <4>3 DEF AccountInv, DeletedPart
    <3>2. \A o \in Sessions : req'[o].op = "conflict" => req'[o].disturbed
      BY <2>4 DEF AccountInv, DeletedPart
    <3> QED
      BY <3>1, <3>2 DEF DeletedPart
  <2> QED
    BY <2>5, <2>6, <2>7, <2>8, <2>9 DEF AccountInv
<1> QED
  BY <1>2, <1>3

-----------------------------------------------------------------------------
(* What a request can begin with.                                          *)
Opening(s) ==
  \E u \in Users :
    \/ RecordEvent(s, u) \/ PostTrip(s, u) \/ BeginDeletion(s, u)
    \/ \E d \in Devices : RegisterDevice(s, u, d) \/ UnregisterDevice(s, u, d)
    \/ \E t \in rows : SubmitFeedback(s, u, t)

LEMMA OpeningKeeps ==
  ASSUME AccountInv, NEW s \in Sessions, Opening(s)
  PROVE  AccountInv'
<1>1. PICK u \in Users :
        \/ RecordEvent(s, u) \/ PostTrip(s, u) \/ BeginDeletion(s, u)
        \/ \E d \in Devices :
             RegisterDevice(s, u, d) \/ UnregisterDevice(s, u, d)
        \/ \E t \in rows : SubmitFeedback(s, u, t)
  BY DEF Opening
<1>2. ASSUME NEW table \in Tables, NEW user \in Owners,
             NEW about \in Devices \union {NoThing} \union Nat,
             Begin(s, Insert(table, user, about))
      PROVE  AccountInv'
  <2>1. /\ Insert(table, user, about) \in ReqType
        /\ Insert(table, user, about).op = "insert"
    BY DEF Insert, InsertType, ReqType
  <2> QED
    BY <1>2, <2>1, BeginKeeps
<1>3. CASE RecordEvent(s, u) \/ PostTrip(s, u)
  BY <1>2, <1>3 DEF RecordEvent, PostTrip, Signed, Tables, Owners
<1>4. CASE BeginDeletion(s, u)
  <2> DEFINE q == Deletion(u, "events", {}, {}, FALSE)
  <2>1. /\ q \in ReqType /\ q.op = "delete" /\ q.gone = {}
        /\ q.next = "events"
    BY DEF Deletion, DeletionType, ReqType, Statements
  <2>2. Begin(s, q)
    BY <1>4 DEF BeginDeletion
  <2> HIDE DEF q
  <2> QED
    BY <2>1, <2>2, BeginKeeps
<1>5. ASSUME NEW d \in Devices, RegisterDevice(s, u, d)
      PROVE  AccountInv'
  BY <1>2, <1>5 DEF RegisterDevice, Tables, Owners
<1>6. ASSUME NEW d \in Devices, UnregisterDevice(s, u, d)
      PROVE  AccountInv'
  <2>1. PICK r \in Tokens(u, d) : Begin(s, Remove(r.id))
    BY <1>6 DEF UnregisterDevice
  <2>2. r \in rows /\ r.table = "device_tokens" /\ r.id \in Nat
    BY DEF Tokens, RowsOf, AccountInv, TypePart, RowType
  <2>3. /\ Remove(r.id) \in ReqType /\ Remove(r.id).op = "remove"
        /\ Remove(r.id).id = r.id
    BY <2>2 DEF Remove, RemoveType, ReqType
  <2> QED
    BY <2>1, <2>2, <2>3, BeginKeeps
<1>7. ASSUME NEW t \in rows, SubmitFeedback(s, u, t)
      PROVE  AccountInv'
  <2>1. t.id \in Nat
    BY DEF AccountInv, TypePart, RowType
  <2> QED
    BY <1>2, <1>7, <2>1 DEF SubmitFeedback, Tables, Owners
<1> QED
  BY <1>1, <1>3, <1>4, <1>5, <1>6, <1>7

LEMMA NextAccount ==
  ASSUME AccountInv, [AccountNext]_accountVars
  PROVE  AccountInv'
<1>1. CASE UNCHANGED accountVars
  BY <1>1 DEF accountVars, AccountInv, TypePart, IdPart, OwnerPart,
              FeedbackPart, DeletedPart, Ids, RowsOf
<1>2. ASSUME NEW s \in Sessions, Abort(s) PROVE AccountInv'
  BY <1>2, IdleKeeps DEF Abort
<1> QED
  BY <1>1, <1>2, OpeningKeeps, InsertKeeps, RemoveKeeps, EarlyStatements,
     TripsStatement, UserStatement
     DEF AccountNext, Opening

LEMMA AccountInductive == AccountSpec => []AccountInv
  BY InitAccount, NextAccount, PTL DEF AccountSpec

-----------------------------------------------------------------------------
(* All that can survive of a deleted account is a trip without an owner,   *)
(* and no feedback is without its trip (users.py:114-160).                 *)
THEOREM OnlyOrphansSurvive == AccountSpec => []OnlyOrphanTripsSurvive
<1>1. AccountInv => OnlyOrphanTripsSurvive
  BY DEF AccountInv, OwnerPart, FeedbackPart, OnlyOrphanTripsSurvive
<1> QED
  BY <1>1, AccountInductive, PTL

(* The order of the statements of a deletion respects the foreign keys:    *)
(* what the database refuses is what another request has added since.      *)
THEOREM RefusalMeansDisturbance == AccountSpec => []RefusedOnlyWhenDisturbed
<1>1. AccountInv => RefusedOnlyWhenDisturbed
  BY DEF AccountInv, DeletedPart, RefusedOnlyWhenDisturbed
<1> QED
  BY <1>1, AccountInductive, PTL

-----------------------------------------------------------------------------
(* Registrations of one device.                                            *)

LEMMA TokensAreFinite ==
  ASSUME TokenInv, NEW u, NEW d
  PROVE  /\ IsFiniteSet(Tokens(u, d)) /\ IsFiniteSet(Registering(u, d))
         /\ Cardinality(Tokens(u, d)) \in Nat
         /\ Cardinality(Registering(u, d)) \in Nat
         /\ Cardinality(Sessions) \in Nat
<1>1. Tokens(u, d) \in SUBSET rows /\ Registering(u, d) \in SUBSET Sessions
  BY DEF Tokens, RowsOf, Registering
<1>2. IsFiniteSet(Tokens(u, d)) /\ IsFiniteSet(Registering(u, d))
  BY <1>1, FS_Subset, AccountAssumption DEF TokenInv
<1> QED
  BY <1>2, FS_CardinalityType, AccountAssumption

(* A step that adds neither a token nor a registration keeps the bound.    *)
LEMMA ShrinkKeeps ==
  ASSUME TokenInv, IsFiniteSet(rows'),
         \A u \in Users, d \in Devices :
           /\ Tokens(u, d)' \subseteq Tokens(u, d)
           /\ Registering(u, d)' \subseteq Registering(u, d)
  PROVE  TokenInv'
<1>1. ASSUME NEW u \in Users, NEW d \in Devices
      PROVE  Cardinality(Tokens(u, d)') + Cardinality(Registering(u, d)')
               <= Cardinality(Sessions)
  <2> DEFINE T == Tokens(u, d)
             R == Registering(u, d)
  <2>1. /\ IsFiniteSet(T) /\ IsFiniteSet(R)
        /\ Cardinality(T) \in Nat /\ Cardinality(R) \in Nat
        /\ Cardinality(Sessions) \in Nat
        /\ Cardinality(T) + Cardinality(R) <= Cardinality(Sessions)
    BY TokensAreFinite DEF TokenInv, TokenPart
  <2>2. Tokens(u, d)' \in SUBSET T /\ Registering(u, d)' \in SUBSET R
    OBVIOUS
  <2> HIDE DEF T, R
  <2>3. /\ Cardinality(Tokens(u, d)') <= Cardinality(T)
        /\ IsFiniteSet(Tokens(u, d)')
    BY <2>1, <2>2, FS_Subset
  <2>4. /\ Cardinality(Registering(u, d)') <= Cardinality(R)
        /\ IsFiniteSet(Registering(u, d)')
    BY <2>1, <2>2, FS_Subset
  <2>5. Cardinality(Tokens(u, d)') \in Nat
        /\ Cardinality(Registering(u, d)') \in Nat
    BY <2>3, <2>4, FS_CardinalityType
  <2> QED
    BY <2>1, <2>3, <2>4, <2>5
<1> QED
  BY <1>1 DEF TokenInv, TokenPart

(* A slot takes a request that is no registration, or is emptied.          *)
LEMMA OtherSlotKeeps ==
  ASSUME AccountInv, TokenInv, NEW s \in Sessions, NEW q,
         UNCHANGED <<accounts, rows>>, req' = [req EXCEPT ![s] = q],
         ~ (q.op = "insert" /\ q.table = "device_tokens")
  PROVE  TokenInv'
<1>1. req'[s] = q /\ \A o \in Sessions \ {s} : req'[o] = req[o]
  BY DEF AccountInv, TypePart
<1>2. ASSUME NEW u \in Users, NEW d \in Devices
      PROVE  /\ Tokens(u, d)' \subseteq Tokens(u, d)
             /\ Registering(u, d)' \subseteq Registering(u, d)
  BY <1>1 DEF Tokens, RowsOf, Registering
<1> QED
  BY <1>2, ShrinkKeeps DEF TokenInv

(* A registration begins only while the device has no token: the requests  *)
(* alone are within the bound then.                                        *)
LEMMA RegisterKeeps ==
  ASSUME AccountInv, TokenInv, NEW s \in Sessions, NEW u \in Users,
         NEW d \in Devices, RegisterDevice(s, u, d)
  PROVE  TokenInv'
<1> DEFINE q == Insert("device_tokens", u, d)
<1>1. /\ Tokens(u, d) = {} /\ UNCHANGED <<accounts, rows>>
      /\ req' = [req EXCEPT ![s] = q]
      /\ q.table = "device_tokens" /\ q.user = u /\ q.about = d
  BY DEF RegisterDevice, Begin, Insert
<1>2. req'[s] = q /\ \A o \in Sessions \ {s} : req'[o] = req[o]
  BY <1>1 DEF AccountInv, TypePart
<1> HIDE DEF q
<1>3. ASSUME NEW v \in Users, NEW e \in Devices
      PROVE  Cardinality(Tokens(v, e)') + Cardinality(Registering(v, e)')
               <= Cardinality(Sessions)
  <2>1. Tokens(v, e)' = Tokens(v, e)
    BY <1>1 DEF Tokens, RowsOf
  <2>2. CASE v = u /\ e = d
    <3>1. Cardinality(Tokens(v, e)') = 0
      BY <1>1, <2>1, <2>2, FS_EmptySet
    <3>2. Registering(v, e)' \in SUBSET Sessions
      BY DEF Registering
    <3>3. /\ Cardinality(Registering(v, e)') <= Cardinality(Sessions)
          /\ IsFiniteSet(Registering(v, e)')
      BY <3>2, FS_Subset, AccountAssumption
    <3>4. Cardinality(Registering(v, e)') \in Nat
      BY <3>3, FS_CardinalityType
    <3> QED
      BY <3>1, <3>3, <3>4
  <2>3. CASE ~ (v = u /\ e = d)
    <3>1. Registering(v, e)' \in SUBSET Registering(v, e)
      BY <1>1, <1>2, <2>3 DEF Registering
    <3>2. /\ IsFiniteSet(Registering(v, e))
          /\ Cardinality(Registering(v, e)) \in Nat
          /\ Cardinality(Tokens(v, e)) \in Nat
          /\ Cardinality(Sessions) \in Nat
          /\ Cardinality(Tokens(v, e)) + Cardinality(Registering(v, e))
               <= Cardinality(Sessions)
      BY TokensAreFinite DEF TokenInv, TokenPart
    <3>3. /\ Cardinality(Registering(v, e)')
               <= Cardinality(Registering(v, e))
          /\ IsFiniteSet(Registering(v, e)')
      BY <3>1, <3>2, FS_Subset
    <3>4. Cardinality(Registering(v, e)') \in Nat
      BY <3>3, FS_CardinalityType
    <3> QED
      BY <2>1, <3>2, <3>3, <3>4
  <2> QED
    BY <2>2, <2>3
<1> QED
  BY <1>1, <1>3 DEF TokenInv, TokenPart

(* The commit of a registration turns it into a token.                     *)
LEMMA TokenInsertKeeps ==
  ASSUME AccountInv, TokenInv, NEW s \in Sessions, CommitRow(s)
  PROVE  TokenInv'
<1> DEFINE q == req[s]
           new == [id |-> inserted + 1, table |-> q.table, owner |-> q.user,
                   by |-> q.user, about |-> q.about]
<1>1. CASE ~ References(q.table, q.user, q.about)
  <2>1. /\ UNCHANGED <<accounts, rows>> /\ req' = [req EXCEPT ![s] = NoRequest]
        /\ NoRequest.op # "insert"
    BY <1>1 DEF CommitRow, NoRequest
  <2> QED
    BY <2>1, OtherSlotKeeps
<1>2. CASE References(q.table, q.user, q.about)
  <2>1. /\ q.op = "insert" /\ rows' = rows \union {new}
        /\ req' = [o \in Sessions |->
                     IF o = s THEN NoRequest
                     ELSE IF req[o].op = "delete" /\ req[o].user = q.user
                     THEN [req[o] EXCEPT !.disturbed = TRUE] ELSE req[o]]
    BY <1>2 DEF CommitRow
  <2>2. \A o \in Sessions : req'[o].op = "insert" => o # s /\ req'[o] = req[o]
    <3> TAKE o \in Sessions
    <3>1. CASE o = s
      BY <2>1, <3>1 DEF NoRequest
    <3>2. CASE o # s /\ req[o].op = "delete"
      <4>1. req[o] \in DeletionType
        BY <3>2, ReqTypes DEF AccountInv
      <4>2. req'[o] = [req[o] EXCEPT !.disturbed = TRUE] \/ req'[o] = req[o]
        BY <2>1, <3>2
      <4> QED
        BY <3>2, <4>1, <4>2 DEF DeletionType
    <3>3. CASE o # s /\ req[o].op # "delete"
      BY <2>1, <3>3
    <3> QED
      BY <3>1, <3>2, <3>3
  <2>3. IsFiniteSet(rows')
    BY <2>1, FS_AddElement DEF TokenInv
  <2>4. ASSUME NEW u \in Users, NEW d \in Devices
        PROVE  Cardinality(Tokens(u, d)') + Cardinality(Registering(u, d)')
                 <= Cardinality(Sessions)
    <3> DEFINE T == Tokens(u, d)
               R == Registering(u, d)
    <3>1. /\ IsFiniteSet(T) /\ IsFiniteSet(R)
          /\ Cardinality(T) \in Nat /\ Cardinality(R) \in Nat
          /\ Cardinality(Sessions) \in Nat
          /\ Cardinality(T) + Cardinality(R) <= Cardinality(Sessions)
      BY TokensAreFinite DEF TokenInv, TokenPart
    <3>2. CASE s \in R
      <4>1. Tokens(u, d)' = T \union {new}
        BY <2>1, <3>2 DEF Tokens, RowsOf, Registering
      <4>2. Registering(u, d)' \in SUBSET (R \ {s})
        BY <2>2 DEF Registering
      <4> HIDE DEF T, R, new
      <4>3. /\ Cardinality(Tokens(u, d)') <= Cardinality(T) + 1
            /\ Cardinality(Tokens(u, d)') \in Nat
        <5>1. /\ IsFiniteSet(T \union {new})
              /\ Cardinality(T \union {new}) =
                   IF new \in T THEN Cardinality(T) ELSE Cardinality(T) + 1
          BY <3>1, FS_AddElement
        <5> QED
          BY <3>1, <4>1, <5>1
      <4>4. /\ IsFiniteSet(R \ {s})
            /\ Cardinality(R \ {s}) = Cardinality(R) - 1
        BY <3>1, <3>2, FS_RemoveElement
      <4>5. /\ Cardinality(Registering(u, d)') <= Cardinality(R) - 1
            /\ IsFiniteSet(Registering(u, d)')
        BY <4>2, <4>4, FS_Subset
      <4>6. Cardinality(Registering(u, d)') \in Nat
        BY <4>5, FS_CardinalityType
      <4> QED
        BY <3>1, <4>3, <4>5, <4>6
    <3>3. CASE s \notin R
      <4>1. Tokens(u, d)' = T
        BY <2>1, <3>3 DEF Tokens, RowsOf, Registering
      <4>2. Registering(u, d)' \in SUBSET R
        BY <2>2 DEF Registering
      <4> HIDE DEF T, R
      <4>3. /\ Cardinality(Registering(u, d)') <= Cardinality(R)
            /\ IsFiniteSet(Registering(u, d)')
        BY <3>1, <4>2, FS_Subset
      <4>4. Cardinality(Registering(u, d)') \in Nat
        BY <4>3, FS_CardinalityType
      <4> QED
        BY <3>1, <4>1, <4>3, <4>4
    <3> QED
      BY <3>2, <3>3
  <2> QED
    BY <2>3, <2>4 DEF TokenInv, TokenPart
<1> QED
  BY <1>1, <1>2

(* The commit of a deletion takes tokens away.                             *)
LEMMA TokenUserKeeps ==
  ASSUME AccountInv, TokenInv, NEW s \in Sessions, DeleteUser(s)
  PROVE  TokenInv'
<1> DEFINE u == req[s].user
           left == {r \in rows : r.id \notin req[s].gone}
           orphan(r) == IF r.owner = u THEN [r EXCEPT !.owner = NoUser] ELSE r
<1>1. CASE \E r \in left : r.owner = u /\ r.table # "trips"
  <2>1. /\ UNCHANGED <<accounts, rows>>
        /\ req' = [req EXCEPT ![s] = Conflict(req[s].disturbed)]
        /\ Conflict(req[s].disturbed).op # "insert"
    BY <1>1 DEF DeleteUser, RolledBack, Conflict
  <2> QED
    BY <2>1, OtherSlotKeeps
<1>2. CASE ~ \E r \in left : r.owner = u /\ r.table # "trips"
  <2>1. /\ rows' = {orphan(r) : r \in left}
        /\ req' = [req EXCEPT ![s] = NoRequest]
    BY <1>2 DEF DeleteUser
  <2>2. \A r \in rows : orphan(r) = r \/ orphan(r).owner = NoUser
    BY DEF AccountInv, TypePart, RowType
  <2>3. IsFiniteSet(rows')
    <3>1. left \in SUBSET rows
      OBVIOUS
    <3>2. IsFiniteSet(left)
      BY <3>1, FS_Subset DEF TokenInv
    <3> DEFINE f == [r \in left |-> orphan(r)]
    <3>3. f \in Surjection(left, rows')
      BY <2>1 DEF Surjection
    <3> QED
      BY <3>2, <3>3, FS_Surjection
  <2> HIDE DEF orphan
  <2>4. /\ req'[s] = NoRequest /\ NoRequest.op # "insert"
        /\ \A o \in Sessions \ {s} : req'[o] = req[o]
    BY <2>1 DEF AccountInv, TypePart, NoRequest
  <2>5. ASSUME NEW v \in Users, NEW d \in Devices
        PROVE  /\ Tokens(v, d)' \subseteq Tokens(v, d)
               /\ Registering(v, d)' \subseteq Registering(v, d)
    BY <2>1, <2>2, <2>4, AccountAssumption DEF Tokens, RowsOf, Registering
  <2> QED
    BY <2>3, <2>5, ShrinkKeeps
<1> QED
  BY <1>1, <1>2

LEMMA OpeningBounded ==
  ASSUME AccountInv, TokenInv, NEW s \in Sessions, Opening(s)
  PROVE  TokenInv'
<1>1. ASSUME NEW q, Begin(s, q),
             ~ (q.op = "insert" /\ q.table = "device_tokens")
      PROVE  TokenInv'
  BY <1>1, OtherSlotKeeps DEF Begin
<1>2. PICK u \in Users :
        \/ RecordEvent(s, u) \/ PostTrip(s, u) \/ BeginDeletion(s, u)
        \/ \E d \in Devices :
             RegisterDevice(s, u, d) \/ UnregisterDevice(s, u, d)
        \/ \E t \in rows : SubmitFeedback(s, u, t)
  BY DEF Opening
<1>3. CASE RecordEvent(s, u)
  BY <1>1, <1>3 DEF RecordEvent, Insert
<1>4. CASE PostTrip(s, u)
  BY <1>1, <1>4 DEF PostTrip, Insert
<1>5. CASE BeginDeletion(s, u)
  BY <1>1, <1>5 DEF BeginDeletion, Deletion
<1>6. ASSUME NEW d \in Devices, UnregisterDevice(s, u, d) PROVE TokenInv'
  BY <1>1, <1>6 DEF UnregisterDevice, Remove
<1>7. ASSUME NEW t \in rows, SubmitFeedback(s, u, t) PROVE TokenInv'
  BY <1>1, <1>7 DEF SubmitFeedback, Insert
<1> QED
  BY <1>2, <1>3, <1>4, <1>5, <1>6, <1>7, RegisterKeeps

(* The steps of a deletion before its commit, and of a removal.            *)
LEMMA StepsBounded ==
  ASSUME AccountInv, TokenInv, NEW s \in Sessions,
         \/ CommitRemove(s) \/ Abort(s)
         \/ DeleteEvents(s) \/ DeleteTokens(s) \/ DeleteFeedback(s)
         \/ SelectTrips(s) \/ DeleteTripFeedback(s) \/ DeleteTrips(s)
  PROVE  TokenInv'
<1>1. ASSUME UNCHANGED <<accounts, rows>>, NEW q, req' = [req EXCEPT ![s] = q],
             q.op \in {"idle", "conflict", "delete"}
      PROVE  TokenInv'
  BY <1>1, OtherSlotKeeps
<1>2. CASE CommitRemove(s)
  <2>1. /\ rows' = {r \in rows : r.id # req[s].id}
        /\ req' = [req EXCEPT ![s] = NoRequest] /\ NoRequest.op = "idle"
    BY <1>2 DEF CommitRemove, NoRequest
  <2>2. rows' \in SUBSET rows
    BY <2>1
  <2>3. IsFiniteSet(rows')
    BY <2>2, FS_Subset DEF TokenInv
  <2>4. ASSUME NEW u \in Users, NEW d \in Devices
        PROVE  /\ Tokens(u, d)' \subseteq Tokens(u, d)
               /\ Registering(u, d)' \subseteq Registering(u, d)
    BY <2>1 DEF Tokens, RowsOf, Registering, AccountInv, TypePart
  <2> QED
    BY <2>3, <2>4, ShrinkKeeps
<1>3. CASE Abort(s)
  BY <1>1, <1>3 DEF Abort, NoRequest
<1>4. ASSUME NEW some, NEW next, Delete(s, some, next), req[s].op = "delete"
      PROVE  TokenInv'
  <2> DEFINE q == [req[s] EXCEPT !.gone = @ \union Ids(some), !.next = next]
  <2>1. q.op = "delete" /\ req' = [req EXCEPT ![s] = q]
    BY <1>4, ReqTypes DEF Delete, AccountInv, TypePart, DeletionType
  <2>2. UNCHANGED <<accounts, rows>>
    BY <1>4 DEF Delete
  <2> HIDE DEF q
  <2> QED
    BY <1>1, <2>1, <2>2
<1>5. CASE \/ DeleteEvents(s) \/ DeleteTokens(s) \/ DeleteFeedback(s)
           \/ DeleteTripFeedback(s)
  BY <1>4, <1>5 DEF DeleteEvents, DeleteTokens, DeleteFeedback,
                    DeleteTripFeedback, At
<1>6. CASE SelectTrips(s)
  <2> DEFINE ids == Ids(RowsOf("trips", req[s].user))
             q == [req[s] EXCEPT
                     !.trips = ids,
                     !.next = IF ids = {} THEN "trips" ELSE "trip_feedback"]
  <2>1. q.op = "delete" /\ req' = [req EXCEPT ![s] = q]
    BY <1>6, ReqTypes
       DEF SelectTrips, At, AccountInv, TypePart, DeletionType
  <2>2. UNCHANGED <<accounts, rows>>
    BY <1>6 DEF SelectTrips
  <2> HIDE DEF q
  <2> QED
    BY <1>1, <2>1, <2>2
<1>7. CASE DeleteTrips(s)
  <2>1. CASE RolledBack(s)
    BY <1>1, <2>1 DEF RolledBack, Conflict
  <2>2. CASE Delete(s, RowsOf("trips", req[s].user), "user")
    BY <1>4, <1>7, <2>2 DEF DeleteTrips, At
  <2> QED
    BY <1>7, <2>1, <2>2 DEF DeleteTrips
<1> QED
  BY <1>2, <1>3, <1>5, <1>6, <1>7

LEMMA InitToken == AccountInit => TokenInv
<1> SUFFICES ASSUME AccountInit PROVE TokenInv
  OBVIOUS
<1>1. ASSUME NEW u \in Users, NEW d \in Devices
      PROVE  Cardinality(Tokens(u, d)) + Cardinality(Registering(u, d))
               <= Cardinality(Sessions)
  <2>1. Tokens(u, d) = {} /\ Registering(u, d) = {}
    BY DEF AccountInit, Tokens, RowsOf, Registering, NoRequest
  <2> QED
    BY <2>1, FS_EmptySet, FS_CardinalityType, AccountAssumption
<1> QED
  BY <1>1, FS_EmptySet DEF AccountInit, TokenInv, TokenPart

LEMMA NextToken ==
  ASSUME AccountInv, TokenInv, [AccountNext]_accountVars
  PROVE  TokenInv'
<1>1. CASE UNCHANGED accountVars
  BY <1>1 DEF accountVars, TokenInv, TokenPart, Tokens, RowsOf, Registering
<1> QED
  BY <1>1, OpeningBounded, TokenInsertKeeps, StepsBounded, TokenUserKeeps
     DEF AccountNext, Opening

(* A device has at most as many token rows as there are concurrent         *)
(* requests: a second token takes two registrations that both looked       *)
(* before either had committed (devices.py:36-49).                         *)
THEOREM TokensAreBounded == AccountSpec => []TokenRowsBounded
<1>1. TokenInv => TokenRowsBounded
  <2> SUFFICES ASSUME TokenInv, NEW u \in Users, NEW d \in Devices
               PROVE  Cardinality(Tokens(u, d)) <= Cardinality(Sessions)
    BY DEF TokenRowsBounded
  <2> QED
    BY TokensAreFinite DEF TokenInv, TokenPart
<1>2. AccountSpec => []TokenInv
  BY InitToken, NextToken, AccountInductive, PTL DEF AccountSpec
<1> QED
  BY <1>1, <1>2, PTL
=============================================================================
