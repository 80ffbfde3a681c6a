-------------------------- MODULE Planning_proofs --------------------------
(***************************************************************************)
(* What a recommendation promises, for any number of overlapping requests, *)
(* restarts, failures and changes of AeroDataBox's mind; and what a search *)
(* promises, for any replies and lists of flights.                         *)
(***************************************************************************)
EXTENDS Planning, FlightSearch, TLAPS, WellFoundedInduction,
        SequenceTheorems

Fields == {"at", "home", "overrides", "loaded", "saved", "kept", "looked",
           "context", "snapshot", "life", "outcome"}

IsRequest(q) == q = [field \in Fields |-> q[field]]

IsRow(x) == x = [prefs |-> x.prefs, home |-> x.home]
            /\ x.prefs \in Preferences

(* Overrides that turn preferences into preferences.                       *)
IsOverride(o) ==
  \A prefs \in Preferences : /\ Effective(prefs, o) \in Preferences
                             /\ DOMAIN o \subseteq DOMAIN prefs

IsFlights(flights) ==
  /\ flights = <<>> \/ flights # None
  /\ flights \in Seq({flights[i] : i \in DOMAIN flights})
  /\ \A i \in DOMAIN flights : Departure(flights[i]) \in Int \union {None}

IsSnapshot(s) ==
  /\ s = [departure |-> s.departure, gate |-> s.gate, hour |-> s.hour,
          source |-> s.source]
  /\ s.departure \in Int

Underway == {"home", "commit", "context", "flight", "answer", "load", "save"}

-----------------------------------------------------------------------------
(* The parts of the invariant.                                             *)

RequestTypes(q) ==
  /\ IsRequest(q)
  /\ q.at \in Underway \union {"idle", "done"}
  /\ IsOverride(q.overrides)
  /\ q.loaded = None \/ IsRow(q.loaded)
  /\ q.at \in {"commit", "save"} => IsRow(q.loaded)
  /\ q.at \in {"flight", "answer", "load", "save"} \/ q.outcome = 200 =>
       q.context.prefs \in Preferences
  /\ q.at \in {"answer", "load", "save"} \/ q.outcome = 200 =>
       q.looked \in {"ok", "crashed"}
  /\ q.looked # "none" =>
       /\ q.looked \in {"ok", "crashed"}
       /\ IsSnapshot(q.snapshot) /\ q.life \in Nat
  /\ q.at = "idle" => q.saved = FALSE /\ q.kept = FALSE /\ q.looked = "none"
                      /\ q.outcome = 0 /\ q.loaded = None

PlanTypes ==
  /\ bounds = [homes |-> bounds.homes, overrides |-> bounds.overrides,
               faults |-> bounds.faults, news |-> bounds.news,
               restarts |-> bounds.restarts, evictions |-> bounds.evictions]
  /\ bounds.faults \in Nat /\ bounds.restarts \in Nat
  /\ bounds.evictions \in Nat
  /\ \A o \in bounds.overrides : IsOverride(o)
  /\ \A reply \in bounds.news \union {adb} : ReplyTypes(reply)
  /\ WorldTypes(world)
  /\ cache = None \/ IsFlights(cache)
  /\ IsRow(row) /\ (store = None \/ IsRow(store))
  /\ req = [r \in Requests |-> req[r]]
  /\ \A r \in Requests : RequestTypes(req[r])
  /\ met \in [Requests -> SUBSET Requests]

(* Requests that are under way at once have met, and none meets itself.    *)
MetPart ==
  /\ \A r \in Requests : r \notin met[r]
  /\ \A r, q \in Requests :
       /\ r # q /\ req[r].at \in Underway /\ req[q].at \in Underway
       => q \in met[r]

(* A snapshot is the fallback or a departure that was reported.            *)
ReportedPart ==
  \A r \in Requests : req[r].looked # "none" =>
    \/ req[r].snapshot.source = "fallback"
    \/ req[r].snapshot.departure \in reported

(* Lives are counted down.  What was planned from AeroDataBox's answer in  *)
(* this one is still cached.                                               *)
LifePart ==
  \A r \in Requests : req[r].looked # "none" =>
    /\ req[r].life >= Lives
    /\ req[r].life = Lives /\ req[r].snapshot.source = "adb" => cache # None

(* Another request that brings an address was under way as well.           *)
Rival(r) == \E q \in met[r] : req[q].home # None

(* The address a request has saved is still in the row when it is read,    *)
(* and the one it was going to save is still missing when it saves it,     *)
(* unless it has a rival.                                                  *)
HomeOf(q, home, rival) ==
  /\ q.at \in {"home", "commit"} => q.home # None /\ q.saved = FALSE
  /\ q.at \in {"home", "commit", "context"} => q.outcome # 200
  /\ q.at = "commit" => home = q.loaded.home \/ rival
  /\ q.at = "context" /\ q.saved => home = q.home \/ rival
  /\ /\ q.at \in {"flight", "answer", "load", "save"} \/ q.outcome = 200
     /\ q.saved
     => q.context.home = q.home \/ ~ q.context.stored \/ rival
  /\ q.at = "idle" => q.home = None

HomePart == \A r \in Requests : HomeOf(req[r], row.home, Rival(r))

(* A request still has the copy of the row it has loaded.                  *)
HasCopy(q) ==
  q.at \in {"commit", "save"} \/ (q.at \in Underway /\ q.loaded # None)

(* Another request may have written k, on purpose or with its own copy.    *)
Overwriter(r, k) ==
  \E q \in Requests \ {r} :
    /\ req[q].overrides # NoOverrides
    /\ q \in met[r] \/ k \in DOMAIN req[q].overrides

MetWriter(r) == \E q \in met[r] : req[q].overrides # NoOverrides

(* A copy is the row's preferences as they are, unless someone who was met *)
(* writes them too.                                                        *)
CopyOf(q, prefs, writer) ==
  /\ q.at \in {"load", "save"} => q.overrides # NoOverrides
  /\ q.at = "idle" => q.overrides = NoOverrides
  /\ q.at # "done" => q.kept = FALSE
  /\ HasCopy(q) => prefs = q.loaded.prefs \/ writer

CopyPart == \A r \in Requests : CopyOf(req[r], row.prefs, MetWriter(r))

(* What was saved is in the row, and in the copies taken of it since.      *)
KeptPart ==
  \A r \in Requests : req[r].kept =>
    \A k \in DOMAIN req[r].overrides : ~ Overwriter(r, k) =>
      /\ row.prefs[k] = req[r].overrides[k]
      /\ \A q \in Requests \ ({r} \union met[r]) : HasCopy(req[q]) =>
           req[q].loaded.prefs[k] = req[r].overrides[k]

PlanInv ==
  PlanTypes /\ MetPart /\ ReportedPart /\ LifePart /\ HomePart
    /\ CopyPart /\ KeptPart

-----------------------------------------------------------------------------
(* What each step does to the request that takes it.                       *)

(* The other requests stay as they are.                                    *)
OnlyMoves(r) ==
  /\ req' = [q \in Requests |-> req'[q]]
  /\ \A q \in Requests : q # r => req'[q] = req[q]

LEMMA AskShape ==
  ASSUME PlanTypes, NEW r \in Requests, Ask(r)
  PROVE  \E home \in bounds.homes, overrides \in bounds.overrides :
           /\ OnlyMoves(r) /\ req[r].at = "idle"
           /\ req'[r] = [Idle EXCEPT
                !.at = IF home = None THEN "context" ELSE "home",
                !.home = home, !.overrides = overrides]
<1>1. PICK home \in bounds.homes, overrides \in bounds.overrides :
        req' = [req EXCEPT ![r] =
          [Idle EXCEPT !.at = IF home = None THEN "context" ELSE "home",
                       !.home = home, !.overrides = overrides]]
  BY DEF Ask
<1> DEFINE new ==
      [Idle EXCEPT !.at = IF home = None THEN "context" ELSE "home",
                   !.home = home, !.overrides = overrides]
<1>2. req' = [req EXCEPT ![r] = new]
  BY <1>1
<1> HIDE DEF new
<1>3. OnlyMoves(r) /\ req'[r] = new
  BY <1>2 DEF OnlyMoves, PlanTypes
<1>4. req[r].at = "idle"
  BY DEF Ask
<1> QED
  BY <1>3, <1>4 DEF new

LEMMA LoadForHomeShape ==
  ASSUME PlanTypes, NEW r \in Requests, LoadForHome(r)
  PROVE  /\ OnlyMoves(r) /\ req[r].at = "home"
         /\ \/ /\ UNCHANGED bounds
               /\ req'[r] = [req[r] EXCEPT !.at = "commit", !.loaded = row]
            \/ Spend /\ req'[r] = [req[r] EXCEPT !.at = "context"]
<1>1. CASE Spend /\ req' = [req EXCEPT ![r].at = "context"]
  BY <1>1 DEF LoadForHome, OnlyMoves, PlanTypes
<1>2. CASE Works /\ req' = [req EXCEPT ![r].at = "commit",
                                       ![r].loaded = row]
  <2> DEFINE new == [req[r] EXCEPT !.at = "commit", !.loaded = row]
  <2>1. req' = [req EXCEPT ![r] = new]
    BY <1>2 DEF PlanTypes
  <2> HIDE DEF new
  <2>2. OnlyMoves(r) /\ req'[r] = new
    BY <2>1 DEF OnlyMoves, PlanTypes
  <2> QED
    BY <1>2, <2>2 DEF new, Works, LoadForHome
<1> QED
  BY <1>1, <1>2 DEF LoadForHome

LEMMA CommitHomeShape ==
  ASSUME PlanTypes, NEW r \in Requests, CommitHome(r)
  PROVE  /\ OnlyMoves(r) /\ req[r].at = "commit"
         /\ \/ /\ row' = IF req[r].loaded.home = req[r].home THEN row
                         ELSE [row EXCEPT !.home = req[r].home]
               /\ UNCHANGED bounds
               /\ req'[r] = [req[r] EXCEPT !.at = "context", !.saved = TRUE,
                    !.loaded = [req[r].loaded EXCEPT !.home = req[r].home]]
            \/ /\ Spend /\ UNCHANGED row
               /\ req'[r] = [req[r] EXCEPT !.at = "context", !.loaded = None]
<1>0. IsRequest(req[r]) /\ req[r].at = "commit"
  BY DEF PlanTypes, RequestTypes, CommitHome
<1>1. CASE /\ Works
           /\ row' = IF req[r].loaded.home = req[r].home THEN row
                     ELSE [row EXCEPT !.home = req[r].home]
           /\ req' = [req EXCEPT ![r].at = "context", ![r].saved = TRUE,
                                 ![r].loaded.home = req[r].home]
  <2> DEFINE new == [req[r] EXCEPT !.at = "context", !.saved = TRUE,
                     !.loaded = [req[r].loaded EXCEPT !.home = req[r].home]]
  <2>1. [req[r] EXCEPT !.at = "context", !.saved = TRUE,
                       !.loaded.home = req[r].home] = new
    BY <1>0 DEF IsRequest, Fields
  <2>2. req' = [req EXCEPT ![r] = new]
    BY <1>1, <2>1 DEF PlanTypes
  <2> HIDE DEF new
  <2>3. OnlyMoves(r) /\ req'[r] = new
    BY <2>2 DEF OnlyMoves, PlanTypes
  <2> QED
    BY <1>0, <1>1, <2>3 DEF new, Works
<1>2. CASE /\ Spend
           /\ req' = [req EXCEPT ![r].at = "context", ![r].loaded = None]
           /\ UNCHANGED row
  <2> DEFINE new == [req[r] EXCEPT !.at = "context", !.loaded = None]
  <2>1. req' = [req EXCEPT ![r] = new]
    BY <1>2 DEF PlanTypes
  <2> HIDE DEF new
  <2>2. OnlyMoves(r) /\ req'[r] = new
    BY <2>1 DEF OnlyMoves, PlanTypes
  <2> QED
    BY <1>0, <1>2, <2>2 DEF new
<1> QED
  BY <1>1, <1>2 DEF CommitHome

(* The request ends at this place with this status.                        *)
Concludes(old, new, at, code) == new = [old EXCEPT !.at = at, !.outcome = code]

(* It takes its context from the row or from the store's copy.             *)
Reads(old, new, from) ==
  new = [old EXCEPT !.at = "flight", !.context =
           [prefs |-> Effective(from.prefs, old.overrides),
            home |-> from.home, stored |-> from = row]]

LEMMA ConcludesFields ==
  ASSUME NEW old, IsRequest(old), NEW at, NEW code, NEW new,
         Concludes(old, new, at, code)
  PROVE  /\ IsRequest(new) /\ new.at = at /\ new.outcome = code
         /\ new.home = old.home /\ new.overrides = old.overrides
         /\ new.loaded = old.loaded /\ new.saved = old.saved
         /\ new.kept = old.kept /\ new.looked = old.looked
         /\ new.context = old.context /\ new.snapshot = old.snapshot
         /\ new.life = old.life
  BY DEF Concludes, IsRequest, Fields

LEMMA ReadsFields ==
  ASSUME NEW old, IsRequest(old), NEW from, NEW new, Reads(old, new, from)
  PROVE  /\ IsRequest(new) /\ new.at = "flight"
         /\ new.context.prefs = Effective(from.prefs, old.overrides)
         /\ new.context.home = from.home
         /\ new.context.stored = (from = row)
         /\ new.outcome = old.outcome
         /\ new.home = old.home /\ new.overrides = old.overrides
         /\ new.loaded = old.loaded /\ new.saved = old.saved
         /\ new.kept = old.kept /\ new.looked = old.looked
         /\ new.snapshot = old.snapshot /\ new.life = old.life
<1>1. PICK stored : stored = (from = row)
  OBVIOUS
<1>2. PICK prefs : prefs = Effective(from.prefs, old.overrides)
  OBVIOUS
<1>3. PICK home : home = from.home
  OBVIOUS
<1>4. PICK c : c = [prefs |-> prefs, home |-> home, stored |-> stored]
  OBVIOUS
<1>5. new = [old EXCEPT !.at = "flight", !.context = c]
  BY <1>1, <1>2, <1>3, <1>4 DEF Reads
<1>6. c.prefs = prefs /\ c.home = home /\ c.stored = stored
  BY <1>4
<1> QED
  BY <1>1, <1>2, <1>3, <1>5, <1>6 DEF IsRequest, Fields

LEMMA ReadContextShape ==
  ASSUME PlanTypes, NEW r \in Requests, ReadContext(r)
  PROVE  \E from \in {row, store} :
           /\ OnlyMoves(r) /\ req[r].at = "context"
           /\ UNCHANGED bounds \/ Spend
           /\ \/ from = None /\ Concludes(req[r], req'[r], "done", 404)
              \/ from # None /\ Reads(req[r], req'[r], from)
<1>1. PICK code : code = 404
  OBVIOUS
<1>2. PICK from \in {row, store} :
        /\ IF from = row THEN Works ELSE Spend
        /\ req' = IF from = None
                  THEN [req EXCEPT ![r].at = "done", ![r].outcome = 404]
                  ELSE [req EXCEPT ![r].at = "flight", ![r].context =
                          [prefs |-> Effective(from.prefs, req[r].overrides),
                           home |-> from.home, stored |-> from = row]]
  BY Zenon DEF ReadContext
<1>3. PICK context :
        context = [prefs |-> Effective(from.prefs, req[r].overrides),
                   home |-> from.home, stored |-> from = row]
  OBVIOUS
<1>4. req = [q \in Requests |-> req[q]]
  BY DEF PlanTypes
<1>5. PICK new : new = IF from = None
                       THEN [req[r] EXCEPT !.at = "done", !.outcome = code]
                       ELSE [req[r] EXCEPT !.at = "flight",
                                           !.context = context]
  OBVIOUS
<1>6. req' = [req EXCEPT ![r] = new]
  <2>1. CASE from = None
    <3>1. req' = [req EXCEPT ![r].at = "done", ![r].outcome = code]
      BY <1>1, <1>2, <2>1, Zenon
    <3> QED
      BY <1>4, <1>5, <2>1, <3>1
  <2>2. CASE from # None
    <3>1. req' = [req EXCEPT ![r].at = "flight", ![r].context = context]
      BY <1>2, <1>3, <2>2
    <3> QED
      BY <1>4, <1>5, <2>2, <3>1
  <2> QED
    BY <2>1, <2>2
<1>7. OnlyMoves(r) /\ req'[r] = new
  BY <1>4, <1>6 DEF OnlyMoves
<1>8. /\ req[r].at = "context"
      /\ UNCHANGED bounds \/ Spend
  BY <1>2 DEF ReadContext, Works
<1>9. from = None => Concludes(req[r], req'[r], "done", 404)
  BY <1>1, <1>5, <1>7 DEF Concludes
<1>10. from # None => Reads(req[r], req'[r], from)
  BY <1>3, <1>5, <1>7 DEF Reads
<1> QED
  BY <1>2, <1>7, <1>8, <1>9, <1>10, Zenon

(* It has a flight to plan for, found in this way.                         *)
Looks(old, new, looked, s) ==
  new = [old EXCEPT !.at = "answer", !.looked = looked, !.life = Lives,
                    !.snapshot = s]

LEMMA LooksFields ==
  ASSUME NEW old, IsRequest(old), NEW looked, NEW s, NEW new,
         Looks(old, new, looked, s)
  PROVE  /\ IsRequest(new) /\ new.at = "answer" /\ new.looked = looked
         /\ new.life = Lives /\ new.snapshot = s
         /\ new.home = old.home /\ new.overrides = old.overrides
         /\ new.loaded = old.loaded /\ new.saved = old.saved
         /\ new.kept = old.kept /\ new.context = old.context
         /\ new.outcome = old.outcome
<1>1. PICK life : life = Lives
  OBVIOUS
<1>2. new = [old EXCEPT !.at = "answer", !.looked = looked, !.life = life,
                        !.snapshot = s]
  BY <1>1 DEF Looks
<1>3. /\ IsRequest(new) /\ new.at = "answer" /\ new.looked = looked
      /\ new.life = life /\ new.snapshot = s
      /\ new.home = old.home /\ new.overrides = old.overrides
      /\ new.loaded = old.loaded /\ new.saved = old.saved
      /\ new.kept = old.kept /\ new.context = old.context
      /\ new.outcome = old.outcome
  BY <1>2 DEF IsRequest, Fields
<1> QED
  BY <1>1, <1>3

LEMMA PlannedShape ==
  ASSUME PlanTypes, NEW r \in Requests, NEW looked, NEW s,
         Planned(r, looked, s)
  PROVE  OnlyMoves(r) /\ Looks(req[r], req'[r], looked, s)
<1>1. PICK life : life = Lives
  OBVIOUS
<1>2. PICK new : new = [req[r] EXCEPT !.at = "answer", !.looked = looked,
                                      !.life = life, !.snapshot = s]
  OBVIOUS
<1>3. req = [q \in Requests |-> req[q]]
  BY DEF PlanTypes
<1>4. req' = [req EXCEPT ![r].at = "answer", ![r].looked = looked,
                         ![r].life = life, ![r].snapshot = s]
  BY <1>1 DEF Planned
<1>5. req' = [req EXCEPT ![r] = new]
  BY <1>2, <1>3, <1>4
<1>6. OnlyMoves(r) /\ req'[r] = new
  BY <1>3, <1>5 DEF OnlyMoves
<1> QED
  BY <1>1, <1>2, <1>6 DEF Looks

(* What build_flight_snapshot does with the answer it gets: the error is   *)
(* passed on, the snapshot is made of the flights, or it is the fallback   *)
(* of an unexpected exception.                                             *)
Built(r, answer) ==
  /\ OnlyMoves(r) /\ req[r].at = "flight"
  /\ UNCHANGED bounds \/ Spend
  /\ Receives(answer.flights) \/ UNCHANGED <<cache, reported>>
  /\ \/ /\ IsError(answer)
        /\ \E code \in {429, 503} : Concludes(req[r], req'[r], "done", code)
     \/ /\ Receives(answer.flights)
        /\ Looks(req[r], req'[r], "ok",
                 SnapshotOf(answer.flights, None, Day))
     \/ Looks(req[r], req'[r], "crashed", FallbackSnapshot(Day))

LEMMA BuildSnapshotShape ==
  ASSUME PlanTypes, NEW r \in Requests, BuildSnapshot(r),
         NEW answer, answer = FlightsNow
  PROVE  Built(r, answer)
<1>1. req[r].at = "flight"
  BY DEF BuildSnapshot
<1> DEFINE shot == SnapshotOf(answer.flights, None, Day)
           fallback == FallbackSnapshot(Day)
           looked == IF IsError(answer) THEN "failed" ELSE "ok"
           refuses == req' = [req EXCEPT ![r].at = "done", ![r].outcome =
                        IF answer.error = RateLimited THEN 429 ELSE 503]
<1>2. \/ /\ Strict(answer) /\ refuses
         /\ Receives(answer.flights) /\ UNCHANGED bounds
      \/ /\ ~ Strict(answer) /\ Planned(r, looked, shot)
         /\ Receives(answer.flights) /\ UNCHANGED bounds
      \/ /\ Spend /\ Planned(r, "crashed", fallback)
         /\ Receives(answer.flights) \/ UNCHANGED <<cache, reported>>
  BY DEF BuildSnapshot
<1> HIDE DEF shot, fallback, refuses
<1>3. CASE /\ Strict(answer) /\ refuses
           /\ Receives(answer.flights) /\ UNCHANGED bounds
  <2>1. req' = [req EXCEPT ![r].at = "done", ![r].outcome =
                  IF answer.error = RateLimited THEN 429 ELSE 503]
    BY <1>3 DEF refuses
  <2>2. PICK code : code = IF answer.error = RateLimited THEN 429 ELSE 503
    OBVIOUS
  <2>3. PICK new : new = [req[r] EXCEPT !.at = "done", !.outcome = code]
    OBVIOUS
  <2>4. req = [q \in Requests |-> req[q]]
    BY DEF PlanTypes
  <2>5. req' = [req EXCEPT ![r].at = "done", ![r].outcome = code]
    BY <2>1, <2>2
  <2>6. req' = [req EXCEPT ![r] = new]
    BY <2>3, <2>4, <2>5
  <2>7. OnlyMoves(r) /\ req'[r] = new
    BY <2>4, <2>6 DEF OnlyMoves
  <2>8. code \in {429, 503}
    BY <2>2
  <2>9. Concludes(req[r], req'[r], "done", code)
    BY <2>3, <2>7 DEF Concludes
  <2>10. IsError(answer)
    BY <1>3 DEF Strict
  <2>11. \E c \in {429, 503} : Concludes(req[r], req'[r], "done", c)
    BY <2>8, <2>9, ZenonT(30)
  <2> QED
    BY <1>1, <1>3, <2>7, <2>10, <2>11, ZenonT(30) DEF Built
<1>4. CASE /\ ~ Strict(answer) /\ Planned(r, looked, shot)
           /\ Receives(answer.flights) /\ UNCHANGED bounds
  <2>1. looked = "ok"
    BY <1>4 DEF Strict
  <2>2. Planned(r, "ok", shot)
    BY <1>4, <2>1
  <2>3. OnlyMoves(r) /\ Looks(req[r], req'[r], "ok", shot)
    BY <2>2, PlannedShape
  <2> QED
    BY <1>1, <1>4, <2>3, ZenonT(30) DEF Built, shot
<1>5. CASE /\ Spend /\ Planned(r, "crashed", fallback)
           /\ Receives(answer.flights) \/ UNCHANGED <<cache, reported>>
  <2>1. OnlyMoves(r) /\ Looks(req[r], req'[r], "crashed", fallback)
    BY <1>5, PlannedShape
  <2> QED
    BY <1>1, <1>5, <2>1, ZenonT(30) DEF Built, fallback
<1> QED
  BY <1>2, <1>3, <1>4, <1>5

LEMMA RespondShape ==
  ASSUME PlanTypes, NEW r \in Requests, Respond(r)
  PROVE  /\ OnlyMoves(r) /\ req[r].at = "answer"
         /\ \E at \in {"done", "load", "save"} :
              /\ at # "done" => req[r].overrides # NoOverrides
              /\ at = "save" => req[r].loaded # None
              /\ Concludes(req[r], req'[r], at, 200)
<1>1. PICK at : at = IF req[r].overrides = NoOverrides THEN "done"
                     ELSE IF req[r].loaded = None THEN "load" ELSE "save"
  OBVIOUS
<1>2. /\ at \in {"done", "load", "save"}
      /\ at # "done" => req[r].overrides # NoOverrides
      /\ at = "save" => req[r].loaded # None
  BY <1>1
<1>3. PICK code : code = 200
  OBVIOUS
<1>4. req' = [req EXCEPT ![r].at = at, ![r].outcome = code]
      /\ req[r].at = "answer"
  BY <1>1, <1>3 DEF Respond
<1>5. req = [q \in Requests |-> req[q]]
  BY DEF PlanTypes
<1>6. PICK new : new = [req[r] EXCEPT !.at = at, !.outcome = code]
  OBVIOUS
<1>7. req' = [req EXCEPT ![r] = new]
  BY <1>4, <1>5, <1>6
<1>8. OnlyMoves(r) /\ req'[r] = new
  BY <1>5, <1>7 DEF OnlyMoves
<1>9. Concludes(req[r], req'[r], at, 200)
  BY <1>3, <1>6, <1>8 DEF Concludes
<1> QED
  BY <1>2, <1>4, <1>8, <1>9, Zenon


LEMMA LoadForOverridesShape ==
  ASSUME PlanTypes, NEW r \in Requests, LoadForOverrides(r)
  PROVE  /\ OnlyMoves(r) /\ req[r].at = "load"
         /\ \/ /\ UNCHANGED bounds
               /\ req'[r] = [req[r] EXCEPT !.at = "save", !.loaded = row]
            \/ Spend /\ req'[r] = [req[r] EXCEPT !.at = "done"]
<1>1. CASE Spend /\ req' = [req EXCEPT ![r].at = "done"]
  BY <1>1 DEF LoadForOverrides, OnlyMoves, PlanTypes
<1>2. CASE Works /\ req' = [req EXCEPT ![r].at = "save",
                                       ![r].loaded = row]
  <2> DEFINE new == [req[r] EXCEPT !.at = "save", !.loaded = row]
  <2>1. req' = [req EXCEPT ![r] = new]
    BY <1>2 DEF PlanTypes
  <2> HIDE DEF new
  <2>2. OnlyMoves(r) /\ req'[r] = new
    BY <2>1 DEF OnlyMoves, PlanTypes
  <2> QED
    BY <1>2, <2>2 DEF new, Works, LoadForOverrides
<1> QED
  BY <1>1, <1>2 DEF LoadForOverrides

LEMMA CommitOverridesShape ==
  ASSUME PlanTypes, NEW r \in Requests, CommitOverrides(r)
  PROVE  /\ OnlyMoves(r) /\ req[r].at = "save"
         /\ \/ /\ UNCHANGED bounds
               /\ row' = IF Merged(r) = req[r].loaded.prefs THEN row
                         ELSE [row EXCEPT !.prefs = Merged(r)]
               /\ req'[r] = [req[r] EXCEPT !.at = "done", !.kept = TRUE]
            \/ /\ Spend /\ UNCHANGED row
               /\ req'[r] = [req[r] EXCEPT !.at = "done"]
<1>0. req[r].at = "save"
  BY DEF CommitOverrides
<1>1. CASE Spend /\ UNCHANGED row /\ req' = [req EXCEPT ![r].at = "done"]
  BY <1>0, <1>1 DEF OnlyMoves, PlanTypes
<1>2. CASE /\ Works
           /\ row' = IF Merged(r) = req[r].loaded.prefs THEN row
                     ELSE [row EXCEPT !.prefs = Merged(r)]
           /\ req' = [req EXCEPT ![r].at = "done", ![r].kept = TRUE]
  <2> DEFINE new == [req[r] EXCEPT !.at = "done", !.kept = TRUE]
  <2>1. req' = [req EXCEPT ![r] = new]
    BY <1>2 DEF PlanTypes
  <2> HIDE DEF new
  <2>2. OnlyMoves(r) /\ req'[r] = new
    BY <2>1 DEF OnlyMoves, PlanTypes
  <2> QED
    BY <1>0, <1>2, <2>2 DEF new, Works
<1> QED
  BY <1>1, <1>2 DEF CommitOverrides

(* A restart ends what is under way.                                       *)
LEMMA RestartShape ==
  ASSUME PlanTypes, Restart
  PROVE  /\ bounds' = [bounds EXCEPT !.restarts = @ - 1]
         /\ bounds.restarts > 0
         /\ cache' = None /\ store' = None
         /\ req' = [r \in Requests |-> req'[r]]
         /\ \A r \in Requests :
              /\ req[r].at \in {"idle", "done"} => req'[r] = req[r]
              /\ req[r].at \notin {"idle", "done"} =>
                   req'[r] = [req[r] EXCEPT !.at = "done"]
  BY DEF Restart, InFlight, PlanTypes

-----------------------------------------------------------------------------
(* The operators.                                                          *)

(* Overrides that fit one set of preferences fit them all.                 *)
LEMMA OverridesFit ==
  ASSUME NEW prefs \in Preferences, NEW o,
         Effective(prefs, o) \in Preferences, DOMAIN o \subseteq DOMAIN prefs
  PROVE  IsOverride(o)
<1> SUFFICES ASSUME NEW p \in Preferences
             PROVE  Effective(p, o) \in Preferences
                    /\ DOMAIN o \subseteq DOMAIN p
  BY DEF IsOverride
<1>1. DOMAIN p = DOMAIN prefs
  BY DEF Preferences
<1> DEFINE e == Effective(prefs, o)
           f == Effective(p, o)
<1>2. \A k \in DOMAIN p : f[k] = e[k] \/ f[k] = p[k]
  BY <1>1 DEF Effective
<1>3. f = [k \in DOMAIN p |-> f[k]] /\ e = [k \in DOMAIN p |-> e[k]]
  BY <1>1 DEF Effective
<1>4. DOMAIN p = {"transport_mode", "confidence_profile", "bag_count",
                  "traveling_with_children", "extra_time_minutes",
                  "has_boarding_pass", "security_access",
                  "gate_time_minutes"}
  BY DEF Preferences
<1> HIDE DEF f, e
<1>5. e \in Preferences
  BY DEF e
<1>6. /\ f.transport_mode \in Modes
      /\ f.confidence_profile \in Profiles
      /\ f.bag_count \in 0..10
      /\ f.traveling_with_children \in BOOLEAN
  BY <1>2, <1>4, <1>5 DEF Preferences
<1>7. /\ f.extra_time_minutes \in {0, 15, 30}
      /\ f.has_boarding_pass \in BOOLEAN
      /\ f.security_access \in Accesses
      /\ f.gate_time_minutes \in (0..180) \union {None}
  BY <1>2, <1>4, <1>5 DEF Preferences
<1>8. f \in Preferences
  BY <1>3, <1>4, <1>6, <1>7 DEF Preferences
<1> QED
  BY <1>1, <1>8 DEF f

(* What a lookup answers is a list of flights, empty after an error.       *)
LEMMA LookupTypes ==
  ASSUME NEW reply, ReplyTypes(reply)
  PROVE  IsFlights(Lookup(reply).flights)
<1> DEFINE flights == Lookup(reply).flights
<1>1. IsFlights(<<>>)
  BY DEF IsFlights
<1>2. flights = <<>> \/ flights = reply.list
  <2>1. CASE reply.kind = "timeout"
    BY <2>1 DEF Lookup
  <2>2. CASE reply.kind \in {"connection", "malformed", "shape"}
    BY <2>2 DEF Lookup
  <2>3. CASE reply.kind = "status" /\ reply.status \in {200, 204}
    BY <2>3 DEF Lookup
  <2>4. CASE /\ reply.kind \notin {"timeout", "connection", "malformed",
                                  "shape"}
             /\ ~ (reply.kind = "status" /\ reply.status \in {200, 204})
    BY <2>4 DEF Lookup
  <2> QED
    BY <2>1, <2>2, <2>3, <2>4
<1>3. IsFlights(reply.list)
  BY DEF IsFlights, ReplyTypes, Departure, Delayed
<1> QED
  BY <1>1, <1>2, <1>3

LEMMA SnapshotTypes ==
  ASSUME NEW flights, IsFlights(flights), NEW s,
         s = SnapshotOf(flights, None, Day)
  PROVE  /\ IsSnapshot(s)
         /\ s.source = "adb" \/ s.source = "fallback"
         /\ s.source = "adb" =>
              /\ flights # <<>> /\ 1 \in DOMAIN flights
              /\ s.departure = Departure(flights[1])
<1>1. CASE flights = <<>>
  BY <1>1, PlanAssumption DEF SnapshotOf, FallbackSnapshot, IsSnapshot
<1>2. CASE flights # <<>>
  <2>1. 1 \in DOMAIN flights
    BY <1>2 DEF IsFlights
  <2>2. SelectFlight(flights, None) = flights[1]
    BY DEF SelectFlight
  <2>3. Departure(flights[1]) \in Int \union {None}
    BY <2>1 DEF IsFlights
  <2>4. s = IF Departure(flights[1]) = None THEN FallbackSnapshot(Day)
            ELSE [departure |-> Departure(flights[1]),
                  gate |-> flights[1].gate,
                  hour |-> IF Delayed(flights[1])
                           THEN RevisedHour(flights[1])
                           ELSE flights[1].localHour,
                  source |-> "adb"]
    BY <1>2, <2>2 DEF SnapshotOf
  <2> QED
    BY <1>2, <2>1, <2>3, <2>4, PlanAssumption
      DEF FallbackSnapshot, IsSnapshot
<1> QED
  BY <1>1, <1>2

-----------------------------------------------------------------------------
(* Types.                                                                  *)

LEMMA FlightsNowTypes ==
  ASSUME PlanTypes, NEW answer, answer = FlightsNow
  PROVE  /\ IsFlights(answer.flights)
         /\ cache # None => answer.flights = cache
         /\ LET c == Remember(answer.flights)
            IN  c = None \/ IsFlights(c)
<1>1. CASE cache # None
  BY <1>1 DEF PlanTypes, FlightsNow, Remember
<1>2. CASE cache = None
  <2>1. ReplyTypes(adb)
    BY DEF PlanTypes
  <2>2. answer = Lookup(adb)
    BY <1>2 DEF FlightsNow
  <2>3. IsFlights(answer.flights)
    BY <2>1, <2>2, LookupTypes
  <2> QED
    BY <1>2, <2>3 DEF Remember
<1> QED
  BY <1>1, <1>2

BoundsTypes(b) ==
  /\ b = [homes |-> b.homes, overrides |-> b.overrides, faults |-> b.faults,
          news |-> b.news, restarts |-> b.restarts,
          evictions |-> b.evictions]
  /\ b.faults \in Nat /\ b.restarts \in Nat /\ b.evictions \in Nat
  /\ \A o \in b.overrides : IsOverride(o)
  /\ \A reply \in b.news : ReplyTypes(reply)

LEMMA SpendTypes ==
  ASSUME NEW b, NEW c, BoundsTypes(b),
         \/ b.faults > 0 /\ c = [b EXCEPT !.faults = @ - 1]
         \/ b.restarts > 0 /\ c = [b EXCEPT !.restarts = @ - 1]
         \/ b.evictions > 0 /\ c = [b EXCEPT !.evictions = @ - 1]
         \/ \E reply : c = [b EXCEPT !.news = @ \ {reply}]
         \/ c = b
  PROVE  BoundsTypes(c)
<1>1. CASE b.faults > 0 /\ c = [b EXCEPT !.faults = @ - 1]
  BY <1>1 DEF BoundsTypes
<1>2. CASE b.restarts > 0 /\ c = [b EXCEPT !.restarts = @ - 1]
  BY <1>2 DEF BoundsTypes
<1>3. CASE \E reply : c = [b EXCEPT !.news = @ \ {reply}]
  BY <1>3 DEF BoundsTypes
<1>4. CASE b.evictions > 0 /\ c = [b EXCEPT !.evictions = @ - 1]
  BY <1>4 DEF BoundsTypes
<1> QED
  BY <1>1, <1>2, <1>3, <1>4

LEMMA BoundsOfTypes ==
  ASSUME PlanTypes
  PROVE  BoundsTypes(bounds)
  BY DEF PlanTypes, BoundsTypes

LEMMA LivesTypes ==
  ASSUME PlanTypes
  PROVE  Lives \in Nat
  BY DEF PlanTypes, Lives

(* Only a restart and an eviction cost a life.                             *)
LEMMA LivesStay ==
  ASSUME PlanTypes, UNCHANGED bounds \/ Spend
  PROVE  Lives' = Lives
<1>1. PICK b, c : b = bounds /\ c = bounds'
  OBVIOUS
<1>2. c = b \/ c = [b EXCEPT !.faults = @ - 1]
  BY <1>1 DEF Spend
<1>3. BoundsTypes(b)
  BY <1>1, BoundsOfTypes
<1>4. c.restarts = b.restarts /\ c.evictions = b.evictions
  BY <1>2, <1>3 DEF BoundsTypes
<1> QED
  BY <1>1, <1>4 DEF Lives

LEMMA LivesFall ==
  ASSUME PlanTypes, Restart \/ Evict
  PROVE  Lives' = Lives - 1
<1>1. PICK b, c : b = bounds /\ c = bounds'
  OBVIOUS
<1>2. \/ c = [b EXCEPT !.restarts = @ - 1]
      \/ c = [b EXCEPT !.evictions = @ - 1]
  BY <1>1 DEF Restart, Evict
<1>3. BoundsTypes(b)
  BY <1>1, BoundsOfTypes
<1>4. \/ c.restarts = b.restarts - 1 /\ c.evictions = b.evictions
      \/ c.restarts = b.restarts /\ c.evictions = b.evictions - 1
  BY <1>2, <1>3 DEF BoundsTypes
<1>5. b.restarts \in Nat /\ b.evictions \in Nat
  BY <1>3 DEF BoundsTypes
<1> QED
  BY <1>1, <1>4, <1>5 DEF Lives

(* A step of one request leaves types when its own record has them.        *)
LEMMA MoveTypes ==
  ASSUME PlanTypes, NEW r \in Requests, OnlyMoves(r),
         NEW new, new = req'[r], RequestTypes(new),
         UNCHANGED bounds \/ Spend, UNCHANGED <<world, adb, store>>,
         cache' = None \/ IsFlights(cache'), IsRow(row'),
         met' \in [Requests -> SUBSET Requests]
  PROVE  PlanTypes'
<1>1. \A q \in Requests : RequestTypes(req'[q])
  BY DEF OnlyMoves, PlanTypes
<1>2. PICK b : b = bounds
  OBVIOUS
<1>3. PICK c : c = bounds'
  OBVIOUS
<1>4. BoundsTypes(b)
  BY <1>2, BoundsOfTypes
<1>5. c = b \/ (b.faults > 0 /\ c = [b EXCEPT !.faults = @ - 1])
  BY <1>2, <1>3 DEF Spend
<1>6. BoundsTypes(c)
  BY <1>4, <1>5, SpendTypes
<1>7. WorldTypes(world') /\ ReplyTypes(adb')
  BY DEF PlanTypes
<1>8. store' = None \/ IsRow(store')
  BY DEF PlanTypes
<1> QED
  BY <1>1, <1>3, <1>6, <1>7, <1>8 DEF PlanTypes, OnlyMoves, BoundsTypes

LEMMA NoOverridesFit == IsOverride(NoOverrides)
<1> SUFFICES ASSUME NEW prefs \in Preferences
             PROVE  Effective(prefs, NoOverrides) \in Preferences
                    /\ DOMAIN NoOverrides \subseteq DOMAIN prefs
  BY DEF IsOverride
<1>1. DOMAIN NoOverrides = {}
  BY DEF NoOverrides
<1>2. prefs = [k \in DOMAIN prefs |-> prefs[k]]
  BY DEF Preferences
<1>3. Effective(prefs, NoOverrides) = prefs
  BY <1>1, <1>2 DEF Effective
<1> QED
  BY <1>1, <1>3

LEMMA IdleFields ==
  /\ IsRequest(Idle) /\ Idle.at = "idle" /\ Idle.home = None
  /\ Idle.overrides = NoOverrides /\ Idle.loaded = None
  /\ Idle.saved = FALSE /\ Idle.kept = FALSE /\ Idle.looked = "none"
  /\ Idle.outcome = 0
  BY DEF Idle, IsRequest, Fields

LEMMA IdleTypes ==
  ASSUME NEW at \in {"idle", "done"}
  PROVE  RequestTypes([Idle EXCEPT !.at = at])
<1>1. PICK idle : idle = Idle
  OBVIOUS
<1> DEFINE new == [idle EXCEPT !.at = at]
<1>2. IsRequest(new)
  BY <1>1, IdleFields DEF IsRequest, Fields
<1>3. /\ new.at = at /\ new.overrides = idle.overrides
      /\ new.loaded = idle.loaded /\ new.saved = idle.saved
      /\ new.kept = idle.kept /\ new.looked = idle.looked
      /\ new.outcome = idle.outcome
  BY <1>1, IdleFields DEF IsRequest, Fields
<1> HIDE DEF new
<1>4. RequestTypes(new)
  BY <1>1, <1>2, <1>3, IdleFields, NoOverridesFit
    DEF RequestTypes, Underway
<1> QED
  BY <1>1, <1>4 DEF new

LEMMA InitTypes == PlanInit => PlanTypes
<1> SUFFICES ASSUME PlanInit
             PROVE  PlanTypes
  OBVIOUS
<1>1. PICK case \in Cases :
        /\ world \in case.worlds
        /\ \E prefs \in case.prefs :
             row = [prefs |-> prefs, home |-> "old"]
        /\ bounds = [homes |-> case.homes, overrides |-> case.overrides,
                     faults |-> case.faults, news |-> case.news,
                     restarts |-> case.restarts,
                     evictions |-> case.evictions]
        /\ adb \in case.adb
        /\ reported = {} /\ cache = None /\ store = row
        /\ req = [r \in Requests |->
                    IF r \in case.requests THEN Idle
                    ELSE [Idle EXCEPT !.at = "done"]]
        /\ met = [r \in Requests |-> {}]
  BY DEF PlanInit
<1>2. PICK prefs \in case.prefs : row = [prefs |-> prefs, home |-> "old"]
  BY <1>1
<1>3. \A o \in case.overrides : IsOverride(o)
  <2> SUFFICES ASSUME NEW o \in case.overrides
               PROVE  IsOverride(o)
    OBVIOUS
  <2>1. prefs \in Preferences /\ Effective(prefs, o) \in Preferences
        /\ DOMAIN o \subseteq DOMAIN prefs
    BY PlanAssumption
  <2> QED
    BY <2>1, OverridesFit
<1>4. bounds.faults \in Nat /\ bounds.restarts \in Nat
      /\ bounds.evictions \in Nat /\ WorldTypes(world)
      /\ \A reply \in bounds.news \union {adb} : ReplyTypes(reply)
  BY <1>1, PlanAssumption
<1>5. \A r \in Requests : RequestTypes(req[r])
  <2> SUFFICES ASSUME NEW r \in Requests
               PROVE  RequestTypes(req[r])
    OBVIOUS
  <2>1. [Idle EXCEPT !.at = "idle"] = Idle
    <3>1. PICK idle : idle = Idle
      OBVIOUS
    <3>2. [idle EXCEPT !.at = "idle"] = idle
      BY <3>1, IdleFields DEF IsRequest, Fields
    <3> QED
      BY <3>1, <3>2
  <2>2. PICK at \in {"idle", "done"} : req[r] = [Idle EXCEPT !.at = at]
    BY <1>1, <2>1
  <2> QED
    BY <2>2, IdleTypes
<1>6. IsRow(row)
  BY <1>2, PlanAssumption DEF IsRow
<1> QED
  BY <1>1, <1>3, <1>4, <1>5, <1>6 DEF PlanTypes

LEMMA AskTypes ==
  ASSUME PlanTypes, NEW r \in Requests, Ask(r)
  PROVE  PlanTypes'
<1>1. PICK home \in bounds.homes, overrides \in bounds.overrides :
           /\ OnlyMoves(r) /\ req[r].at = "idle"
           /\ req'[r] = [Idle EXCEPT
                !.at = IF home = None THEN "context" ELSE "home",
                !.home = home, !.overrides = overrides]
  BY AskShape
<1>2. PICK idle : idle = Idle
  OBVIOUS
<1> DEFINE at == IF home = None THEN "context" ELSE "home"
           new == [idle EXCEPT !.at = at, !.home = home,
                               !.overrides = overrides]
<1>3. IsRequest(new)
  BY <1>2, IdleFields DEF IsRequest, Fields
<1>4. /\ new.at = at /\ new.overrides = overrides
      /\ new.loaded = idle.loaded /\ new.saved = idle.saved
      /\ new.kept = idle.kept /\ new.looked = idle.looked
      /\ new.outcome = idle.outcome
  BY <1>2, IdleFields DEF IsRequest, Fields
<1>5. req'[r] = new
  BY <1>1, <1>2
<1>6. at \in {"context", "home"}
  OBVIOUS
<1> HIDE DEF new, at
<1>7. IsOverride(overrides)
  BY DEF PlanTypes
<1>8. RequestTypes(new)
  BY <1>2, <1>3, <1>4, <1>6, <1>7, IdleFields DEF RequestTypes, Underway
<1>9. met' \in [Requests -> SUBSET Requests]
  BY DEF Ask, InFlight, PlanTypes
<1>10. (cache' = None \/ IsFlights(cache')) /\ IsRow(row')
  BY DEF Ask, PlanTypes
<1>11. UNCHANGED bounds /\ UNCHANGED <<world, adb, store>>
  BY DEF Ask
<1> QED
  BY <1>1, <1>5, <1>8, <1>9, <1>10, <1>11, MoveTypes

LEMMA LoadForHomeTypes ==
  ASSUME PlanTypes, NEW r \in Requests, LoadForHome(r)
  PROVE  PlanTypes'
<1>1. /\ OnlyMoves(r) /\ req[r].at = "home"
      /\ \/ /\ UNCHANGED bounds
            /\ req'[r] = [req[r] EXCEPT !.at = "commit", !.loaded = row]
         \/ Spend /\ req'[r] = [req[r] EXCEPT !.at = "context"]
  BY LoadForHomeShape
<1>2. PICK new : new = req'[r]
  OBVIOUS
<1>3. RequestTypes(req[r]) /\ IsRequest(req[r])
      /\ IsRow(row)
  BY DEF PlanTypes, RequestTypes
<1>4. RequestTypes(new)
  <2>1. CASE new = [req[r] EXCEPT !.at = "commit", !.loaded = row]
    <3>1. IsRequest(new)
      BY <1>3, <2>1 DEF IsRequest, Fields
    <3>2. /\ new.at = "commit" /\ new.overrides = req[r].overrides
          /\ new.loaded = row /\ new.looked = req[r].looked
          /\ new.snapshot = req[r].snapshot /\ new.life = req[r].life
          /\ new.context = req[r].context /\ new.outcome = req[r].outcome
      BY <1>3, <2>1 DEF IsRequest, Fields
    <3> QED
      BY <1>3, <3>1, <3>2 DEF RequestTypes, Underway
  <2>2. CASE new = [req[r] EXCEPT !.at = "context"]
    <3>1. IsRequest(new)
      BY <1>3, <2>2 DEF IsRequest, Fields
    <3>2. /\ new.at = "context" /\ new.overrides = req[r].overrides
          /\ new.loaded = req[r].loaded /\ new.looked = req[r].looked
          /\ new.snapshot = req[r].snapshot /\ new.life = req[r].life
          /\ new.context = req[r].context /\ new.outcome = req[r].outcome
      BY <1>3, <2>2 DEF IsRequest, Fields
    <3> QED
      BY <1>3, <3>1, <3>2 DEF RequestTypes, Underway
  <2> QED
    BY <1>1, <1>2, <2>1, <2>2
<1>5. /\ cache' = None \/ IsFlights(cache')
      /\ IsRow(row') /\ met' \in [Requests -> SUBSET Requests]
  BY DEF LoadForHome, PlanTypes
<1>6. UNCHANGED bounds \/ Spend
  BY <1>1
<1>7. UNCHANGED <<world, adb, store>>
  BY DEF LoadForHome
<1> QED
  BY <1>1, <1>2, <1>4, <1>5, <1>6, <1>7, MoveTypes

LEMMA CommitHomeTypes ==
  ASSUME PlanTypes, NEW r \in Requests, CommitHome(r)
  PROVE  PlanTypes'
<1>1. /\ OnlyMoves(r) /\ req[r].at = "commit"
      /\ \/ /\ row' = IF req[r].loaded.home = req[r].home THEN row
                      ELSE [row EXCEPT !.home = req[r].home]
            /\ UNCHANGED bounds
            /\ req'[r] = [req[r] EXCEPT !.at = "context", !.saved = TRUE,
                 !.loaded = [req[r].loaded EXCEPT !.home = req[r].home]]
         \/ /\ Spend /\ UNCHANGED row
            /\ req'[r] = [req[r] EXCEPT !.at = "context", !.loaded = None]
  BY CommitHomeShape
<1>2. PICK new : new = req'[r]
  OBVIOUS
<1>3. RequestTypes(req[r]) /\ IsRequest(req[r])
      /\ IsRow(row) /\ IsRow(req[r].loaded)
  BY <1>1 DEF PlanTypes, RequestTypes
<1>4. PICK loaded : loaded = [req[r].loaded EXCEPT !.home = req[r].home]
  OBVIOUS
<1>5. IsRow(loaded)
  BY <1>3, <1>4 DEF IsRow
<1>6. RequestTypes(new)
  <2>1. CASE new = [req[r] EXCEPT !.at = "context", !.saved = TRUE,
                                  !.loaded = loaded]
    <3>1. IsRequest(new)
      BY <1>3, <2>1 DEF IsRequest, Fields
    <3>2. /\ new.at = "context" /\ new.overrides = req[r].overrides
          /\ new.loaded = loaded /\ new.looked = req[r].looked
          /\ new.snapshot = req[r].snapshot /\ new.life = req[r].life
          /\ new.context = req[r].context /\ new.outcome = req[r].outcome
      BY <1>3, <2>1 DEF IsRequest, Fields
    <3> QED
      BY <1>1, <1>3, <1>5, <3>1, <3>2 DEF RequestTypes, Underway
  <2>2. CASE new = [req[r] EXCEPT !.at = "context", !.loaded = None]
    <3>1. IsRequest(new)
      BY <1>3, <2>2 DEF IsRequest, Fields
    <3>2. /\ new.at = "context" /\ new.overrides = req[r].overrides
          /\ new.loaded = None /\ new.looked = req[r].looked
          /\ new.snapshot = req[r].snapshot /\ new.life = req[r].life
          /\ new.context = req[r].context /\ new.outcome = req[r].outcome
      BY <1>3, <2>2 DEF IsRequest, Fields
    <3> QED
      BY <1>1, <1>3, <3>1, <3>2 DEF RequestTypes, Underway
  <2> QED
    BY <1>1, <1>2, <1>4, <2>1, <2>2
<1>7. IsRow(row')
  BY <1>1, <1>3 DEF IsRow
<1>8. /\ cache' = None \/ IsFlights(cache')
      /\ met' \in [Requests -> SUBSET Requests]
  BY DEF CommitHome, PlanTypes
<1>9. UNCHANGED bounds \/ Spend
  BY <1>1
<1>10. UNCHANGED <<world, adb, store>>
  BY DEF CommitHome
<1> QED
  BY <1>1, <1>2, <1>6, <1>7, <1>8, <1>9, <1>10, MoveTypes

LEMMA ReadContextTypes ==
  ASSUME PlanTypes, NEW r \in Requests, ReadContext(r)
  PROVE  PlanTypes'
<1>1. PICK from \in {row, store} :
        /\ OnlyMoves(r) /\ req[r].at = "context"
        /\ UNCHANGED bounds \/ Spend
        /\ \/ from = None /\ Concludes(req[r], req'[r], "done", 404)
           \/ from # None /\ Reads(req[r], req'[r], from)
  BY ReadContextShape
<1>2. PICK new : new = req'[r]
  OBVIOUS
<1>3. RequestTypes(req[r]) /\ IsRequest(req[r])
  BY DEF PlanTypes, RequestTypes
<1>4. RequestTypes(new)
  <2>1. CASE Concludes(req[r], new, "done", 404)
    <3>1. /\ IsRequest(new) /\ new.at = "done" /\ new.outcome # 200
          /\ new.overrides = req[r].overrides
          /\ new.loaded = req[r].loaded /\ new.looked = req[r].looked
          /\ new.snapshot = req[r].snapshot /\ new.life = req[r].life
      BY <1>3, <2>1, ConcludesFields
    <3> QED
      BY <1>3, <3>1 DEF RequestTypes
  <2>2. CASE from # None /\ Reads(req[r], new, from)
    <3>1. IsRow(from) /\ IsOverride(req[r].overrides)
      BY <1>3, <2>2 DEF PlanTypes, RequestTypes
    <3>2. Effective(from.prefs, req[r].overrides) \in Preferences
      BY <3>1 DEF IsRow, IsOverride
    <3>3. /\ IsRequest(new) /\ new.at = "flight"
          /\ new.context.prefs \in Preferences
          /\ new.outcome = req[r].outcome
          /\ new.overrides = req[r].overrides
          /\ new.loaded = req[r].loaded /\ new.looked = req[r].looked
          /\ new.snapshot = req[r].snapshot /\ new.life = req[r].life
      BY <1>3, <2>2, <3>2, ReadsFields
    <3> QED
      BY <1>1, <1>3, <3>3 DEF RequestTypes, Underway
  <2> QED
    BY <1>1, <1>2, <2>1, <2>2
<1>5. /\ cache' = None \/ IsFlights(cache')
      /\ IsRow(row') /\ met' \in [Requests -> SUBSET Requests]
  BY DEF ReadContext, PlanTypes
<1>6. UNCHANGED <<world, adb, store>>
  BY DEF ReadContext
<1> QED
  BY <1>1, <1>2, <1>4, <1>5, <1>6, MoveTypes

LEMMA FallbackTypes == IsSnapshot(FallbackSnapshot(Day))
  BY PlanAssumption DEF IsSnapshot, FallbackSnapshot

LEMMA BuildSnapshotTypes ==
  ASSUME PlanTypes, NEW r \in Requests, BuildSnapshot(r)
  PROVE  PlanTypes'
<1>0. PICK answer : answer = FlightsNow
  OBVIOUS
<1>1. Built(r, answer)
  BY <1>0, BuildSnapshotShape
<1>a. /\ OnlyMoves(r) /\ req[r].at = "flight"
      /\ UNCHANGED bounds \/ Spend
      /\ Receives(answer.flights) \/ UNCHANGED <<cache, reported>>
  BY <1>1, Zenon DEF Built
<1>2. PICK new : new = req'[r]
  OBVIOUS
<1>3. RequestTypes(req[r]) /\ IsRequest(req[r])
  BY DEF PlanTypes, RequestTypes
<1>4. IsFlights(answer.flights)
      /\ (cache' = None \/ IsFlights(cache'))
  <2>1. PICK c : c = Remember(answer.flights)
    OBVIOUS
  <2>2. IsFlights(answer.flights) /\ (c = None \/ IsFlights(c))
    BY <1>0, <2>1, FlightsNowTypes
  <2>3. cache' = c \/ cache' = cache
    BY <1>a, <2>1 DEF Receives
  <2>4. cache = None \/ IsFlights(cache)
    BY DEF PlanTypes
  <2> QED
    BY <2>2, <2>3, <2>4
<1>5. PICK s : s = SnapshotOf(answer.flights, None, Day)
  OBVIOUS
<1>6. IsSnapshot(s)
  BY <1>4, <1>5, SnapshotTypes
<1>7. RequestTypes(new)
  <2>1. ASSUME NEW code, code \in {429, 503},
               Concludes(req[r], new, "done", code)
        PROVE  RequestTypes(new)
    <3>1. /\ IsRequest(new) /\ new.at = "done" /\ new.outcome = code
          /\ new.overrides = req[r].overrides
          /\ new.loaded = req[r].loaded /\ new.looked = req[r].looked
          /\ new.snapshot = req[r].snapshot /\ new.life = req[r].life
      BY <1>3, <2>1, ConcludesFields
    <3>2. new.outcome # 200
      BY <2>1, <3>1
    <3> QED
      BY <1>3, <3>1, <3>2 DEF RequestTypes
  <2>2. ASSUME NEW looked \in {"ok", "crashed"}, NEW shot,
               IsSnapshot(shot), Looks(req[r], new, looked, shot)
        PROVE  RequestTypes(new)
    <3>1. PICK life : life = Lives
      OBVIOUS
    <3>2. /\ IsRequest(new) /\ new.at = "answer" /\ new.looked = looked
          /\ new.life = life /\ new.snapshot = shot
          /\ new.overrides = req[r].overrides
          /\ new.loaded = req[r].loaded
          /\ new.context = req[r].context
      BY <1>3, <2>2, <3>1, LooksFields
    <3>3. life \in Nat
      BY <3>1, LivesTypes
    <3> QED
      BY <1>a, <1>3, <2>2, <3>2, <3>3 DEF RequestTypes, Underway
  <2>3. \/ \E code \in {429, 503} : Concludes(req[r], new, "done", code)
        \/ Looks(req[r], new, "ok", s)
        \/ Looks(req[r], new, "crashed", FallbackSnapshot(Day))
    BY <1>1, <1>2, <1>5 DEF Built
  <2> QED
    BY <1>6, <2>1, <2>2, <2>3, FallbackTypes
<1>8. IsRow(row') /\ met' \in [Requests -> SUBSET Requests]
  BY DEF BuildSnapshot, PlanTypes
<1>9. UNCHANGED <<world, adb, store>>
  BY DEF BuildSnapshot
<1> QED
  BY <1>a, <1>2, <1>4, <1>7, <1>8, <1>9, MoveTypes

LEMMA RespondTypes ==
  ASSUME PlanTypes, NEW r \in Requests, Respond(r)
  PROVE  PlanTypes'
<1>1. /\ OnlyMoves(r) /\ req[r].at = "answer"
      /\ \E at \in {"done", "load", "save"} :
           /\ at # "done" => req[r].overrides # NoOverrides
           /\ at = "save" => req[r].loaded # None
           /\ Concludes(req[r], req'[r], at, 200)
  BY RespondShape
<1>2. PICK new : new = req'[r]
  OBVIOUS
<1>3. RequestTypes(req[r]) /\ IsRequest(req[r])
  BY DEF PlanTypes, RequestTypes
<1>4. PICK at \in {"done", "load", "save"} :
        /\ at = "save" => req[r].loaded # None
        /\ Concludes(req[r], new, at, 200)
  BY <1>1, <1>2, Zenon
<1>5. /\ IsRequest(new) /\ new.at = at
      /\ new.overrides = req[r].overrides
      /\ new.loaded = req[r].loaded /\ new.looked = req[r].looked
      /\ new.snapshot = req[r].snapshot /\ new.life = req[r].life
      /\ new.context = req[r].context
  BY <1>3, <1>4, ConcludesFields
<1>6. RequestTypes(new)
  BY <1>1, <1>3, <1>4, <1>5 DEF RequestTypes, Underway
<1>7. /\ cache' = None \/ IsFlights(cache')
      /\ IsRow(row') /\ met' \in [Requests -> SUBSET Requests]
  BY DEF Respond, PlanTypes
<1>8. UNCHANGED <<bounds, world, adb, store>>
  BY DEF Respond
<1> QED
  BY <1>1, <1>2, <1>6, <1>7, <1>8, MoveTypes

LEMMA LoadForOverridesTypes ==
  ASSUME PlanTypes, NEW r \in Requests, LoadForOverrides(r)
  PROVE  PlanTypes'
<1>1. /\ OnlyMoves(r) /\ req[r].at = "load"
      /\ \/ /\ UNCHANGED bounds
            /\ req'[r] = [req[r] EXCEPT !.at = "save", !.loaded = row]
         \/ Spend /\ req'[r] = [req[r] EXCEPT !.at = "done"]
  BY LoadForOverridesShape
<1>2. PICK new : new = req'[r]
  OBVIOUS
<1>3. RequestTypes(req[r]) /\ IsRequest(req[r]) /\ IsRow(row)
  BY DEF PlanTypes, RequestTypes
<1>4. RequestTypes(new)
  <2>1. CASE new = [req[r] EXCEPT !.at = "save", !.loaded = row]
    <3>1. IsRequest(new)
      BY <1>3, <2>1 DEF IsRequest, Fields
    <3>2. /\ new.at = "save" /\ new.overrides = req[r].overrides
          /\ new.loaded = row /\ new.looked = req[r].looked
          /\ new.snapshot = req[r].snapshot /\ new.life = req[r].life
          /\ new.context = req[r].context
      BY <1>3, <2>1 DEF IsRequest, Fields
    <3> QED
      BY <1>1, <1>3, <3>1, <3>2 DEF RequestTypes, Underway
  <2>2. CASE new = [req[r] EXCEPT !.at = "done"]
    <3>1. IsRequest(new)
      BY <1>3, <2>2 DEF IsRequest, Fields
    <3>2. /\ new.at = "done" /\ new.overrides = req[r].overrides
          /\ new.loaded = req[r].loaded /\ new.looked = req[r].looked
          /\ new.snapshot = req[r].snapshot /\ new.life = req[r].life
          /\ new.context = req[r].context /\ new.outcome = req[r].outcome
      BY <1>3, <2>2 DEF IsRequest, Fields
    <3> QED
      BY <1>1, <1>3, <3>1, <3>2 DEF RequestTypes, Underway
  <2> QED
    BY <1>1, <1>2, <2>1, <2>2
<1>5. /\ cache' = None \/ IsFlights(cache')
      /\ IsRow(row') /\ met' \in [Requests -> SUBSET Requests]
  BY DEF LoadForOverrides, PlanTypes
<1>6. UNCHANGED bounds \/ Spend
  BY <1>1
<1>7. UNCHANGED <<world, adb, store>>
  BY DEF LoadForOverrides
<1> QED
  BY <1>1, <1>2, <1>4, <1>5, <1>6, <1>7, MoveTypes

LEMMA CommitOverridesTypes ==
  ASSUME PlanTypes, NEW r \in Requests, CommitOverrides(r)
  PROVE  PlanTypes'
<1>1. /\ OnlyMoves(r) /\ req[r].at = "save"
      /\ \/ /\ UNCHANGED bounds
            /\ row' = IF Merged(r) = req[r].loaded.prefs THEN row
                      ELSE [row EXCEPT !.prefs = Merged(r)]
            /\ req'[r] = [req[r] EXCEPT !.at = "done", !.kept = TRUE]
         \/ /\ Spend /\ UNCHANGED row
            /\ req'[r] = [req[r] EXCEPT !.at = "done"]
  BY CommitOverridesShape
<1>2. PICK new : new = req'[r]
  OBVIOUS
<1>3. RequestTypes(req[r]) /\ IsRequest(req[r]) /\ IsRow(row)
  BY DEF PlanTypes, RequestTypes
<1>4. RequestTypes(new)
  <2>1. CASE \/ new = [req[r] EXCEPT !.at = "done", !.kept = TRUE]
             \/ new = [req[r] EXCEPT !.at = "done"]
    <3>1. IsRequest(new)
      BY <1>3, <2>1 DEF IsRequest, Fields
    <3>2. /\ new.at = "done" /\ new.overrides = req[r].overrides
          /\ new.loaded = req[r].loaded /\ new.looked = req[r].looked
          /\ new.snapshot = req[r].snapshot /\ new.life = req[r].life
          /\ new.context = req[r].context /\ new.outcome = req[r].outcome
      BY <1>3, <2>1 DEF IsRequest, Fields
    <3> QED
      BY <1>1, <1>3, <3>1, <3>2 DEF RequestTypes, Underway
  <2> QED
    BY <1>1, <1>2, <2>1
<1>5. Merged(r) \in Preferences
  BY <1>1, <1>3 DEF RequestTypes, IsRow, IsOverride, Merged
<1>6. IsRow(row')
  BY <1>1, <1>3, <1>5 DEF IsRow
<1>7. /\ cache' = None \/ IsFlights(cache')
      /\ met' \in [Requests -> SUBSET Requests]
  BY DEF CommitOverrides, PlanTypes
<1>8. UNCHANGED bounds \/ Spend
  BY <1>1
<1>9. UNCHANGED <<world, adb, store>>
  BY DEF CommitOverrides
<1> QED
  BY <1>1, <1>2, <1>4, <1>6, <1>7, <1>8, <1>9, MoveTypes

LEMMA AdbChangesTypes ==
  ASSUME PlanTypes, AdbChanges
  PROVE  PlanTypes'
<1>1. PICK reply \in bounds.news :
        adb' = reply /\ bounds' = [bounds EXCEPT !.news = @ \ {reply}]
  BY DEF AdbChanges
<1>2. PICK b : b = bounds
  OBVIOUS
<1>3. PICK c : c = bounds'
  OBVIOUS
<1>4. BoundsTypes(b) /\ c = [b EXCEPT !.news = @ \ {reply}]
  BY <1>1, <1>2, <1>3, BoundsOfTypes
<1>5. BoundsTypes(c)
  BY <1>4, SpendTypes
<1>6. ReplyTypes(adb')
  BY <1>1 DEF PlanTypes
<1>7. UNCHANGED <<world, cache, row, store, req, met>>
  BY DEF AdbChanges
<1> QED
  BY <1>3, <1>5, <1>6, <1>7 DEF PlanTypes, BoundsTypes

LEMMA EvictTypes ==
  ASSUME PlanTypes, Evict
  PROVE  PlanTypes'
<1>1. PICK b, c : b = bounds /\ c = bounds'
  OBVIOUS
<1>2. b.evictions > 0 /\ c = [b EXCEPT !.evictions = @ - 1]
  BY <1>1 DEF Evict
<1>3. BoundsTypes(c)
  BY <1>1, <1>2, BoundsOfTypes, SpendTypes
<1>4. cache' = None /\ UNCHANGED <<world, adb, row, store, req, met>>
  BY DEF Evict
<1> QED
  BY <1>1, <1>3, <1>4 DEF PlanTypes, BoundsTypes

LEMMA RestartTypes ==
  ASSUME PlanTypes, Restart
  PROVE  PlanTypes'
<1>1. /\ bounds' = [bounds EXCEPT !.restarts = @ - 1]
      /\ bounds.restarts > 0
      /\ cache' = None /\ store' = None
      /\ req' = [r \in Requests |-> req'[r]]
      /\ \A r \in Requests :
           /\ req[r].at \in {"idle", "done"} => req'[r] = req[r]
           /\ req[r].at \notin {"idle", "done"} =>
                req'[r] = [req[r] EXCEPT !.at = "done"]
  BY RestartShape
<1>2. PICK b : b = bounds
  OBVIOUS
<1>3. PICK c : c = bounds'
  OBVIOUS
<1>4. BoundsTypes(c)
  BY <1>1, <1>2, <1>3, BoundsOfTypes, SpendTypes
<1>5. \A r \in Requests : RequestTypes(req'[r])
  <2> SUFFICES ASSUME NEW r \in Requests
               PROVE  RequestTypes(req'[r])
    OBVIOUS
  <2>1. RequestTypes(req[r]) /\ IsRequest(req[r])
    BY DEF PlanTypes, RequestTypes
  <2>2. PICK new : new = req'[r]
    OBVIOUS
  <2>3. CASE new = [req[r] EXCEPT !.at = "done"]
    <3>1. IsRequest(new)
      BY <2>1, <2>3 DEF IsRequest, Fields
    <3>2. /\ new.at = "done" /\ new.overrides = req[r].overrides
          /\ new.loaded = req[r].loaded /\ new.looked = req[r].looked
          /\ new.snapshot = req[r].snapshot /\ new.life = req[r].life
          /\ new.context = req[r].context /\ new.outcome = req[r].outcome
      BY <2>1, <2>3 DEF IsRequest, Fields
    <3>3. RequestTypes(new)
      BY <2>1, <3>1, <3>2 DEF RequestTypes, Underway
    <3> QED
      BY <2>2, <3>3
  <2> QED
    BY <1>1, <2>1, <2>2, <2>3
<1>6. UNCHANGED <<world, adb, row, met>>
  BY DEF Restart
<1> QED
  BY <1>1, <1>3, <1>4, <1>5, <1>6 DEF PlanTypes, BoundsTypes

LEMMA TypesStep == PlanTypes /\ [PlanNext]_planVars => PlanTypes'
<1> SUFFICES ASSUME PlanTypes, [PlanNext]_planVars
             PROVE  PlanTypes'
  OBVIOUS
<1>1. CASE UNCHANGED planVars
  BY <1>1 DEF PlanTypes, planVars
<1>2. ASSUME NEW r \in Requests, RequestStep(r)
      PROVE  PlanTypes'
  BY <1>2, AskTypes, LoadForHomeTypes, CommitHomeTypes, ReadContextTypes,
     BuildSnapshotTypes, RespondTypes, LoadForOverridesTypes,
     CommitOverridesTypes DEF RequestStep
<1> QED
  BY <1>1, <1>2, AdbChangesTypes, EvictTypes, RestartTypes DEF PlanNext

-----------------------------------------------------------------------------
(* What can become of a request in one step: what it was and what it is.   *)

(* It comes in.                                                            *)
Asks(old, new, home, overrides) ==
  /\ old.at = "idle" /\ new.at \in {"home", "context"}
  /\ new.at = "home" <=> home # None
  /\ new.home = home /\ new.overrides = overrides
  /\ new.loaded = old.loaded /\ new.saved = old.saved
  /\ new.kept = old.kept /\ new.looked = old.looked
  /\ new.outcome = old.outcome

(* It loads the row, for its home or for its overrides.                    *)
Loads(old, new, copy) ==
  /\ \/ old.at = "home" /\ new.at = "commit"
     \/ old.at = "load" /\ new.at = "save"
  /\ new.loaded = copy
  /\ new.home = old.home /\ new.overrides = old.overrides
  /\ new.saved = old.saved /\ new.kept = old.kept
  /\ new.looked = old.looked /\ new.context = old.context
  /\ new.snapshot = old.snapshot /\ new.life = old.life
  /\ new.outcome = old.outcome

(* Its home is not saved.                                                  *)
SkipsHome(old, new) ==
  /\ old.at \in {"home", "commit"} /\ new.at = "context"
  /\ new.loaded = old.loaded \/ new.loaded = None
  /\ new.home = old.home /\ new.overrides = old.overrides
  /\ new.saved = old.saved /\ new.kept = old.kept
  /\ new.looked = old.looked /\ new.context = old.context
  /\ new.snapshot = old.snapshot /\ new.life = old.life
  /\ new.outcome = old.outcome

(* Its home is saved.                                                      *)
SavesHome(old, new) ==
  /\ old.at = "commit" /\ new.at = "context" /\ new.saved
  /\ new.loaded.prefs = old.loaded.prefs
  /\ new.home = old.home /\ new.overrides = old.overrides
  /\ new.kept = old.kept /\ new.looked = old.looked
  /\ new.context = old.context /\ new.snapshot = old.snapshot
  /\ new.life = old.life /\ new.outcome = old.outcome

(* It has the preferences and the home to plan with.                       *)
GetsContext(old, new, from) ==
  /\ old.at = "context" /\ new.at = "flight"
  /\ new.context.home = from.home
  /\ new.context.stored = (from = row)
  /\ new.home = old.home /\ new.overrides = old.overrides
  /\ new.loaded = old.loaded /\ new.saved = old.saved
  /\ new.kept = old.kept /\ new.looked = old.looked
  /\ new.snapshot = old.snapshot /\ new.life = old.life
  /\ new.outcome = old.outcome

(* It has a flight to plan for.                                            *)
GetsSnapshot(old, new, life, s) ==
  /\ old.at = "flight" /\ new.at = "answer"
  /\ new.looked \in {"ok", "crashed"}
  /\ new.life = life /\ new.snapshot = s
  /\ new.home = old.home /\ new.overrides = old.overrides
  /\ new.loaded = old.loaded /\ new.saved = old.saved
  /\ new.kept = old.kept /\ new.context = old.context
  /\ new.outcome = old.outcome

(* It answers.                                                             *)
Answers(old, new) ==
  /\ old.at = "answer" /\ new.at \in {"done", "load", "save"}
  /\ new.at # "done" => old.overrides # NoOverrides
  /\ new.at = "save" => old.loaded # None
  /\ new.outcome = 200
  /\ new.home = old.home /\ new.overrides = old.overrides
  /\ new.loaded = old.loaded /\ new.saved = old.saved
  /\ new.kept = old.kept /\ new.looked = old.looked
  /\ new.context = old.context /\ new.snapshot = old.snapshot
  /\ new.life = old.life

(* Its overrides are saved.                                                *)
KeepsOverrides(old, new) ==
  /\ old.at = "save" /\ new.at = "done" /\ new.kept
  /\ new.home = old.home /\ new.overrides = old.overrides
  /\ new.loaded = old.loaded /\ new.saved = old.saved
  /\ new.looked = old.looked /\ new.context = old.context
  /\ new.snapshot = old.snapshot /\ new.life = old.life
  /\ new.outcome = old.outcome

(* It ends, with an error or cut off by a restart.                         *)
Stops(old, new) ==
  /\ old.at \in Underway /\ new.at = "done"
  /\ new.outcome = old.outcome \/ new.outcome # 200
  /\ new.home = old.home /\ new.overrides = old.overrides
  /\ new.loaded = old.loaded /\ new.saved = old.saved
  /\ new.kept = old.kept /\ new.looked = old.looked
  /\ new.context = old.context /\ new.snapshot = old.snapshot
  /\ new.life = old.life

LEMMA AskEffect ==
  ASSUME PlanTypes, NEW r \in Requests, Ask(r),
         NEW old, old = req[r], NEW new, new = req'[r]
  PROVE  /\ OnlyMoves(r)
         /\ \E home, overrides : Asks(old, new, home, overrides)
<1>1. PICK home \in bounds.homes, overrides \in bounds.overrides :
           /\ OnlyMoves(r) /\ req[r].at = "idle"
           /\ req'[r] = [Idle EXCEPT
                !.at = IF home = None THEN "context" ELSE "home",
                !.home = home, !.overrides = overrides]
  BY AskShape
<1>2. PICK idle : idle = Idle
  OBVIOUS
<1>3. PICK at : at = IF home = None THEN "context" ELSE "home"
  OBVIOUS
<1>4. new = [idle EXCEPT !.at = at, !.home = home, !.overrides = overrides]
  BY <1>1, <1>2, <1>3
<1>5. /\ new.at = at /\ new.home = home /\ new.overrides = overrides
      /\ new.loaded = None /\ new.saved = FALSE /\ new.kept = FALSE
      /\ new.looked = "none" /\ new.outcome = 0
  BY <1>2, <1>4, IdleFields DEF IsRequest, Fields
<1>6. old.at = "idle" /\ RequestTypes(old)
  BY <1>1 DEF PlanTypes
<1>7. /\ old.saved = FALSE /\ old.kept = FALSE /\ old.looked = "none"
      /\ old.outcome = 0 /\ old.loaded = None
  BY <1>6 DEF RequestTypes
<1>8. Asks(old, new, home, overrides)
  BY <1>3, <1>5, <1>6, <1>7 DEF Asks
<1> QED
  BY <1>1, <1>8

LEMMA LoadForHomeEffect ==
  ASSUME PlanTypes, NEW r \in Requests, LoadForHome(r),
         NEW old, old = req[r], NEW new, new = req'[r]
  PROVE  /\ OnlyMoves(r)
         /\ Loads(old, new, row) \/ SkipsHome(old, new)
<1>1. /\ OnlyMoves(r) /\ req[r].at = "home"
      /\ \/ /\ UNCHANGED bounds
            /\ req'[r] = [req[r] EXCEPT !.at = "commit", !.loaded = row]
         \/ Spend /\ req'[r] = [req[r] EXCEPT !.at = "context"]
  BY LoadForHomeShape
<1>2. IsRequest(old) /\ old.at = "home"
  BY <1>1 DEF PlanTypes, RequestTypes
<1>3. CASE new = [old EXCEPT !.at = "commit", !.loaded = row]
  BY <1>1, <1>2, <1>3 DEF IsRequest, Fields, Loads
<1>4. CASE new = [old EXCEPT !.at = "context"]
  BY <1>1, <1>2, <1>4 DEF IsRequest, Fields, SkipsHome
<1> QED
  BY <1>1, <1>3, <1>4

LEMMA CommitHomeEffect ==
  ASSUME PlanTypes, NEW r \in Requests, CommitHome(r),
         NEW old, old = req[r], NEW new, new = req'[r]
  PROVE  /\ OnlyMoves(r) /\ old.at = "commit"
         /\ \/ /\ SavesHome(old, new) /\ row'.prefs = row.prefs
               /\ \/ row'.home = old.home
                  \/ row'.home = row.home /\ old.loaded.home = old.home
            \/ /\ SkipsHome(old, new) /\ new.loaded = None
               /\ UNCHANGED row
<1>1. /\ OnlyMoves(r) /\ req[r].at = "commit"
      /\ \/ /\ row' = IF req[r].loaded.home = req[r].home THEN row
                      ELSE [row EXCEPT !.home = req[r].home]
            /\ UNCHANGED bounds
            /\ req'[r] = [req[r] EXCEPT !.at = "context", !.saved = TRUE,
                 !.loaded = [req[r].loaded EXCEPT !.home = req[r].home]]
         \/ /\ Spend /\ UNCHANGED row
            /\ req'[r] = [req[r] EXCEPT !.at = "context", !.loaded = None]
  BY CommitHomeShape
<1>2. IsRequest(old) /\ old.at = "commit" /\ IsRow(old.loaded)
      /\ IsRow(row)
  BY <1>1 DEF PlanTypes, RequestTypes
<1>3. PICK loaded : loaded = [old.loaded EXCEPT !.home = old.home]
  OBVIOUS
<1>4. loaded.prefs = old.loaded.prefs
  BY <1>2, <1>3 DEF IsRow
<1>5. CASE new = [old EXCEPT !.at = "context", !.saved = TRUE,
                             !.loaded = loaded]
           /\ row' = IF old.loaded.home = old.home THEN row
                     ELSE [row EXCEPT !.home = old.home]
  <2>1. SavesHome(old, new)
    BY <1>2, <1>4, <1>5 DEF IsRequest, Fields, SavesHome
  <2>2. /\ row'.prefs = row.prefs
        /\ \/ row'.home = old.home
           \/ row'.home = row.home /\ old.loaded.home = old.home
    BY <1>2, <1>5 DEF IsRow
  <2> QED
    BY <1>1, <2>1, <2>2
<1>6. CASE new = [old EXCEPT !.at = "context", !.loaded = None]
           /\ UNCHANGED row
  BY <1>1, <1>2, <1>6 DEF IsRequest, Fields, SkipsHome
<1> QED
  BY <1>1, <1>3, <1>5, <1>6

LEMMA ReadContextEffect ==
  ASSUME PlanTypes, NEW r \in Requests, ReadContext(r),
         NEW old, old = req[r], NEW new, new = req'[r]
  PROVE  /\ OnlyMoves(r)
         /\ \/ Stops(old, new)
            \/ \E from : GetsContext(old, new, from)
<1>1. PICK from \in {row, store} :
        /\ OnlyMoves(r) /\ req[r].at = "context"
        /\ UNCHANGED bounds \/ Spend
        /\ \/ from = None /\ Concludes(req[r], req'[r], "done", 404)
           \/ from # None /\ Reads(req[r], req'[r], from)
  BY ReadContextShape
<1>2. IsRequest(old) /\ old.at = "context"
  BY <1>1 DEF PlanTypes, RequestTypes
<1>3. CASE Concludes(old, new, "done", 404)
  <2>1. /\ new.at = "done" /\ new.outcome # 200
        /\ new.home = old.home /\ new.overrides = old.overrides
        /\ new.loaded = old.loaded /\ new.saved = old.saved
        /\ new.kept = old.kept /\ new.looked = old.looked
        /\ new.context = old.context /\ new.snapshot = old.snapshot
        /\ new.life = old.life
    BY <1>2, <1>3, ConcludesFields
  <2> QED
    BY <1>1, <1>2, <2>1 DEF Stops, Underway
<1>4. CASE Reads(old, new, from)
  <2>1. GetsContext(old, new, from)
    BY <1>2, <1>4, ReadsFields DEF GetsContext
  <2> QED
    BY <1>1, <2>1
<1> QED
  BY <1>1, <1>3, <1>4

LEMMA BuildSnapshotEffect ==
  ASSUME PlanTypes, NEW r \in Requests, BuildSnapshot(r),
         NEW old, old = req[r], NEW new, new = req'[r],
         NEW answer, answer = FlightsNow
  PROVE  /\ OnlyMoves(r)
         /\ \/ Stops(old, new) /\ IsError(answer)
            \/ /\ GetsSnapshot(old, new, Lives,
                               SnapshotOf(answer.flights, None, Day))
               /\ Receives(answer.flights)
            \/ GetsSnapshot(old, new, Lives, FallbackSnapshot(Day))
<1>1. Built(r, answer)
  BY BuildSnapshotShape
<1>2. IsRequest(old) /\ old.at = "flight" /\ OnlyMoves(r)
  BY <1>1 DEF PlanTypes, RequestTypes, Built
<1>3. ASSUME NEW code, code \in {429, 503},
             Concludes(old, new, "done", code)
      PROVE  Stops(old, new)
  <2>1. /\ new.at = "done" /\ new.outcome = code
        /\ new.home = old.home /\ new.overrides = old.overrides
        /\ new.loaded = old.loaded /\ new.saved = old.saved
        /\ new.kept = old.kept /\ new.looked = old.looked
        /\ new.context = old.context /\ new.snapshot = old.snapshot
        /\ new.life = old.life
    BY <1>2, <1>3, ConcludesFields
  <2>2. new.outcome # 200
    BY <1>3, <2>1
  <2> QED
    BY <1>2, <2>1, <2>2 DEF Stops, Underway
<1>4. ASSUME NEW looked \in {"ok", "crashed"}, NEW s,
             Looks(old, new, looked, s)
      PROVE  GetsSnapshot(old, new, Lives, s)
  <2>1. PICK life : life = Lives
    OBVIOUS
  <2>2. /\ new.at = "answer" /\ new.looked = looked
        /\ new.life = life /\ new.snapshot = s
        /\ new.home = old.home /\ new.overrides = old.overrides
        /\ new.loaded = old.loaded /\ new.saved = old.saved
        /\ new.kept = old.kept /\ new.context = old.context
        /\ new.outcome = old.outcome
    BY <1>2, <1>4, <2>1, LooksFields
  <2>3. GetsSnapshot(old, new, life, s)
    BY <1>2, <1>4, <2>2 DEF GetsSnapshot
  <2> QED
    BY <2>1, <2>3
<1>5. \/ /\ IsError(answer)
         /\ \E code \in {429, 503} : Concludes(old, new, "done", code)
      \/ /\ Receives(answer.flights)
         /\ Looks(old, new, "ok", SnapshotOf(answer.flights, None, Day))
      \/ Looks(old, new, "crashed", FallbackSnapshot(Day))
  BY <1>1 DEF Built
<1> QED
  BY <1>2, <1>3, <1>4, <1>5

LEMMA RespondEffect ==
  ASSUME PlanTypes, NEW r \in Requests, Respond(r),
         NEW old, old = req[r], NEW new, new = req'[r]
  PROVE  OnlyMoves(r) /\ Answers(old, new)
<1>1. /\ OnlyMoves(r) /\ req[r].at = "answer"
      /\ \E at \in {"done", "load", "save"} :
           /\ at # "done" => req[r].overrides # NoOverrides
           /\ at = "save" => req[r].loaded # None
           /\ Concludes(req[r], req'[r], at, 200)
  BY RespondShape
<1>2. IsRequest(old) /\ old.at = "answer"
  BY <1>1 DEF PlanTypes, RequestTypes
<1>3. PICK at \in {"done", "load", "save"} :
        /\ at # "done" => old.overrides # NoOverrides
        /\ at = "save" => old.loaded # None
        /\ Concludes(old, new, at, 200)
  BY <1>1, Zenon
<1>4. Answers(old, new)
  BY <1>2, <1>3, ConcludesFields DEF Answers
<1> QED
  BY <1>1, <1>4

LEMMA LoadForOverridesEffect ==
  ASSUME PlanTypes, NEW r \in Requests, LoadForOverrides(r),
         NEW old, old = req[r], NEW new, new = req'[r]
  PROVE  /\ OnlyMoves(r)
         /\ Loads(old, new, row) \/ Stops(old, new)
<1>1. /\ OnlyMoves(r) /\ req[r].at = "load"
      /\ \/ /\ UNCHANGED bounds
            /\ req'[r] = [req[r] EXCEPT !.at = "save", !.loaded = row]
         \/ Spend /\ req'[r] = [req[r] EXCEPT !.at = "done"]
  BY LoadForOverridesShape
<1>2. IsRequest(old) /\ old.at = "load"
  BY <1>1 DEF PlanTypes, RequestTypes
<1>3. CASE new = [old EXCEPT !.at = "save", !.loaded = row]
  BY <1>1, <1>2, <1>3 DEF IsRequest, Fields, Loads
<1>4. CASE new = [old EXCEPT !.at = "done"]
  BY <1>1, <1>2, <1>4 DEF IsRequest, Fields, Stops, Underway
<1> QED
  BY <1>1, <1>3, <1>4

LEMMA CommitOverridesEffect ==
  ASSUME PlanTypes, NEW r \in Requests, CommitOverrides(r),
         NEW old, old = req[r], NEW new, new = req'[r],
         NEW merged, merged = Merged(r)
  PROVE  /\ OnlyMoves(r) /\ old.at = "save"
         /\ \/ /\ KeepsOverrides(old, new) /\ row'.home = row.home
               /\ \/ row' = row /\ merged = old.loaded.prefs
                  \/ row'.prefs = merged
            \/ Stops(old, new) /\ UNCHANGED row
<1>1. /\ OnlyMoves(r) /\ req[r].at = "save"
      /\ \/ /\ UNCHANGED bounds
            /\ row' = IF Merged(r) = req[r].loaded.prefs THEN row
                      ELSE [row EXCEPT !.prefs = Merged(r)]
            /\ req'[r] = [req[r] EXCEPT !.at = "done", !.kept = TRUE]
         \/ /\ Spend /\ UNCHANGED row
            /\ req'[r] = [req[r] EXCEPT !.at = "done"]
  BY CommitOverridesShape
<1>2. IsRequest(old) /\ old.at = "save" /\ IsRow(row)
  BY <1>1 DEF PlanTypes, RequestTypes
<1>3. CASE new = [old EXCEPT !.at = "done", !.kept = TRUE]
           /\ row' = IF merged = old.loaded.prefs THEN row
                     ELSE [row EXCEPT !.prefs = merged]
  <2>1. KeepsOverrides(old, new)
    BY <1>2, <1>3 DEF IsRequest, Fields, KeepsOverrides
  <2>2. /\ row'.home = row.home
        /\ \/ row' = row /\ merged = old.loaded.prefs
           \/ row'.prefs = merged
    BY <1>2, <1>3 DEF IsRow
  <2> QED
    BY <1>1, <2>1, <2>2
<1>4. CASE new = [old EXCEPT !.at = "done"] /\ UNCHANGED row
  BY <1>1, <1>2, <1>4 DEF IsRequest, Fields, Stops, Underway
<1> QED
  BY <1>1, <1>3, <1>4

LEMMA RestartEffect ==
  ASSUME PlanTypes, Restart, NEW r \in Requests,
         NEW old, old = req[r], NEW new, new = req'[r]
  PROVE  new = old \/ Stops(old, new)
<1>1. /\ req[r].at \in {"idle", "done"} => req'[r] = req[r]
      /\ req[r].at \notin {"idle", "done"} =>
           req'[r] = [req[r] EXCEPT !.at = "done"]
  BY RestartShape
<1>2. IsRequest(old) /\ old.at \in Underway \union {"idle", "done"}
  BY DEF PlanTypes, RequestTypes
<1>3. CASE new = [old EXCEPT !.at = "done"] /\ old.at \in Underway
  BY <1>2, <1>3 DEF IsRequest, Fields, Stops
<1> QED
  BY <1>1, <1>2, <1>3

(* Once it is under way, a request keeps its address and its overrides.    *)
Goes(old, new) ==
  /\ old.at \in Underway /\ new.at \in Underway \union {"done"}
  /\ new.home = old.home /\ new.overrides = old.overrides

LEMMA StepGoes ==
  ASSUME PlanTypes, NEW r \in Requests, RequestStep(r), ~ Ask(r),
         NEW old, old = req[r], NEW new, new = req'[r]
  PROVE  OnlyMoves(r) /\ Goes(old, new) /\ met' = met
<1>1. CASE LoadForHome(r)
  <2>1. OnlyMoves(r) /\ (Loads(old, new, row) \/ SkipsHome(old, new))
    BY <1>1, LoadForHomeEffect
  <2> QED
    BY <1>1, <2>1 DEF Loads, SkipsHome, Goes, Underway, LoadForHome
<1>2. CASE CommitHome(r)
  <2>1. OnlyMoves(r) /\ (SavesHome(old, new) \/ SkipsHome(old, new))
    BY <1>2, CommitHomeEffect
  <2> QED
    BY <1>2, <2>1 DEF SavesHome, SkipsHome, Goes, Underway, CommitHome
<1>3. CASE ReadContext(r)
  <2>1. OnlyMoves(r)
        /\ (Stops(old, new) \/ \E from : GetsContext(old, new, from))
    BY <1>3, ReadContextEffect
  <2> QED
    BY <1>3, <2>1 DEF Stops, GetsContext, Goes, Underway, ReadContext
<1>4. CASE BuildSnapshot(r)
  <2>0. PICK answer : answer = FlightsNow
    OBVIOUS
  <2>1. /\ OnlyMoves(r)
        /\ Stops(old, new) \/ \E s : GetsSnapshot(old, new, Lives, s)
    BY <1>4, <2>0, BuildSnapshotEffect
  <2> QED
    BY <1>4, <2>1 DEF Stops, GetsSnapshot, Goes, Underway, BuildSnapshot
<1>5. CASE Respond(r)
  <2>1. OnlyMoves(r) /\ Answers(old, new)
    BY <1>5, RespondEffect
  <2> QED
    BY <1>5, <2>1 DEF Answers, Goes, Underway, Respond
<1>6. CASE LoadForOverrides(r)
  <2>1. OnlyMoves(r) /\ (Loads(old, new, row) \/ Stops(old, new))
    BY <1>6, LoadForOverridesEffect
  <2> QED
    BY <1>6, <2>1 DEF Loads, Stops, Goes, Underway, LoadForOverrides
<1>7. CASE CommitOverrides(r)
  <2>0. PICK merged : merged = Merged(r)
    OBVIOUS
  <2>1. OnlyMoves(r) /\ (KeepsOverrides(old, new) \/ Stops(old, new))
    BY <1>7, <2>0, CommitOverridesEffect
  <2> QED
    BY <1>7, <2>1 DEF KeepsOverrides, Stops, Goes, Underway,
                      CommitOverrides
<1> QED
  BY <1>1, <1>2, <1>3, <1>4, <1>5, <1>6, <1>7 DEF RequestStep

-----------------------------------------------------------------------------
(* Who has met whom.                                                       *)

LEMMA MetStep ==
  ASSUME PlanTypes, MetPart, [PlanNext]_planVars
  PROVE  MetPart'
<1>1. CASE UNCHANGED planVars
  BY <1>1 DEF MetPart, planVars
<1>2. CASE AdbChanges \/ Evict
  BY <1>2 DEF MetPart, AdbChanges, Evict
<1>3. CASE Restart
  <2>1. \A r \in Requests : req'[r].at \in Underway =>
          req[r].at \in Underway
    <3> SUFFICES ASSUME NEW r \in Requests, req'[r].at \in Underway
                 PROVE  req[r].at \in Underway
      OBVIOUS
    <3>1. req'[r] = req[r] \/ Stops(req[r], req'[r])
      BY <1>3, RestartEffect
    <3> QED
      BY <3>1 DEF Stops, Underway
  <2>2. met' = met
    BY <1>3 DEF Restart
  <2> QED
    BY <2>1, <2>2 DEF MetPart
<1>4. ASSUME NEW r \in Requests, RequestStep(r), ~ Ask(r)
      PROVE  MetPart'
  <2>1. OnlyMoves(r) /\ Goes(req[r], req'[r]) /\ met' = met
    BY <1>4, StepGoes
  <2> QED
    BY <2>1 DEF MetPart, OnlyMoves, Goes
<1>5. ASSUME NEW r \in Requests, Ask(r)
      PROVE  MetPart'
  <2>1. PICK old, new : old = req[r] /\ new = req'[r]
    OBVIOUS
  <2>2. OnlyMoves(r) /\ \E home, overrides : Asks(old, new, home, overrides)
    BY <1>5, <2>1, AskEffect
  <2>3. old.at = "idle"
    BY <2>2 DEF Asks
  <2>4. /\ met \in [Requests -> SUBSET Requests]
        /\ \A q \in Requests : req[q].at \in Underway \union {"idle", "done"}
    BY DEF PlanTypes, RequestTypes
  <2>5. InFlight = {q \in Requests : req[q].at \in Underway}
    BY <2>4 DEF InFlight, Underway
  <2>6. met' = [q \in Requests |-> IF q = r THEN met[q] \union InFlight
                                   ELSE IF q \in InFlight
                                   THEN met[q] \union {r} ELSE met[q]]
    BY <1>5 DEF Ask
  <2>7. r \notin InFlight
    BY <2>1, <2>3, <2>5 DEF Underway
  <2>8. \A q \in Requests : q \notin met'[q]
    BY <2>6, <2>7 DEF MetPart
  <2>9. ASSUME NEW p \in Requests, NEW q \in Requests, p # q,
               req'[p].at \in Underway, req'[q].at \in Underway
        PROVE  q \in met'[p]
    <3>1. CASE p = r
      <4>1. q \in InFlight
        BY <2>2, <2>5, <2>9, <3>1 DEF OnlyMoves
      <4> QED
        BY <2>6, <3>1, <4>1
    <3>2. CASE q = r
      <4>1. p \in InFlight
        BY <2>2, <2>5, <2>9, <3>2 DEF OnlyMoves
      <4> QED
        BY <2>6, <2>9, <3>2, <4>1
    <3>3. CASE p # r /\ q # r
      <4>1. req'[p] = req[p] /\ req'[q] = req[q]
        BY <2>2, <3>3 DEF OnlyMoves
      <4>2. q \in met[p]
        BY <2>9, <4>1 DEF MetPart
      <4> QED
        BY <2>6, <3>3, <4>2
    <3> QED
      BY <3>1, <3>2, <3>3
  <2> QED
    BY <2>8, <2>9 DEF MetPart
<1> QED
  BY <1>1, <1>2, <1>3, <1>4, <1>5 DEF PlanNext, RequestStep

-----------------------------------------------------------------------------
(* Plans of departures that were reported.                                 *)

(* What every step but BuildSnapshot leaves: a request that has looked up  *)
(* its flight keeps it, and none other gets one.                           *)
SnapshotsStay ==
  \A r \in Requests : req'[r].looked # "none" =>
    /\ req[r].looked # "none" /\ req'[r].snapshot = req[r].snapshot
    /\ req'[r].life = req[r].life

LEMMA NoLookup ==
  ASSUME PlanTypes, [PlanNext]_planVars,
         \A r \in Requests : ~ BuildSnapshot(r)
  PROVE  SnapshotsStay /\ reported' = reported
         /\ \/ Lives' = Lives - 1
            \/ (cache' = cache /\ Lives' = Lives)
<1>1. CASE UNCHANGED planVars
  BY <1>1, LivesStay DEF SnapshotsStay, planVars
<1>2. CASE AdbChanges
  <2>1. PICK b, c : b = bounds /\ c = bounds'
    OBVIOUS
  <2>2. BoundsTypes(b) /\ \E reply : c = [b EXCEPT !.news = @ \ {reply}]
    BY <1>2, <2>1, BoundsOfTypes DEF AdbChanges
  <2>3. c.restarts = b.restarts /\ c.evictions = b.evictions
    BY <2>2 DEF BoundsTypes
  <2> QED
    BY <1>2, <2>1, <2>3 DEF SnapshotsStay, AdbChanges, Lives
<1>3. CASE Restart
  <2>1. ASSUME NEW r \in Requests
        PROVE  /\ req'[r].looked = req[r].looked
               /\ req'[r].snapshot = req[r].snapshot
               /\ req'[r].life = req[r].life
    <3>1. req'[r] = req[r] \/ Stops(req[r], req'[r])
      BY <1>3, RestartEffect
    <3> QED
      BY <3>1 DEF Stops
  <2>2. reported' = reported /\ Lives' = Lives - 1
    BY <1>3, LivesFall DEF Restart
  <2> QED
    BY <2>1, <2>2 DEF SnapshotsStay
<1>5. CASE Evict
  <2>1. UNCHANGED <<req, reported>> /\ Lives' = Lives - 1
    BY <1>5, LivesFall DEF Evict
  <2> QED
    BY <2>1 DEF SnapshotsStay
<1>4. ASSUME NEW r \in Requests, RequestStep(r)
      PROVE  SnapshotsStay /\ reported' = reported
             /\ cache' = cache /\ Lives' = Lives
  <2>1. PICK old, new : old = req[r] /\ new = req'[r]
    OBVIOUS
  <2>2. /\ UNCHANGED bounds \/ Spend
        /\ UNCHANGED <<reported, cache>>
    BY <1>4 DEF RequestStep, Ask, LoadForHome, CommitHome, ReadContext,
         Respond, LoadForOverrides, CommitOverrides, Works
  <2>3. Lives' = Lives
    BY <2>2, LivesStay
  <2>4. /\ OnlyMoves(r) /\ new.looked = old.looked
        /\ new.looked # "none" =>
             new.snapshot = old.snapshot /\ new.life = old.life
    <3>1. CASE Ask(r)
      <4>1. /\ OnlyMoves(r)
            /\ \E home, overrides : Asks(old, new, home, overrides)
        BY <2>1, <3>1, AskEffect
      <4>2. old.at = "idle" => old.looked = "none"
        BY <2>1 DEF PlanTypes, RequestTypes
      <4> QED
        BY <4>1, <4>2 DEF Asks
    <3>2. CASE LoadForHome(r)
      BY <2>1, <3>2, LoadForHomeEffect DEF Loads, SkipsHome
    <3>3. CASE CommitHome(r)
      BY <2>1, <3>3, CommitHomeEffect DEF SavesHome, SkipsHome
    <3>4. CASE ReadContext(r)
      BY <2>1, <3>4, ReadContextEffect DEF GetsContext, Stops
    <3>5. CASE Respond(r)
      BY <2>1, <3>5, RespondEffect DEF Answers
    <3>6. CASE LoadForOverrides(r)
      BY <2>1, <3>6, LoadForOverridesEffect DEF Loads, Stops
    <3>7. CASE CommitOverrides(r)
      <4>1. PICK merged : merged = Merged(r)
        OBVIOUS
      <4> QED
        BY <2>1, <3>7, <4>1, CommitOverridesEffect
          DEF KeepsOverrides, Stops
    <3> QED
      BY <1>4, <3>1, <3>2, <3>3, <3>4, <3>5, <3>6, <3>7 DEF RequestStep
  <2> QED
    BY <2>1, <2>2, <2>3, <2>4 DEF SnapshotsStay, OnlyMoves
<1> QED
  BY <1>1, <1>2, <1>3, <1>4, <1>5 DEF PlanNext

(* A lookup: the plan's departure, and what is cached.                     *)
LEMMA LookupEffect ==
  ASSUME PlanTypes, NEW r \in Requests, BuildSnapshot(r)
  PROVE  \E s :
           /\ OnlyMoves(r)
           /\ Stops(req[r], req'[r])
                \/ GetsSnapshot(req[r], req'[r], Lives, s)
           /\ s.source = "adb" \/ s.source = "fallback"
           /\ s.source = "adb" =>
                cache' # None /\ s.departure \in reported'
           /\ reported \subseteq reported' /\ Lives' = Lives
           /\ cache # None => cache' # None
<1>0. PICK answer : answer = FlightsNow
  OBVIOUS
<1>1. PICK flights, s : /\ flights = answer.flights
                        /\ s = SnapshotOf(flights, None, Day)
  OBVIOUS
<1>2. IsFlights(flights)
  BY <1>0, <1>1, FlightsNowTypes
<1>3. Built(r, answer)
  BY <1>0, BuildSnapshotShape
<1>4. PICK old, new : old = req[r] /\ new = req'[r]
  OBVIOUS
<1>5. /\ OnlyMoves(r)
      /\ \/ Stops(old, new)
         \/ GetsSnapshot(old, new, Lives, s) /\ Receives(flights)
         \/ GetsSnapshot(old, new, Lives, FallbackSnapshot(Day))
  BY <1>0, <1>1, <1>4, BuildSnapshotEffect
<1>6. Receives(flights) \/ UNCHANGED <<cache, reported>>
  BY <1>1, <1>3, Zenon DEF Built
<1>7. Lives' = Lives
  BY <1>3, LivesStay, Zenon DEF Built
<1>8. reported \subseteq reported' /\ (cache # None => cache' # None)
  BY <1>2, <1>6 DEF Receives, Remember, IsFlights
<1>9. CASE GetsSnapshot(old, new, Lives, s) /\ Receives(flights)
  <2>1. /\ s.source = "adb" \/ s.source = "fallback"
        /\ s.source = "adb" => /\ flights # <<>> /\ 1 \in DOMAIN flights
                               /\ s.departure = Departure(flights[1])
    BY <1>1, <1>2, SnapshotTypes
  <2>2. s.source = "adb" => cache' # None /\ s.departure \in reported'
    BY <1>2, <1>9, <2>1 DEF Receives, Remember, IsFlights
  <2> QED
    BY <1>4, <1>5, <1>7, <1>8, <1>9, <2>1, <2>2
<1>10. CASE \/ Stops(old, new)
            \/ GetsSnapshot(old, new, Lives, FallbackSnapshot(Day))
  <2>1. PICK f : f = FallbackSnapshot(Day)
    OBVIOUS
  <2>2. f.source = "fallback"
    BY <2>1 DEF FallbackSnapshot
  <2>3. Stops(old, new) \/ GetsSnapshot(old, new, Lives, f)
    BY <1>10, <2>1
  <2> QED
    BY <1>4, <1>5, <1>7, <1>8, <2>2, <2>3
<1> QED
  BY <1>5, <1>9, <1>10

LEMMA ReportedStep ==
  ASSUME PlanTypes, ReportedPart, [PlanNext]_planVars
  PROVE  ReportedPart'
<1>1. CASE \A r \in Requests : ~ BuildSnapshot(r)
  BY <1>1, NoLookup DEF ReportedPart, SnapshotsStay
<1>2. ASSUME NEW r \in Requests, BuildSnapshot(r)
      PROVE  ReportedPart'
  <2>1. PICK s :
           /\ OnlyMoves(r)
           /\ Stops(req[r], req'[r])
                \/ GetsSnapshot(req[r], req'[r], Lives, s)
           /\ s.source = "adb" \/ s.source = "fallback"
           /\ s.source = "adb" => s.departure \in reported'
           /\ reported \subseteq reported'
    BY <1>2, LookupEffect
  <2> SUFFICES ASSUME NEW q \in Requests, req'[q].looked # "none"
               PROVE  \/ req'[q].snapshot.source = "fallback"
                      \/ req'[q].snapshot.departure \in reported'
    BY DEF ReportedPart
  <2>2. CASE q # r
    BY <2>1, <2>2 DEF ReportedPart, OnlyMoves
  <2>3. CASE q = r /\ Stops(req[r], req'[r])
    BY <2>1, <2>3 DEF ReportedPart, Stops
  <2>4. CASE q = r /\ GetsSnapshot(req[r], req'[r], Lives, s)
    BY <2>1, <2>4 DEF GetsSnapshot
  <2> QED
    BY <2>1, <2>2, <2>3, <2>4
<1> QED
  BY <1>1, <1>2

-----------------------------------------------------------------------------
(* Plans of flights that are still cached.                                 *)

LEMMA LifeStep ==
  ASSUME PlanTypes, LifePart, [PlanNext]_planVars
  PROVE  LifePart'
<1>0. PICK now, next : now = Lives /\ next = Lives'
  OBVIOUS
<1>a. now \in Nat /\ \A r \in Requests : req[r].looked # "none" =>
        /\ req[r].life \in Nat /\ req[r].life >= now
        /\ req[r].life = now /\ req[r].snapshot.source = "adb" =>
             cache # None
  BY <1>0, LivesTypes DEF LifePart, PlanTypes, RequestTypes
<1> SUFFICES ASSUME NEW q \in Requests, req'[q].looked # "none"
             PROVE  /\ req'[q].life >= next
                    /\ /\ req'[q].life = next
                       /\ req'[q].snapshot.source = "adb"
                       => cache' # None
  BY <1>0 DEF LifePart
<1>1. CASE \A r \in Requests : ~ BuildSnapshot(r)
  <2>1. SnapshotsStay /\ (next = now - 1 \/ (cache' = cache /\ next = now))
    BY <1>0, <1>1, NoLookup
  <2>2. /\ req[q].looked # "none" /\ req'[q].snapshot = req[q].snapshot
        /\ req'[q].life = req[q].life
    BY <2>1 DEF SnapshotsStay
  <2> QED
    BY <1>a, <2>1, <2>2
<1>2. ASSUME NEW r \in Requests, BuildSnapshot(r)
      PROVE  /\ req'[q].life >= next
             /\ /\ req'[q].life = next
                /\ req'[q].snapshot.source = "adb"
                => cache' # None
  <2>1. PICK s :
           /\ OnlyMoves(r)
           /\ Stops(req[r], req'[r])
                \/ GetsSnapshot(req[r], req'[r], now, s)
           /\ s.source = "adb" => cache' # None
           /\ next = now
           /\ cache # None => cache' # None
    BY <1>0, <1>2, LookupEffect
  <2>2. CASE /\ req'[q].looked = req[q].looked
             /\ req'[q].snapshot = req[q].snapshot
             /\ req'[q].life = req[q].life
    BY <1>a, <2>1, <2>2
  <2>3. CASE q = r /\ GetsSnapshot(req[r], req'[r], now, s)
    BY <1>a, <2>1, <2>3 DEF GetsSnapshot
  <2> QED
    BY <2>1, <2>2, <2>3 DEF Stops, OnlyMoves
<1> QED
  BY <1>1, <1>2

-----------------------------------------------------------------------------
(* The address.                                                            *)

(* Whoever has met someone with an address has done so for good.           *)
LEMMA RivalStays ==
  ASSUME PlanTypes, HomePart, [PlanNext]_planVars,
         NEW r \in Requests, Rival(r)
  PROVE  Rival(r)'
<1>1. PICK q \in met[r] : req[q].home # None
  BY DEF Rival
<1>2. q \in Requests
  BY <1>1 DEF PlanTypes
<1>3. q \in met'[r] /\ req'[q].home = req[q].home
  <2>1. CASE UNCHANGED planVars
    BY <1>1, <2>1 DEF planVars
  <2>2. CASE AdbChanges \/ Evict
    BY <1>1, <2>2 DEF AdbChanges, Evict
  <2>3. CASE Restart
    <3>1. req'[q] = req[q] \/ Stops(req[q], req'[q])
      BY <1>2, <2>3, RestartEffect
    <3> QED
      BY <1>1, <2>3, <3>1 DEF Stops, Restart
  <2>4. ASSUME NEW p \in Requests, RequestStep(p), ~ Ask(p)
        PROVE  q \in met'[r] /\ req'[q].home = req[q].home
    <3>1. OnlyMoves(p) /\ Goes(req[p], req'[p]) /\ met' = met
      BY <2>4, StepGoes
    <3> QED
      BY <1>1, <1>2, <3>1 DEF OnlyMoves, Goes
  <2>5. ASSUME NEW p \in Requests, Ask(p)
        PROVE  q \in met'[r] /\ req'[q].home = req[q].home
    <3>1. OnlyMoves(p) /\ \E home, overrides :
                             Asks(req[p], req'[p], home, overrides)
      BY <2>5, AskEffect
    <3>2. q # p
      BY <1>1, <3>1 DEF Asks, HomePart, HomeOf
    <3>3. met' = [t \in Requests |-> IF t = p THEN met[t] \union InFlight
                                     ELSE IF t \in InFlight
                                     THEN met[t] \union {p} ELSE met[t]]
      BY <2>5 DEF Ask
    <3> QED
      BY <1>1, <1>2, <3>1, <3>2, <3>3 DEF OnlyMoves
  <2> QED
    BY <2>1, <2>2, <2>3, <2>4, <2>5 DEF PlanNext, RequestStep
<1> QED
  BY <1>1, <1>3 DEF Rival

LEMMA HomeStep ==
  ASSUME PlanTypes, MetPart, HomePart, [PlanNext]_planVars
  PROVE  HomePart'
<1>1. \A r \in Requests : Rival(r) => Rival(r)'
  BY RivalStays
<1>2. CASE UNCHANGED planVars
  BY <1>2 DEF HomePart, HomeOf, Rival, planVars
<1>3. CASE AdbChanges \/ Evict
  BY <1>3 DEF HomePart, HomeOf, Rival, AdbChanges, Evict
<1>4. CASE Restart
  <2> SUFFICES ASSUME NEW r \in Requests
               PROVE  HomeOf(req'[r], row'.home, Rival(r)')
    BY DEF HomePart
  <2>1. HomeOf(req[r], row.home, Rival(r))
    BY DEF HomePart
  <2>2. row' = row
    BY <1>4 DEF Restart
  <2>3. req'[r] = req[r] \/ Stops(req[r], req'[r])
    BY <1>4, RestartEffect
  <2>4. CASE req'[r] = req[r]
    BY <1>1, <2>1, <2>2, <2>4 DEF HomeOf
  <2>5. CASE Stops(req[r], req'[r])
    BY <1>1, <2>1, <2>2, <2>5 DEF HomeOf, Stops
  <2> QED
    BY <2>3, <2>4, <2>5
<1>5. ASSUME NEW r \in Requests, RequestStep(r)
      PROVE  HomePart'
  <2>1. PICK old, new : old = req[r] /\ new = req'[r]
    OBVIOUS
  <2>2. PICK rival, now : rival = Rival(r) /\ now = Rival(r)'
    OBVIOUS
  <2>3. HomeOf(old, row.home, rival) /\ (rival => now)
    BY <1>1, <2>1, <2>2 DEF HomePart
  <2>4. OnlyMoves(r)
    BY <1>5, <2>1, AskEffect, StepGoes
  <2>5. \/ row'.home = row.home
        \/ CommitHome(r) /\ old.home # None
    <3>1. CASE CommitHome(r)
      BY <2>1, <2>3, <3>1 DEF HomeOf, CommitHome
    <3>2. CASE CommitOverrides(r)
      <4>1. PICK merged : merged = Merged(r)
        OBVIOUS
      <4> QED
        BY <2>1, <3>2, <4>1, CommitOverridesEffect
    <3> QED
      BY <1>5, <3>1, <3>2 DEF RequestStep, Ask, LoadForHome, ReadContext,
        BuildSnapshot, Respond, LoadForOverrides
  <2>6. ASSUME NEW q \in Requests, q # r
        PROVE  HomeOf(req'[q], row'.home, Rival(q)')
    <3>1. req'[q] = req[q] /\ HomeOf(req[q], row.home, Rival(q))
      BY <2>4, <2>6 DEF OnlyMoves, HomePart
    <3>2. CASE row'.home = row.home
      BY <1>1, <3>1, <3>2 DEF HomeOf
    <3>3. CASE CommitHome(r) /\ old.home # None /\ req[q].at \in Underway
      <4>1. r \in met[q]
        BY <2>1, <2>6, <3>3 DEF MetPart, CommitHome, Underway
      <4>2. Rival(q)
        BY <2>1, <3>3, <4>1 DEF Rival
      <4> QED
        BY <1>1, <3>1, <4>2 DEF HomeOf
    <3>4. CASE req[q].at \notin Underway
      BY <1>1, <3>1, <3>4 DEF HomeOf, Underway
    <3> QED
      BY <2>5, <3>2, <3>3, <3>4
  <2>7. HomeOf(new, row'.home, now)
    <3>1. CASE Ask(r)
      <4>1. \E home, overrides : Asks(old, new, home, overrides)
        BY <2>1, <3>1, AskEffect
      <4>2. RequestTypes(old)
        BY <2>1 DEF PlanTypes
      <4> QED
        BY <4>1, <4>2 DEF Asks, HomeOf, RequestTypes
    <3>2. CASE LoadForHome(r)
      <4>1. Loads(old, new, row) \/ SkipsHome(old, new)
        BY <2>1, <3>2, LoadForHomeEffect
      <4>2. row' = row /\ old.at = "home"
        BY <2>1, <3>2 DEF LoadForHome
      <4>3. /\ old.home # None /\ old.saved = FALSE
            /\ old.outcome # 200
        BY <2>3, <4>2 DEF HomeOf
      <4>4. CASE Loads(old, new, row)
        <5>1. /\ new.at = "commit" /\ new.loaded = row
              /\ new.home # None /\ new.saved = FALSE
              /\ new.outcome # 200
          BY <4>2, <4>3, <4>4 DEF Loads
        <5> QED
          BY <4>2, <5>1 DEF HomeOf
      <4>5. CASE SkipsHome(old, new)
        <5>1. /\ new.at = "context" /\ new.saved = FALSE
              /\ new.outcome # 200
          BY <4>3, <4>5 DEF SkipsHome
        <5> QED
          BY <5>1 DEF HomeOf
      <4> QED
        BY <4>1, <4>4, <4>5
    <3>3. CASE CommitHome(r)
      <4>1. /\ old.at = "commit"
            /\ \/ /\ SavesHome(old, new)
                  /\ \/ row'.home = old.home
                     \/ row'.home = row.home /\ old.loaded.home = old.home
               \/ SkipsHome(old, new) /\ UNCHANGED row
        BY <2>1, <3>3, CommitHomeEffect
      <4>2. CASE /\ SavesHome(old, new)
                 /\ \/ row'.home = old.home
                    \/ row'.home = row.home /\ old.loaded.home = old.home
        <5>0. old.at = "commit" /\ new.home = old.home
          BY <4>2 DEF SavesHome
        <5>1. row'.home = new.home \/ now
          BY <2>3, <4>2, <5>0 DEF HomeOf
        <5>2. new.at = "context" /\ new.outcome # 200
          BY <2>3, <4>2 DEF SavesHome, HomeOf
        <5> QED
          BY <5>1, <5>2 DEF HomeOf
      <4>3. CASE SkipsHome(old, new) /\ UNCHANGED row
        BY <2>3, <4>1, <4>3 DEF SkipsHome, HomeOf
      <4> QED
        BY <4>1, <4>2, <4>3
    <3>4. CASE ReadContext(r)
      <4>1. Stops(old, new) \/ \E from : GetsContext(old, new, from)
        BY <2>1, <3>4, ReadContextEffect
      <4>2. CASE Stops(old, new)
        BY <2>3, <4>2 DEF Stops, HomeOf
      <4>3. ASSUME NEW from, GetsContext(old, new, from)
            PROVE  HomeOf(new, row'.home, now)
        <5>1. /\ new.at = "flight" /\ new.home = old.home
              /\ new.saved = old.saved
          BY <4>3 DEF GetsContext
        <5>2. new.saved => row.home = new.home \/ now
          BY <2>3, <4>3, <5>1 DEF GetsContext, HomeOf
        <5>3. from = row => new.context.home = row.home
          BY <4>3 DEF GetsContext
        <5>4. from # row => ~ new.context.stored
          BY <4>3 DEF GetsContext
        <5> QED
          BY <5>1, <5>2, <5>3, <5>4 DEF HomeOf
      <4> QED
        BY <4>1, <4>2, <4>3
    <3>5. CASE BuildSnapshot(r)
      <4>1. \/ Stops(old, new)
            \/ \E s : GetsSnapshot(old, new, Lives, s)
        BY <2>1, <3>5, LookupEffect
      <4>2. CASE Stops(old, new)
        BY <2>3, <4>2 DEF Stops, HomeOf
      <4>3. ASSUME NEW s, GetsSnapshot(old, new, Lives, s)
            PROVE  HomeOf(new, row'.home, now)
        BY <2>3, <4>3 DEF GetsSnapshot, HomeOf
      <4> QED
        BY <4>1, <4>2, <4>3
    <3>6. CASE Respond(r)
      <4>1. Answers(old, new)
        BY <2>1, <3>6, RespondEffect
      <4> QED
        BY <2>3, <4>1 DEF Answers, HomeOf
    <3>7. CASE LoadForOverrides(r)
      <4>1. Loads(old, new, row) \/ Stops(old, new)
        BY <2>1, <3>7, LoadForOverridesEffect
      <4>2. old.at = "load"
        BY <2>1, <3>7 DEF LoadForOverrides
      <4> QED
        BY <2>3, <4>1, <4>2 DEF Loads, Stops, HomeOf
    <3>8. CASE CommitOverrides(r)
      <4>0. PICK merged : merged = Merged(r)
        OBVIOUS
      <4>1. KeepsOverrides(old, new) \/ Stops(old, new)
        BY <2>1, <3>8, <4>0, CommitOverridesEffect
      <4>2. old.at = "save"
        BY <2>1, <3>8 DEF CommitOverrides
      <4> QED
        BY <2>3, <4>1, <4>2 DEF KeepsOverrides, Stops, HomeOf
    <3> QED
      BY <1>5, <3>1, <3>2, <3>3, <3>4, <3>5, <3>6, <3>7, <3>8
        DEF RequestStep
  <2> QED
    BY <2>1, <2>2, <2>6, <2>7 DEF HomePart
<1> QED
  BY <1>2, <1>3, <1>4, <1>5 DEF PlanNext

-----------------------------------------------------------------------------
(* The overrides.                                                          *)

(* Whoever brings overrides brings them for good.                          *)
LEMMA WritersStay ==
  ASSUME PlanTypes, CopyPart, [PlanNext]_planVars,
         NEW r \in Requests, NEW q \in Requests,
         req[q].overrides # NoOverrides
  PROVE  /\ req'[q].overrides = req[q].overrides
         /\ q \in met[r] => q \in met'[r]
<1>1. CASE UNCHANGED planVars
  BY <1>1 DEF planVars
<1>2. CASE AdbChanges \/ Evict
  BY <1>2 DEF AdbChanges, Evict
<1>3. CASE Restart
  <2>1. req'[q] = req[q] \/ Stops(req[q], req'[q])
    BY <1>3, RestartEffect
  <2> QED
    BY <1>3, <2>1 DEF Stops, Restart
<1>4. ASSUME NEW p \in Requests, RequestStep(p), ~ Ask(p)
      PROVE  /\ req'[q].overrides = req[q].overrides
             /\ q \in met[r] => q \in met'[r]
  <2>1. OnlyMoves(p) /\ Goes(req[p], req'[p]) /\ met' = met
    BY <1>4, StepGoes
  <2> QED
    BY <2>1 DEF OnlyMoves, Goes
<1>5. ASSUME NEW p \in Requests, Ask(p)
      PROVE  /\ req'[q].overrides = req[q].overrides
             /\ q \in met[r] => q \in met'[r]
  <2>1. OnlyMoves(p) /\ \E home, overrides :
                           Asks(req[p], req'[p], home, overrides)
    BY <1>5, AskEffect
  <2>2. q # p
    BY <2>1 DEF Asks, CopyPart, CopyOf
  <2>3. met' = [t \in Requests |-> IF t = p THEN met[t] \union InFlight
                                   ELSE IF t \in InFlight
                                   THEN met[t] \union {p} ELSE met[t]]
    BY <1>5 DEF Ask
  <2> QED
    BY <2>1, <2>2, <2>3 DEF OnlyMoves
<1> QED
  BY <1>1, <1>2, <1>3, <1>4, <1>5 DEF PlanNext, RequestStep

LEMMA OverwriterStays ==
  ASSUME PlanTypes, CopyPart, [PlanNext]_planVars,
         NEW r \in Requests, NEW k, Overwriter(r, k)
  PROVE  Overwriter(r, k)'
<1>1. PICK q \in Requests \ {r} :
        /\ req[q].overrides # NoOverrides
        /\ q \in met[r] \/ k \in DOMAIN req[q].overrides
  BY DEF Overwriter
<1>2. /\ req'[q].overrides = req[q].overrides
      /\ q \in met[r] => q \in met'[r]
  BY <1>1, WritersStay
<1> QED
  BY <1>1, <1>2 DEF Overwriter


(* A step without a commit of overrides: what is kept was kept, a copy is  *)
(* an old one or is taken now.                                             *)
CopyMoves(old, new) ==
  /\ new.kept => old.kept /\ new.overrides = old.overrides
  /\ HasCopy(new) =>
       \/ new.loaded.prefs = row.prefs
       \/ HasCopy(old) /\ new.loaded.prefs = old.loaded.prefs
  /\ new.at \in {"load", "save"} => new.overrides # NoOverrides
  /\ new.at = "idle" => new.overrides = NoOverrides
  /\ new.at # "done" => new.kept = FALSE

LEMMA StopMoves ==
  ASSUME PlanTypes, CopyPart, NEW r \in Requests,
         NEW old, old = req[r], NEW new, Stops(old, new)
  PROVE  CopyMoves(old, new)
<1>1. new.at = "done" /\ new.kept = old.kept
      /\ new.overrides = old.overrides
  BY DEF Stops
<1> QED
  BY <1>1 DEF CopyMoves, HasCopy, Underway

LEMMA CopyEffect ==
  ASSUME PlanTypes, CopyPart, NEW r \in Requests, RequestStep(r),
         ~ CommitOverrides(r), NEW old, old = req[r], NEW new, new = req'[r]
  PROVE  OnlyMoves(r) /\ CopyMoves(old, new) /\ row'.prefs = row.prefs
<1>0. RequestTypes(old) /\ CopyOf(old, row.prefs, MetWriter(r))
  BY DEF PlanTypes, CopyPart
<1>1. CASE Ask(r)
  <2>1. OnlyMoves(r) /\ \E home, overrides : Asks(old, new, home, overrides)
    BY <1>1, AskEffect
  <2>2. old.at = "idle" /\ new.at \in {"home", "context"}
        /\ new.loaded = old.loaded /\ new.kept = old.kept
    BY <2>1 DEF Asks
  <2>3. old.loaded = None /\ old.kept = FALSE
    BY <1>0, <2>2 DEF RequestTypes
  <2>4. CopyMoves(old, new)
    BY <2>2, <2>3 DEF CopyMoves, HasCopy
  <2> QED
    BY <1>1, <2>1, <2>4 DEF Ask
<1>2. CASE LoadForHome(r)
  <2>1. OnlyMoves(r) /\ (Loads(old, new, row) \/ SkipsHome(old, new))
    BY <1>2, LoadForHomeEffect
  <2>2. old.at = "home" /\ row' = row
    BY <1>2 DEF LoadForHome
  <2>3. old.kept = FALSE
    BY <1>0, <2>2 DEF CopyOf
  <2>4. CASE Loads(old, new, row)
    BY <2>1, <2>2, <2>3, <2>4 DEF Loads, CopyMoves
  <2>5. CASE SkipsHome(old, new)
    <3>1. /\ new.at = "context" /\ new.kept = FALSE
          /\ new.loaded = old.loaded \/ new.loaded = None
      BY <2>3, <2>5 DEF SkipsHome
    <3> QED
      BY <2>1, <2>2, <3>1 DEF CopyMoves, HasCopy, Underway
  <2> QED
    BY <2>1, <2>4, <2>5
<1>3. CASE CommitHome(r)
  <2>1. /\ OnlyMoves(r) /\ old.at = "commit" /\ row'.prefs = row.prefs
        /\ SavesHome(old, new) \/ (SkipsHome(old, new) /\ new.loaded = None)
    BY <1>3, CommitHomeEffect
  <2>2. new.at = "context" /\ new.kept = FALSE
    BY <1>0, <2>1 DEF CopyOf, SavesHome, SkipsHome
  <2>3. CASE SavesHome(old, new)
    BY <2>1, <2>2, <2>3 DEF SavesHome, CopyMoves, HasCopy
  <2>4. CASE new.loaded = None
    BY <2>1, <2>2, <2>4 DEF CopyMoves, HasCopy
  <2> QED
    BY <2>1, <2>3, <2>4
<1>4. CASE ReadContext(r)
  <2>1. OnlyMoves(r)
        /\ (Stops(old, new) \/ \E from : GetsContext(old, new, from))
    BY <1>4, ReadContextEffect
  <2>2. ASSUME NEW from, GetsContext(old, new, from)
        PROVE  CopyMoves(old, new)
    <3>1. /\ old.at = "context" /\ new.at = "flight"
          /\ new.loaded = old.loaded /\ new.kept = old.kept
      BY <2>2 DEF GetsContext
    <3> QED
      BY <1>0, <3>1 DEF CopyOf, CopyMoves, HasCopy, Underway
  <2> QED
    BY <1>4, <2>1, <2>2, StopMoves DEF ReadContext
<1>5. CASE BuildSnapshot(r)
  <2>1. /\ OnlyMoves(r)
        /\ \/ Stops(old, new)
           \/ \E s : GetsSnapshot(old, new, Lives, s)
    BY <1>5, LookupEffect
  <2>2. ASSUME NEW s, GetsSnapshot(old, new, Lives, s)
        PROVE  CopyMoves(old, new)
    <3>1. /\ old.at = "flight" /\ new.at = "answer"
          /\ new.loaded = old.loaded /\ new.kept = old.kept
      BY <2>2 DEF GetsSnapshot
    <3> QED
      BY <1>0, <3>1 DEF CopyOf, CopyMoves, HasCopy, Underway
  <2> QED
    BY <1>5, <2>1, <2>2, StopMoves DEF BuildSnapshot
<1>6. CASE Respond(r)
  <2>1. OnlyMoves(r) /\ Answers(old, new)
    BY <1>6, RespondEffect
  <2>2. /\ old.at = "answer" /\ new.at \in {"done", "load", "save"}
        /\ new.at # "done" => new.overrides # NoOverrides
        /\ new.at = "save" => new.loaded # None
        /\ new.loaded = old.loaded /\ new.kept = old.kept
    BY <2>1 DEF Answers
  <2>3. CopyMoves(old, new)
    BY <1>0, <2>2 DEF CopyOf, CopyMoves, HasCopy, Underway
  <2> QED
    BY <1>6, <2>1, <2>3 DEF Respond
<1>7. CASE LoadForOverrides(r)
  <2>1. OnlyMoves(r) /\ (Loads(old, new, row) \/ Stops(old, new))
    BY <1>7, LoadForOverridesEffect
  <2>2. old.at = "load" /\ row' = row
    BY <1>7 DEF LoadForOverrides
  <2>3. CASE Loads(old, new, row)
    <3>1. /\ new.at = "save" /\ new.loaded = row
          /\ new.overrides = old.overrides /\ new.kept = old.kept
      BY <2>2, <2>3 DEF Loads
    <3> QED
      BY <1>0, <2>1, <2>2, <3>1 DEF CopyOf, CopyMoves
  <2> QED
    BY <2>1, <2>2, <2>3, StopMoves
<1> QED
  BY <1>1, <1>2, <1>3, <1>4, <1>5, <1>6, <1>7 DEF RequestStep

(* The same for everyone, and for the other steps.                         *)
LEMMA CopiesMove ==
  ASSUME PlanTypes, CopyPart, [PlanNext]_planVars,
         \A r \in Requests : ~ CommitOverrides(r)
  PROVE  /\ row'.prefs = row.prefs
         /\ \A r \in Requests : CopyMoves(req[r], req'[r])
<1>0. ASSUME NEW r \in Requests
      PROVE  CopyMoves(req[r], req[r])
  BY DEF CopyPart, CopyOf, CopyMoves
<1>1. CASE UNCHANGED planVars
  BY <1>0, <1>1 DEF planVars
<1>2. CASE AdbChanges \/ Evict
  BY <1>0, <1>2 DEF AdbChanges, Evict
<1>3. CASE Restart
  <2>1. ASSUME NEW r \in Requests
        PROVE  CopyMoves(req[r], req'[r])
    <3>1. PICK old, new : old = req[r] /\ new = req'[r]
      OBVIOUS
    <3>2. new = old \/ Stops(old, new)
      BY <1>3, <3>1, RestartEffect
    <3>3. CASE new = old
      BY <1>0, <3>1, <3>3
    <3>4. CASE Stops(old, new)
      <4>1. CopyMoves(old, new)
        BY <3>1, <3>4, StopMoves
      <4> QED
        BY <3>1, <4>1
    <3> QED
      BY <3>2, <3>3, <3>4
  <2> QED
    BY <1>3, <2>1 DEF Restart
<1>4. ASSUME NEW r \in Requests, RequestStep(r)
      PROVE  /\ row'.prefs = row.prefs
             /\ \A q \in Requests : CopyMoves(req[q], req'[q])
  <2>1. PICK old, new : old = req[r] /\ new = req'[r]
    OBVIOUS
  <2>2. OnlyMoves(r) /\ CopyMoves(old, new) /\ row'.prefs = row.prefs
    BY <1>4, <2>1, CopyEffect
  <2>3. ASSUME NEW q \in Requests
        PROVE  CopyMoves(req[q], req'[q])
    <3>1. CASE q = r
      BY <2>1, <2>2, <3>1
    <3>2. CASE q # r
      BY <1>0, <2>2, <3>2 DEF OnlyMoves
    <3> QED
      BY <3>1, <3>2
  <2> QED
    BY <2>2, <2>3
<1> QED
  BY <1>1, <1>2, <1>3, <1>4 DEF PlanNext

LEMMA MetWriterStays ==
  ASSUME PlanTypes, CopyPart, [PlanNext]_planVars,
         NEW r \in Requests, MetWriter(r)
  PROVE  MetWriter(r)'
<1>1. PICK q \in met[r] : req[q].overrides # NoOverrides
  BY DEF MetWriter
<1>2. q \in Requests
  BY <1>1 DEF PlanTypes
<1>3. req'[q].overrides = req[q].overrides /\ q \in met'[r]
  BY <1>1, <1>2, WritersStay
<1> QED
  BY <1>1, <1>3 DEF MetWriter

(* What a commit of overrides does to the row and to who made it.          *)
LEMMA OverridesEffect ==
  ASSUME PlanTypes, CopyPart, NEW r \in Requests, CommitOverrides(r)
  PROVE  /\ OnlyMoves(r) /\ req[r].at = "save" /\ HasCopy(req[r])
         /\ req[r].overrides # NoOverrides
         /\ req'[r].at = "done" /\ req'[r].overrides = req[r].overrides
         /\ met' = met
         /\ \/ row' = row /\ req'[r].kept = req[r].kept
            \/ /\ row' = row
               /\ \A k \in DOMAIN req[r].overrides :
                    req[r].loaded.prefs[k] = req[r].overrides[k]
            \/ \A k \in DOMAIN row.prefs :
                 row'.prefs[k] = IF k \in DOMAIN req[r].overrides
                                 THEN req[r].overrides[k]
                                 ELSE req[r].loaded.prefs[k]
         /\ DOMAIN req[r].overrides \subseteq DOMAIN row.prefs
<1>0. PICK old, new : old = req[r] /\ new = req'[r]
  OBVIOUS
<1>1. PICK merged : merged = Merged(r)
  OBVIOUS
<1>2. /\ OnlyMoves(r) /\ old.at = "save"
      /\ \/ /\ KeepsOverrides(old, new)
            /\ \/ row' = row /\ merged = old.loaded.prefs
               \/ row'.prefs = merged
         \/ Stops(old, new) /\ UNCHANGED row
  BY <1>0, <1>1, CommitOverridesEffect
<1>3. /\ RequestTypes(old) /\ IsRow(old.loaded) /\ IsRow(row)
      /\ old.overrides # NoOverrides
  BY <1>0, <1>2 DEF PlanTypes, RequestTypes, CopyPart, CopyOf
<1>4. /\ DOMAIN old.loaded.prefs = DOMAIN row.prefs
      /\ DOMAIN old.overrides \subseteq DOMAIN row.prefs
  BY <1>3 DEF IsRow, Preferences, RequestTypes, IsOverride
<1>5. merged = [k \in DOMAIN row.prefs |->
                  IF k \in DOMAIN old.overrides THEN old.overrides[k]
                  ELSE old.loaded.prefs[k]]
  BY <1>0, <1>1, <1>4 DEF Merged, Effective
<1>6. new.at = "done" /\ new.overrides = old.overrides
  BY <1>2 DEF KeepsOverrides, Stops
<1>7. \/ row' = row /\ new.kept = old.kept
      \/ row' = row /\ \A k \in DOMAIN old.overrides :
                         old.loaded.prefs[k] = old.overrides[k]
      \/ \A k \in DOMAIN row.prefs :
           row'.prefs[k] = IF k \in DOMAIN old.overrides
                           THEN old.overrides[k] ELSE old.loaded.prefs[k]
  <2>1. CASE Stops(old, new) /\ UNCHANGED row
    BY <2>1 DEF Stops
  <2>2. CASE row' = row /\ merged = old.loaded.prefs
    BY <1>4, <1>5, <2>2
  <2>3. CASE row'.prefs = merged
    BY <1>5, <2>3
  <2> QED
    BY <1>2, <2>1, <2>2, <2>3
<1>8. met' = met /\ HasCopy(old)
  BY <1>2 DEF CommitOverrides, HasCopy
<1> QED
  BY <1>0, <1>2, <1>3, <1>4, <1>6, <1>7, <1>8

LEMMA CopyStep ==
  ASSUME PlanTypes, MetPart, CopyPart, [PlanNext]_planVars
  PROVE  CopyPart'
<1>1. CASE \A r \in Requests : ~ CommitOverrides(r)
  <2> SUFFICES ASSUME NEW r \in Requests
               PROVE  CopyOf(req'[r], row'.prefs, MetWriter(r)')
    BY DEF CopyPart
  <2>1. row'.prefs = row.prefs /\ CopyMoves(req[r], req'[r])
    BY <1>1, CopiesMove
  <2>2. CopyOf(req[r], row.prefs, MetWriter(r))
    BY DEF CopyPart
  <2>3. MetWriter(r) => MetWriter(r)'
    BY MetWriterStays
  <2> QED
    BY <2>1, <2>2, <2>3 DEF CopyMoves, CopyOf
<1>2. ASSUME NEW p \in Requests, CommitOverrides(p)
      PROVE  CopyPart'
  <2>1. /\ OnlyMoves(p) /\ req[p].at = "save"
        /\ req[p].overrides # NoOverrides
        /\ req'[p].at = "done" /\ req'[p].overrides = req[p].overrides
        /\ met' = met
    BY <1>2, OverridesEffect
  <2> SUFFICES ASSUME NEW r \in Requests
               PROVE  CopyOf(req'[r], row'.prefs, MetWriter(r)')
    BY DEF CopyPart
  <2>2. CASE r = p
    BY <2>1, <2>2 DEF CopyOf, HasCopy, Underway
  <2>3. CASE r # p
    <3>1. req'[r] = req[r]
      BY <2>1, <2>3 DEF OnlyMoves
    <3>2. CopyOf(req[r], row.prefs, MetWriter(r))
      BY DEF CopyPart
    <3>3. ASSUME HasCopy(req[r])
          PROVE  MetWriter(r)'
      <4>1. req[r].at \in Underway
        BY <3>3 DEF HasCopy, Underway
      <4>2. p \in met[r]
        BY <2>1, <2>3, <4>1 DEF MetPart, Underway
      <4> QED
        BY <2>1, <4>2 DEF MetWriter
    <3> QED
      BY <3>1, <3>2, <3>3 DEF CopyOf
  <2> QED
    BY <2>2, <2>3
<1> QED
  BY <1>1, <1>2

LEMMA MetGrows ==
  ASSUME PlanTypes, [PlanNext]_planVars, NEW r \in Requests
  PROVE  met[r] \subseteq met'[r]
<1>1. CASE UNCHANGED planVars
  BY <1>1 DEF planVars
<1>2. CASE AdbChanges \/ Evict \/ Restart
  BY <1>2 DEF AdbChanges, Evict, Restart
<1>3. ASSUME NEW p \in Requests, RequestStep(p), ~ Ask(p)
      PROVE  met[r] \subseteq met'[r]
  BY <1>3, StepGoes
<1>4. ASSUME NEW p \in Requests, Ask(p)
      PROVE  met[r] \subseteq met'[r]
  BY <1>4 DEF Ask
<1> QED
  BY <1>1, <1>2, <1>3, <1>4 DEF PlanNext, RequestStep

LEMMA KeptStep ==
  ASSUME PlanTypes, MetPart, CopyPart, KeptPart, [PlanNext]_planVars
  PROVE  KeptPart'
<1> SUFFICES ASSUME NEW r \in Requests, req'[r].kept,
                    NEW k \in DOMAIN req'[r].overrides,
                    ~ Overwriter(r, k)'
             PROVE  /\ row'.prefs[k] = req'[r].overrides[k]
                    /\ \A q \in Requests \ ({r} \union met'[r]) :
                         HasCopy(req'[q]) =>
                         req'[q].loaded.prefs[k] = req'[r].overrides[k]
  BY DEF KeptPart
<1>1. CASE \A p \in Requests : ~ CommitOverrides(p)
  <2>1. /\ row'.prefs = row.prefs
        /\ \A q \in Requests : CopyMoves(req[q], req'[q])
    BY <1>1, CopiesMove
  <2>2. req[r].kept /\ req'[r].overrides = req[r].overrides
    BY <2>1 DEF CopyMoves
  <2>3. ~ Overwriter(r, k)
    BY OverwriterStays
  <2>4. met[r] \subseteq met'[r]
    BY MetGrows
  <2>5. row.prefs[k] = req[r].overrides[k]
    BY <2>2, <2>3 DEF KeptPart
  <2> QED
    BY <2>1, <2>2, <2>3, <2>4, <2>5 DEF KeptPart, CopyMoves
<1>2. ASSUME NEW p \in Requests, CommitOverrides(p)
      PROVE  /\ row'.prefs[k] = req'[r].overrides[k]
             /\ \A q \in Requests \ ({r} \union met'[r]) :
                  HasCopy(req'[q]) =>
                  req'[q].loaded.prefs[k] = req'[r].overrides[k]
  <2>0. PICK po, pp : po = req[p].overrides /\ pp = req[p].loaded.prefs
    OBVIOUS
  <2>1. /\ OnlyMoves(p) /\ req[p].at = "save" /\ HasCopy(req[p])
        /\ po # NoOverrides
        /\ req'[p].at = "done" /\ req'[p].overrides = po
        /\ met' = met
        /\ \/ row' = row /\ req'[p].kept = req[p].kept
           \/ row' = row /\ \A x \in DOMAIN po : pp[x] = po[x]
           \/ \A x \in DOMAIN row.prefs :
                row'.prefs[x] = IF x \in DOMAIN po THEN po[x] ELSE pp[x]
        /\ DOMAIN po \subseteq DOMAIN row.prefs
    BY <1>2, <2>0, OverridesEffect
  <2>2. ~ Overwriter(r, k)
    BY OverwriterStays
  <2>3. ASSUME NEW q \in Requests, q # p, HasCopy(req'[q])
        PROVE  q \in met[p]
    <3>1. req'[q] = req[q]
      BY <2>1, <2>3 DEF OnlyMoves
    <3>2. req[q].at \in Underway
      BY <2>3, <3>1 DEF HasCopy, Underway
    <3> QED
      BY <2>1, <2>3, <3>2 DEF MetPart, Underway
  <2>4. CASE r = p
    <3>1. k \in DOMAIN po /\ req'[r].overrides = po
      BY <2>1, <2>4
    <3>2. req[p].kept = FALSE
      BY <2>1 DEF CopyPart, CopyOf
    <3>3. row.prefs = pp \/ MetWriter(p)
      BY <2>0, <2>1 DEF CopyPart, CopyOf
    <3>4. ~ MetWriter(p)
      <4>1. SUFFICES ASSUME NEW q \in met[p], req[q].overrides # NoOverrides
                     PROVE  FALSE
        BY DEF MetWriter
      <4>2. q \in Requests \ {p}
        BY DEF PlanTypes, MetPart
      <4> QED
        BY <2>2, <2>4, <4>1, <4>2 DEF Overwriter
    <3>5. row'.prefs[k] = po[k]
      BY <2>1, <2>4, <3>1, <3>2, <3>3, <3>4
    <3> QED
      BY <2>1, <2>3, <2>4, <3>1, <3>5
  <2>5. CASE r # p
    <3>1. req'[r] = req[r]
      BY <2>1, <2>5 DEF OnlyMoves
    <3>2. k \notin DOMAIN po /\ p \notin met[r]
      BY <2>0, <2>1, <2>2, <2>5 DEF Overwriter
    <3>3. /\ row.prefs[k] = req[r].overrides[k]
          /\ pp[k] = req[r].overrides[k]
          /\ \A q \in Requests \ ({r} \union met[r]) :
               HasCopy(req[q]) => req[q].loaded.prefs[k]
                                    = req[r].overrides[k]
      BY <2>0, <2>1, <2>2, <2>5, <3>1, <3>2 DEF KeptPart
    <3>4. k \in DOMAIN row.prefs
      <4>1. IsOverride(req[r].overrides) /\ row.prefs \in Preferences
        BY DEF PlanTypes, RequestTypes, IsRow
      <4>2. DOMAIN req[r].overrides \subseteq DOMAIN row.prefs
        BY <4>1 DEF IsOverride
      <4> QED
        BY <3>1, <4>2
    <3>5. row'.prefs[k] = req[r].overrides[k]
      BY <2>1, <3>2, <3>3, <3>4
    <3>6. ~ HasCopy(req'[p])
      BY <2>1 DEF HasCopy, Underway
    <3>7. ASSUME NEW q \in Requests \ ({r} \union met'[r]),
                 HasCopy(req'[q])
          PROVE  req'[q].loaded.prefs[k] = req[r].overrides[k]
      <4>1. q # p
        BY <3>6, <3>7
      <4>2. req'[q] = req[q]
        BY <2>1, <4>1 DEF OnlyMoves
      <4> QED
        BY <2>1, <3>3, <3>7, <4>2
    <3> QED
      BY <3>1, <3>5, <3>7
  <2> QED
    BY <2>4, <2>5
<1> QED
  BY <1>1, <1>2

-----------------------------------------------------------------------------
(* The theorems.                                                           *)

LEMMA InitParts == PlanInit => PlanInv
<1> SUFFICES ASSUME PlanInit
             PROVE  PlanInv
  OBVIOUS
<1>1. PlanTypes
  BY InitTypes
<1>2. /\ met = [r \in Requests |-> {}]
      /\ \A r \in Requests : \/ req[r] = Idle
                             \/ req[r] = [Idle EXCEPT !.at = "done"]
  BY DEF PlanInit
<1>3. ASSUME NEW r \in Requests
      PROVE  /\ req[r].at \in {"idle", "done"} /\ req[r].home = None
             /\ req[r].overrides = NoOverrides /\ req[r].looked = "none"
             /\ req[r].saved = FALSE /\ req[r].kept = FALSE
             /\ req[r].outcome = 0
  <2>1. PICK idle : idle = Idle
    OBVIOUS
  <2>2. req[r] = idle \/ req[r] = [idle EXCEPT !.at = "done"]
    BY <1>2, <2>1
  <2> QED
    BY <2>1, <2>2, IdleFields DEF IsRequest, Fields
<1>4. MetPart
  BY <1>2, <1>3 DEF MetPart, Underway
<1>5. ReportedPart /\ LifePart
  BY <1>3 DEF ReportedPart, LifePart
<1>6. HomePart
  BY <1>3 DEF HomePart, HomeOf
<1>7. CopyPart /\ KeptPart
  BY <1>3 DEF CopyPart, CopyOf, HasCopy, Underway, KeptPart
<1> QED
  BY <1>1, <1>4, <1>5, <1>6, <1>7 DEF PlanInv

LEMMA PlanInvHolds == PlanSpec => []PlanInv
<1>1. PlanInv /\ [PlanNext]_planVars => PlanInv'
  BY TypesStep, MetStep, ReportedStep, LifeStep, HomeStep, CopyStep,
     KeptStep DEF PlanInv
<1> QED
  BY <1>1, InitParts, PTL DEF PlanSpec

(* A plan is for a departure AeroDataBox has reported, or the fallback     *)
(* after a lookup that found nothing or an unexpected exception, never for *)
(* an outage (build_flight_snapshot under strict), for any number of       *)
(* requests, lookups, failures, evictions and restarts.                    *)
THEOREM NothingIsInvented == PlanSpec => []NoInventedDeparture
<1>1. PlanInv => NoInventedDeparture
  BY DEF PlanInv, NoInventedDeparture, Answered, ReportedPart, PlanTypes,
         RequestTypes
<1> QED
  BY <1>1, PlanInvHolds, PTL

(* Only build_flight_snapshot refuses for AeroDataBox.                     *)
LEMMA OthersRefuseNobody ==
  ASSUME PlanTypes, [PlanNext]_planVars, NEW r \in Requests,
         ~ BuildSnapshot(r), req[r].outcome = 0
  PROVE  req'[r].outcome \in {0, 200, 404}
<1>0. PICK old, new : old = req[r] /\ new = req'[r]
  OBVIOUS
<1>1. IsRequest(old) /\ old.outcome = 0
  BY <1>0 DEF PlanTypes, RequestTypes
<1>2. CASE UNCHANGED planVars \/ AdbChanges \/ Evict
  BY <1>2 DEF planVars, AdbChanges, Evict
<1>3. CASE Restart
  <2>1. new = old \/ new = [old EXCEPT !.at = "done"]
    BY <1>0, <1>3, RestartShape
  <2>2. new.outcome = 0
    BY <1>1, <2>1 DEF IsRequest, Fields
  <2> QED
    BY <1>0, <2>2
<1>4. ASSUME NEW p \in Requests, RequestStep(p), p # r
      PROVE  req'[r].outcome \in {0, 200, 404}
  <2>1. PICK from, to : from = req[p] /\ to = req'[p]
    OBVIOUS
  <2>2. OnlyMoves(p)
    BY <1>4, <2>1, AskEffect, StepGoes
  <2> QED
    BY <1>4, <2>2 DEF OnlyMoves
<1>5. ASSUME RequestStep(r)
      PROVE  new.outcome \in {0, 200, 404}
  <2>1. CASE Ask(r)
    BY <1>0, <1>1, <2>1, AskEffect DEF Asks
  <2>2. CASE LoadForHome(r)
    BY <1>0, <1>1, <2>2, LoadForHomeEffect DEF Loads, SkipsHome
  <2>3. CASE CommitHome(r)
    BY <1>0, <1>1, <2>3, CommitHomeEffect DEF SavesHome, SkipsHome
  <2>4. CASE ReadContext(r)
    <3>1. PICK code : code = 404
      OBVIOUS
    <3>2. \/ Concludes(old, new, "done", code)
          \/ \E from : Reads(old, new, from)
      BY <1>0, <2>4, <3>1, ReadContextShape
    <3>3. ASSUME Concludes(old, new, "done", code)
          PROVE  new.outcome = code
      BY <1>1, <3>3, ConcludesFields
    <3>4. ASSUME NEW from, Reads(old, new, from)
          PROVE  new.outcome = old.outcome
      BY <1>1, <3>4, ReadsFields
    <3> QED
      BY <1>1, <3>1, <3>2, <3>3, <3>4
  <2>5. CASE Respond(r)
    BY <1>0, <2>5, RespondEffect DEF Answers
  <2>6. CASE LoadForOverrides(r)
    <3>1. \/ new = [old EXCEPT !.at = "save", !.loaded = row]
          \/ new = [old EXCEPT !.at = "done"]
      BY <1>0, <2>6, LoadForOverridesShape
    <3>2. ASSUME NEW copy, new = [old EXCEPT !.at = "save", !.loaded = copy]
          PROVE  new.outcome = 0
      BY <1>1, <3>2 DEF IsRequest, Fields
    <3>3. ASSUME new = [old EXCEPT !.at = "done"]
          PROVE  new.outcome = 0
      BY <1>1, <3>3 DEF IsRequest, Fields
    <3> QED
      BY <3>1, <3>2, <3>3
  <2>7. CASE CommitOverrides(r)
    <3>1. \/ new = [old EXCEPT !.at = "done", !.kept = TRUE]
          \/ new = [old EXCEPT !.at = "done"]
      BY <1>0, <2>7, CommitOverridesShape
    <3>2. ASSUME new = [old EXCEPT !.at = "done", !.kept = TRUE]
          PROVE  new.outcome = 0
      BY <1>1, <3>2 DEF IsRequest, Fields
    <3>3. ASSUME new = [old EXCEPT !.at = "done"]
          PROVE  new.outcome = 0
      BY <1>1, <3>3 DEF IsRequest, Fields
    <3> QED
      BY <3>1, <3>2, <3>3
  <2> QED
    BY <1>5, <2>1, <2>2, <2>3, <2>4, <2>5, <2>6, <2>7 DEF RequestStep
<1> QED
  BY <1>0, <1>2, <1>3, <1>4, <1>5 DEF PlanNext

(* While the flight someone has planned for stays cached, an outage of     *)
(* AeroDataBox refuses nobody (build_flight_snapshot's _flight_cache), for *)
(* any number of requests, outages, evictions and restarts.                *)
THEOREM OutagesAreOutlasted == PlanSpec => CachedFlightsOutlastOutage
<1>1. ASSUME PlanInv, [PlanNext]_planVars, NEW r \in Requests,
             NEW q \in Requests,
             req[r].outcome = 0, req'[r].outcome \in {429, 503},
             req[q].looked = "ok", req[q].snapshot.source = "adb"
      PROVE  req[q].life # Lives
  <2>1. PlanTypes /\ LifePart
    BY <1>1 DEF PlanInv
  <2>2. BuildSnapshot(r)
    BY <1>1, <2>1, OthersRefuseNobody
  <2>3. PICK answer : answer = FlightsNow
    OBVIOUS
  <2>4. IsError(answer)
    <3>1. PICK old, new : old = req[r] /\ new = req'[r]
      OBVIOUS
    <3>2. IsError(answer) \/ \E s : GetsSnapshot(old, new, Lives, s)
      BY <2>1, <2>2, <2>3, <3>1, BuildSnapshotEffect
    <3> QED
      BY <1>1, <3>1, <3>2 DEF GetsSnapshot
  <2>5. cache = None
    BY <2>3, <2>4 DEF FlightsNow, IsError
  <2> QED
    BY <1>1, <2>1, <2>5 DEF LifePart
<1>2. PlanInv /\ [PlanNext]_planVars =>
        [\A r, q \in Requests :
           /\ req[r].outcome = 0 /\ req'[r].outcome \in {429, 503}
           /\ req[q].looked = "ok" /\ req[q].snapshot.source = "adb"
           => req[q].life # Lives]_planVars
  BY <1>1
<1> QED
  BY <1>2, PlanInvHolds, PTL DEF PlanSpec, CachedFlightsOutlastOutage

(* A plan starts from the address its request has saved, unless another    *)
(* request with an address was met or the row could not be read            *)
(* (post_recommendation_recompute).                                        *)
THEOREM PlansStartFromHome == PlanSpec => []PlanStartsFromTheNewHome
<1>1. PlanInv => PlanStartsFromTheNewHome
  BY DEF PlanInv, PlanStartsFromTheNewHome, Answered, HomePart, HomeOf,
         Rival
<1> QED
  BY <1>1, PlanInvHolds, PTL

(* Saved overrides stay in the row, unless another request overrides the   *)
(* same key or had its copy of the row while they were saved               *)
(* (post_recommendation_recompute).                                        *)
THEOREM OverridesAreKept == PlanSpec => []OverridesSurvive
<1>1. PlanInv => OverridesSurvive
  BY DEF PlanInv, OverridesSurvive, KeptPart, Overwriter
<1> QED
  BY <1>1, PlanInvHolds, PTL

-----------------------------------------------------------------------------
(* The estimates: every duration is a number of minutes.                   *)

LEMMA ScaledUpTypes ==
  ASSUME NEW m \in Nat
  PROVE  /\ ScaledUp(m, 140) \in Nat /\ ScaledUp(m, 140) >= m
         /\ ScaledUp(m, 130) \in Nat /\ ScaledUp(m, 85) \in Nat
  BY DEF ScaledUp

LEMMA WalkTypes ==
  ASSUME NEW m \in Nat, NEW children \in BOOLEAN
  PROVE  Walk(m, children) \in Nat /\ Walk(m, children) >= m
  BY ScaledUpTypes DEF Walk

LEMMA LargerTypes ==
  ASSUME NEW a \in Int, NEW b \in Int
  PROVE  /\ Larger(a, b) \in {a, b} /\ Larger(a, b) >= a
         /\ Larger(a, b) >= b
  BY DEF Larger

LEMMA RoundedTypes ==
  ASSUME NEW num \in Nat, NEW den \in Nat \ {0}
  PROVE  /\ Rounded(num, den) \in Nat
         /\ \/ Rounded(num, den) = num \div den
            \/ Rounded(num, den) = (num \div den) + 1
<1>1. num \div den \in Nat /\ num % den \in Nat
  OBVIOUS
<1> QED
  BY <1>1 DEF Rounded

LEMMA TransportTypes ==
  ASSUME NEW w, WorldTypes(w), NEW prefs \in Preferences
  PROVE  Transport(w.maps, prefs, w.ahead) \in Nat
<1>1. PICK drive : drive = DriveTime(w.maps, prefs.transport_mode, w.ahead)
  OBVIOUS
<1>2. /\ drive.duration \in Nat /\ drive.pessimistic \in Nat
      /\ drive.optimistic \in Nat
  <2>1. CASE w.maps = None
    BY <1>1, <2>1 DEF DriveTime, FALLBACK_DRIVE
  <2>2. CASE w.maps # None
    <3>1. w.maps \in [duration : Nat, pessimistic : MaybeMinutes,
                      optimistic : MaybeMinutes]
      BY <2>2 DEF WorldTypes
    <3>2. PICK traffic : traffic = TrafficVariants(w.maps)
      OBVIOUS
    <3>3. traffic.pessimistic \in Nat /\ traffic.optimistic \in Nat
      BY <3>1, <3>2, ScaledUpTypes DEF TrafficVariants, MaybeMinutes
    <3>4. w.maps.duration \in Nat /\ w.maps.duration + 10 \in Nat
      BY <3>1
    <3> QED
      BY <1>1, <2>2, <3>2, <3>3, <3>4 DEF DriveTime
  <2> QED
    BY <2>1, <2>2
<1>3. PICK minutes :
        minutes = CASE prefs.confidence_profile = "safety" ->
                         drive.pessimistic
                    [] prefs.confidence_profile = "risk" -> drive.optimistic
                    [] OTHER -> drive.duration
  OBVIOUS
<1>4. minutes \in Nat
  <2>1. CASE prefs.confidence_profile = "safety"
    BY <1>2, <1>3, <2>1
  <2>2. CASE prefs.confidence_profile = "risk"
    BY <1>2, <1>3, <2>2
  <2>3. CASE prefs.confidence_profile \notin {"safety", "risk"}
    BY <1>2, <1>3, <2>3
  <2> QED
    BY <2>1, <2>2, <2>3
<1>5. Transport(w.maps, prefs, w.ahead)
        = IF prefs.transport_mode = "rideshare" THEN minutes + 5
          ELSE minutes
  BY <1>1, <1>3 DEF Transport, RIDESHARE_PICKUP_WAIT_MINUTES
<1> QED
  BY <1>4, <1>5

LEMMA GraphTypes ==
  ASSUME NEW w, WorldTypes(w), NEW mode, NEW gate \in BOOLEAN,
         NEW children \in BOOLEAN,
         NEW times, times = WalkingTimes(w.airport.graph, mode, gate,
                                         children)
  PROVE  times # None => /\ times.entry \in Nat /\ times.security \in Nat
                         /\ times.gate \in Nat
<1>1. PICK graph : graph = w.airport.graph
  OBVIOUS
<1>2. CASE graph = None
  BY <1>1, <1>2 DEF WalkingTimes
<1>3. CASE graph # None
  <2>1. PICK std, kind : std = graph.defaults /\ kind = EntryKind(mode)
    OBVIOUS
  <2>2. /\ \A k \in DOMAIN graph.entry : graph.entry[k] \in MaybeMinutes
        /\ graph.security \in MaybeMinutes /\ graph.gate \in MaybeMinutes
        /\ std \in [entry : Nat, security : Nat, gate : Nat]
    BY <1>1, <1>3, <2>1 DEF WorldTypes
  <2>3. ASSUME NEW edge \in MaybeMinutes, NEW default \in Nat
        PROVE  Walk(Known(edge, default), children) \in Nat
    <3>1. Known(edge, default) \in Nat
      BY DEF Known, MaybeMinutes
    <3> QED
      BY <3>1, WalkTypes
  <2>4. CASE kind \notin DOMAIN graph.entry
    <3>1. times = std
      BY <1>1, <1>3, <2>1, <2>4 DEF WalkingTimes
    <3> QED
      BY <2>2, <3>1
  <2>5. CASE kind \in DOMAIN graph.entry
    <3>1. PICK edge \in MaybeMinutes :
            edge = IF gate THEN graph.gate ELSE None
      BY <2>2 DEF MaybeMinutes
    <3>2. times =
            [entry |-> Walk(Known(graph.entry[kind], std.entry), children),
             security |-> Walk(Known(graph.security, std.security),
                               children),
             gate |-> Walk(Known(edge, std.gate), children)]
      BY <1>1, <1>3, <2>1, <2>5, <3>1 DEF WalkingTimes
    <3>3. /\ graph.entry[kind] \in MaybeMinutes /\ std.entry \in Nat
          /\ std.security \in Nat /\ std.gate \in Nat
      BY <2>2, <2>5
    <3> QED
      BY <2>2, <2>3, <3>2, <3>3
  <2> QED
    BY <2>4, <2>5
<1> QED
  BY <1>2, <1>3

LEMMA ParkingTypes ==
  ASSUME NEW timings, NEW children \in BOOLEAN,
         timings \in [curb : Nat, security : Nat, gate : Nat,
                      parking : Nat, transit : Nat]
  PROVE  /\ ParkingMinutes(timings, children) \in Nat
         /\ Walk(timings.parking, children) \in Nat
         /\ Walk(timings.curb, children) \in Nat
  BY WalkTypes DEF ParkingMinutes, Larger

(* The walks of a journey, with its parking.                               *)
LEMMA WalksTypes ==
  ASSUME NEW w, WorldTypes(w), NEW prefs \in Preferences,
         NEW gate \in BOOLEAN
  PROVE  LET walks == Walks(w.airport, prefs, gate)
         IN  /\ walks.parking \in Nat /\ walks.entry \in Nat
             /\ walks.security \in Nat /\ walks.gate \in Nat
<1>1. PICK children, mode, timings, graph, flat :
        /\ children = prefs.traveling_with_children
        /\ mode = prefs.transport_mode
        /\ timings = w.airport.timings
        /\ graph = WalkingTimes(w.airport.graph, mode, gate, children)
        /\ flat = FlatTimes(timings, mode, children)
  OBVIOUS
<1>2. children \in BOOLEAN
  BY <1>1 DEF Preferences
<1>3. timings \in [curb : Nat, security : Nat, gate : Nat,
                   parking : Nat, transit : Nat]
  BY <1>1 DEF WorldTypes
<1>4. flat.entry \in Nat /\ flat.security \in Nat /\ flat.gate \in Nat
  BY <1>1, <1>2, <1>3, WalkTypes DEF FlatTimes
<1>5. graph # None => /\ graph.entry \in Nat /\ graph.security \in Nat
                      /\ graph.gate \in Nat
  BY <1>1, <1>2, GraphTypes
<1>6. PICK parking :
        parking = IF mode = "driving" THEN ParkingMinutes(timings, children)
                  ELSE 0
  OBVIOUS
<1>7. parking \in Nat
  BY <1>2, <1>3, <1>6, ParkingTypes
<1>8. PICK split : split = IF graph = None THEN flat.entry
                           ELSE AfterParking(graph.entry, parking)
  OBVIOUS
<1>9. split \in Nat
  BY <1>4, <1>5, <1>7, <1>8 DEF AfterParking, Larger
<1>10. Walks(w.airport, prefs, gate) =
         [parking |-> parking, entry |-> split,
          security |-> IF graph = None THEN flat.security
                       ELSE graph.security,
          gate |-> IF graph = None THEN flat.gate ELSE graph.gate]
  BY <1>1, <1>6, <1>8 DEF Walks
<1> QED
  BY <1>4, <1>5, <1>7, <1>9, <1>10

LEMMA SecurityTypes ==
  ASSUME NEW w, WorldTypes(w), NEW prefs \in Preferences
  PROVE  Security(w.cell, w.live, prefs) \in Nat
<1>1. PICK cell, live, discount :
        /\ cell = w.cell /\ live = w.live
        /\ discount = Discount(prefs.security_access)
  OBVIOUS
<1>2. /\ cell.p25 \in Nat /\ cell.p50 \in Nat /\ cell.p80 \in Nat
      /\ live \in MaybeMinutes
  BY <1>1 DEF WorldTypes, CellTypes
<1>3. discount \in Nat
  BY <1>1 DEF Discount, Preferences, Accesses
<1>4. PICK b : b = Blended8(cell, live)
  OBVIOUS
<1>5. b \in Nat
  BY <1>2, <1>4 DEF Blended8, MaybeMinutes
<1> DEFINE scaled(p) ==
      IF cell.p50 = 0 THEN Rounded(p * discount, 100)
      ELSE Rounded(p * b * discount, 800 * cell.p50)
<1>6. ASSUME NEW p \in Nat
      PROVE  scaled(p) \in Nat
  <2>1. p * discount \in Nat /\ p * b * discount \in Nat
    BY <1>3, <1>5
  <2>2. CASE cell.p50 = 0
    BY <2>1, <2>2, RoundedTypes
  <2>3. CASE cell.p50 # 0
    <3>1. 800 * cell.p50 \in Nat \ {0}
      BY <1>2, <2>3
    <3> QED
      BY <2>1, <2>3, <3>1, RoundedTypes
  <2> QED
    BY <2>2, <2>3
<1>7. Rounded(b * discount, 800) \in Nat
  <2>1. b * discount \in Nat
    BY <1>3, <1>5
  <2> QED
    BY <2>1, RoundedTypes
<1>8. TsaWait(cell, live, prefs.security_access) =
        [p25 |-> Larger(3, scaled(cell.p25)),
         p50 |-> Rounded(b * discount, 800),
         p80 |-> scaled(cell.p80)]
  BY <1>1, <1>4 DEF TsaWait, TSA_FLOOR
<1>9. scaled(cell.p25) \in Nat /\ scaled(cell.p80) \in Nat
  BY <1>2, <1>6
<1> HIDE DEF scaled
<1>10. PICK wait : wait = TsaWait(cell, live, prefs.security_access)
  OBVIOUS
<1>11. wait.p25 \in Nat /\ wait.p50 \in Nat /\ wait.p80 \in Nat
  BY <1>7, <1>8, <1>9, <1>10 DEF Larger
<1>12. Security(w.cell, w.live, prefs)
         = CASE prefs.confidence_profile = "safety" -> wait.p80
             [] prefs.confidence_profile = "risk" -> wait.p25
             [] OTHER -> wait.p50
  BY <1>1, <1>10 DEF Security
<1>13. CASE prefs.confidence_profile = "safety"
  BY <1>11, <1>12, <1>13
<1>14. CASE prefs.confidence_profile = "risk"
  BY <1>11, <1>12, <1>14
<1>15. CASE prefs.confidence_profile \notin {"safety", "risk"}
  BY <1>11, <1>12, <1>15
<1> QED
  BY <1>13, <1>14, <1>15

Segments == {"transport", "parking", "at_airport", "counter", "tsa",
             "walk_to_gate", "gate_buffer", "comfort_buffer"}

LEMMA StopTypes ==
  ASSUME NEW prefs \in Preferences
  PROVE  /\ CounterMinutes(prefs) \in Nat /\ GateBuffer(prefs) \in Nat
         /\ Straight(prefs) \in BOOLEAN
<1>1. PICK bags, gate :
        bags = prefs.bag_count /\ gate = prefs.gate_time_minutes
  OBVIOUS
<1>2. bags \in 0..10 /\ gate \in (0..180) \union {None}
  BY <1>1 DEF Preferences
<1>3. CounterMinutes(prefs) \in Nat
  <2>1. CASE bags > 0
    BY <1>1, <1>2, <2>1 DEF CounterMinutes
  <2>2. CASE ~ (bags > 0)
    BY <1>1, <1>2, <2>2 DEF CounterMinutes
  <2> QED
    BY <2>1, <2>2
<1>4. GateBuffer(prefs) \in Nat
  <2>1. CASE gate # None
    BY <1>1, <1>2, <2>1 DEF GateBuffer
  <2>2. CASE gate = None
    <3>1. GateBuffer(prefs)
            = CASE prefs.confidence_profile = "safety" -> 30
                [] prefs.confidence_profile = "sweet" -> 15
                [] OTHER -> 0
      BY <1>1, <2>2 DEF GateBuffer
    <3> QED
      BY <3>1
  <2> QED
    BY <2>1, <2>2
<1>5. Straight(prefs) \in BOOLEAN
  BY DEF Straight
<1> QED
  BY <1>3, <1>4, <1>5

(* No segment of a journey lasts less than nothing.                        *)
LEMMA JourneyTypes ==
  ASSUME NEW w, WorldTypes(w), NEW prefs \in Preferences, NEW shot
  PROVE  Journey(w, prefs, shot) \in [Segments -> Nat]
<1>1. PICK walks : walks = Walks(w.airport, prefs, shot.gate # None)
  OBVIOUS
<1>2. /\ walks.parking \in Nat /\ walks.entry \in Nat
      /\ walks.security \in Nat /\ walks.gate \in Nat
  BY <1>1, WalksTypes
<1>3. PICK transport, tsa, counter, buffer, extra :
        /\ transport = Transport(w.maps, prefs, w.ahead)
        /\ tsa = Security(w.cell, w.live, prefs)
        /\ counter = CounterMinutes(prefs) /\ buffer = GateBuffer(prefs)
        /\ extra = prefs.extra_time_minutes
  OBVIOUS
<1>4. transport \in Nat /\ tsa \in Nat /\ counter \in Nat /\ buffer \in Nat
  BY <1>3, TransportTypes, SecurityTypes, StopTypes
<1>5. extra \in Nat
  BY <1>3 DEF Preferences
<1>6. PICK entry, stop :
        /\ entry = walks.entry + (IF Straight(prefs) THEN walks.security
                                  ELSE 0)
        /\ stop = IF Straight(prefs) THEN 0 ELSE counter + walks.security
  OBVIOUS
<1>7. entry \in Nat /\ stop \in Nat
  BY <1>2, <1>4, <1>6
<1>8. Journey(w, prefs, shot) =
        [transport |-> transport, parking |-> walks.parking,
         at_airport |-> entry, counter |-> stop, tsa |-> tsa,
         walk_to_gate |-> walks.gate, gate_buffer |-> buffer,
         comfort_buffer |-> extra]
  BY <1>1, <1>3, <1>6 DEF Journey
<1> QED
  BY <1>2, <1>4, <1>5, <1>7, <1>8 DEF Segments

(* What an answered request was answered with.                             *)
LEMMA AnsweredTypes ==
  ASSUME PlanInv, NEW r \in Answered
  PROVE  /\ WorldTypes(world) /\ req[r].context.prefs \in Preferences
         /\ req[r].snapshot.departure \in Int
         /\ JourneyOf(r) \in [Segments -> Nat]
<1>1. RequestTypes(req[r]) /\ req[r].outcome = 200 /\ WorldTypes(world)
  BY DEF PlanInv, PlanTypes, Answered
<1>2. /\ req[r].context.prefs \in Preferences
      /\ req[r].snapshot.departure \in Int
  BY <1>1 DEF RequestTypes, IsSnapshot
<1> QED
  BY <1>1, <1>2, JourneyTypes DEF JourneyOf

(* A plan can be kept: every segment lasts at least nothing, the marks of  *)
(* the timeline are in order and end when boarding begins less the comfort *)
(* buffer (_build_projected_timeline), whatever the services answered.     *)
THEOREM PlansCanBeKept == PlanSpec => []PlanCanBeKept
<1>1. PlanInv => PlanCanBeKept
  <2>1. SUFFICES ASSUME PlanInv, NEW r \in Answered,
                        NEW j, j = JourneyOf(r), NEW departure,
                        departure = req[r].snapshot.departure,
                        NEW plan, plan = Timeline(departure, j)
                 PROVE  /\ \A segment \in DOMAIN j : j[segment] >= 0
                        /\ plan.leave_home_at <= plan.arrive_airport_at
                        /\ plan.arrive_airport_at <= plan.clear_security_at
                        /\ plan.clear_security_at
                             <= GateArrivalAt(departure, j)
                        /\ GateArrivalAt(departure, j) <= plan.at_gate_at
                        /\ plan.at_gate_at + j.comfort_buffer
                             = departure - BOARDING
    BY DEF PlanCanBeKept
  <2>2. j \in [Segments -> Nat] /\ departure \in Int
    BY <2>1, AnsweredTypes
  <2>3. \A segment \in DOMAIN j : j[segment] >= 0
    BY <2>2
  <2>4. /\ j.transport \in Nat /\ j.parking \in Nat /\ j.at_airport \in Nat
        /\ j.counter \in Nat /\ j.tsa \in Nat /\ j.walk_to_gate \in Nat
        /\ j.gate_buffer \in Nat /\ j.comfort_buffer \in Nat
    BY <2>2 DEF Segments
  <2>5. PICK leave : leave = LeaveHomeAt(departure, j)
    OBVIOUS
  <2>6. leave = departure - 30
                  - (j.transport + j.parking + j.at_airport + j.counter
                     + j.tsa + j.walk_to_gate + j.gate_buffer
                     + j.comfort_buffer)
    BY <2>2, <2>4, <2>5 DEF LeaveHomeAt, ToGate, BOARDING
  <2>7. GateArrivalAt(departure, j)
          = leave + (j.transport + j.parking + j.at_airport + j.counter
                     + j.tsa + j.walk_to_gate)
    BY <2>5 DEF GateArrivalAt, ToGate
  <2>8. plan = [leave_home_at |-> leave,
                arrive_airport_at |-> leave + j.transport + j.parking,
                clear_security_at |-> leave + j.transport + j.parking
                                        + j.at_airport + j.counter + j.tsa,
                at_gate_at |-> leave + j.transport + j.parking
                                 + j.at_airport + j.counter + j.tsa
                                 + j.walk_to_gate + j.gate_buffer]
    BY <2>1, <2>5 DEF Timeline
  <2>9. leave \in Int
    BY <2>2, <2>4, <2>6
  <2>10. /\ plan.leave_home_at <= plan.arrive_airport_at
         /\ plan.arrive_airport_at <= plan.clear_security_at
    BY <2>4, <2>8, <2>9
  <2>11. /\ plan.clear_security_at <= GateArrivalAt(departure, j)
         /\ GateArrivalAt(departure, j) <= plan.at_gate_at
    BY <2>4, <2>7, <2>8, <2>9
  <2>12. plan.at_gate_at + j.comfort_buffer = departure - 30
    BY <2>2, <2>4, <2>6, <2>8, <2>9
  <2> QED
    BY <2>3, <2>10, <2>11, <2>12 DEF BOARDING
<1> QED
  BY <1>1, PlanInvHolds, PTL

(* The accuracy delta of a traveller who was exactly on time and waited    *)
(* from the planned gate arrival to departure is the planned gate buffer:  *)
(* at_gate_at is the end of that buffer (_build_projected_timeline), so    *)
(* _compute_accuracy_delta counts it as time gained.                       *)
PunctualGainsTheBuffer ==
  \A r \in Answered :
    LET departure == req[r].snapshot.departure
        waited == departure - GateArrivalAt(departure, JourneyOf(r))
    IN  AccuracyDelta(waited, Timeline(departure, JourneyOf(r)), departure)
          = GateBuffer(req[r].context.prefs)

(* How far the delta of a punctual traveller is from the promised 0: the   *)
(* planned gate buffer, for every plan (_compute_accuracy_delta).          *)
THEOREM PunctualGains == PlanSpec => []PunctualGainsTheBuffer
<1>1. PlanInv => PunctualGainsTheBuffer
  <2>1. SUFFICES ASSUME PlanInv, NEW r \in Answered,
                        NEW j, j = JourneyOf(r), NEW departure,
                        departure = req[r].snapshot.departure
                 PROVE  AccuracyDelta(departure
                                        - GateArrivalAt(departure, j),
                                      Timeline(departure, j), departure)
                          = GateBuffer(req[r].context.prefs)
    BY DEF PunctualGainsTheBuffer
  <2>2. j \in [Segments -> Nat] /\ departure \in Int
    BY <2>1, AnsweredTypes
  <2>3. /\ j.transport \in Nat /\ j.parking \in Nat /\ j.at_airport \in Nat
        /\ j.counter \in Nat /\ j.tsa \in Nat /\ j.walk_to_gate \in Nat
        /\ j.gate_buffer \in Nat /\ j.comfort_buffer \in Nat
    BY <2>2 DEF Segments
  <2>4. j.gate_buffer = GateBuffer(req[r].context.prefs)
    BY <2>1 DEF JourneyOf, Journey
  <2>5. PICK leave : leave = LeaveHomeAt(departure, j)
    OBVIOUS
  <2>6. leave \in Int
    BY <2>2, <2>3, <2>5 DEF LeaveHomeAt, ToGate, BOARDING
  <2>7. PICK arrival : arrival = GateArrivalAt(departure, j)
    OBVIOUS
  <2>8. arrival = leave + (j.transport + j.parking + j.at_airport
                           + j.counter + j.tsa + j.walk_to_gate)
    BY <2>5, <2>7 DEF GateArrivalAt, ToGate
  <2>9. Timeline(departure, j).at_gate_at
          = leave + j.transport + j.parking + j.at_airport + j.counter
              + j.tsa + j.walk_to_gate + j.gate_buffer
    BY <2>5 DEF Timeline
  <2>10. AccuracyDelta(departure - arrival, Timeline(departure, j),
                       departure)
           = (departure - arrival)
               - (departure - Timeline(departure, j).at_gate_at)
    BY DEF AccuracyDelta
  <2>11. AccuracyDelta(departure - arrival, Timeline(departure, j),
                       departure) = j.gate_buffer
    BY <2>2, <2>3, <2>6, <2>8, <2>9, <2>10
  <2> QED
    BY <2>4, <2>7, <2>11
<1> QED
  BY <1>1, PlanInvHolds, PTL

WalkKept(w, prefs, gate, children) ==
  LET walks == Walks(w.airport, prefs, gate)
      graph == WalkingTimes(w.airport.graph, "driving", gate, children)
      timings == w.airport.timings
  IN  walks.parking + walks.entry =
        IF graph = None
        THEN Larger(Walk(timings.parking, children),
                    Walk(timings.curb, children))
        ELSE Larger(graph.entry, Walk(timings.parking, children)
                                   - Walk(timings.curb, children))

LEMMA SplitWalk ==
  ASSUME NEW w, WorldTypes(w), NEW prefs \in Preferences,
         NEW gate \in BOOLEAN, prefs.transport_mode = "driving",
         NEW children, children = prefs.traveling_with_children
  PROVE  WalkKept(w, prefs, gate, children)
<1>1. PICK walks, graph, timings, far, near :
        /\ walks = Walks(w.airport, prefs, gate)
        /\ graph = WalkingTimes(w.airport.graph, "driving", gate, children)
        /\ timings = w.airport.timings
        /\ far = Walk(timings.parking, children)
        /\ near = Walk(timings.curb, children)
  OBVIOUS
<1>2. children \in BOOLEAN
  BY DEF Preferences
<1>3. timings \in [curb : Nat, security : Nat, gate : Nat,
                   parking : Nat, transit : Nat]
  BY <1>1 DEF WorldTypes
<1>4. far \in Nat /\ near \in Nat
  BY <1>1, <1>2, <1>3, ParkingTypes
<1>5. graph # None => graph.entry \in Nat
  BY <1>1, <1>2, GraphTypes
<1>6. walks.parking = Larger(far - near, 0)
  BY <1>1 DEF Walks, ParkingMinutes
<1>7. CASE graph = None
  <2>1. walks.entry = near
    BY <1>1, <1>7 DEF Walks, FlatTimes
  <2> QED
    BY <1>1, <1>4, <1>6, <1>7, <2>1 DEF Larger, WalkKept
<1>8. CASE graph # None
  <2>1. walks.entry = Larger(graph.entry - walks.parking, 0)
    BY <1>1, <1>8 DEF Walks, AfterParking
  <2> QED
    BY <1>1, <1>4, <1>5, <1>6, <1>8, <2>1 DEF Larger, WalkKept
<1> QED
  BY <1>7, <1>8

(* A driver's walk loses nothing when it is split into parking and         *)
(* terminal (_compute_segments), for any timings and any graph.            *)
THEOREM SplitsKeepTheWalk == PlanSpec => []SplitKeepsTheWalk
<1>1. ASSUME PlanInv, NEW r \in Answered
      PROVE  /\ WorldTypes(world) /\ req[r].context.prefs \in Preferences
             /\ (req[r].snapshot.gate # None) \in BOOLEAN
  BY <1>1, AnsweredTypes
<1>2. ASSUME PlanInv, NEW r \in Answered, NEW gate \in BOOLEAN,
             gate = (req[r].snapshot.gate # None),
             NEW prefs, prefs = req[r].context.prefs,
             prefs.transport_mode = "driving",
             NEW children, children = prefs.traveling_with_children
      PROVE  WalkKept(world, prefs, gate, children)
  <2>1. WorldTypes(world) /\ prefs \in Preferences
    BY <1>1, <1>2
  <2> QED
    BY <1>2, <2>1, SplitWalk
<1>3. PlanInv => SplitKeepsTheWalk
  <2>1. SUFFICES ASSUME PlanInv, NEW r \in Answered,
                        req[r].context.prefs.transport_mode = "driving"
                 PROVE  WalkKept(world, req[r].context.prefs,
                          req[r].snapshot.gate # None,
                          req[r].context.prefs.traveling_with_children)
    BY Zenon DEF SplitKeepsTheWalk, WalkKept
  <2> QED
    BY <1>2, <2>1, Zenon
<1> QED
  BY <1>3, PlanInvHolds, PTL

-----------------------------------------------------------------------------
(* More to do never lets one leave later.  How the numbers grow.           *)

LEMMA ScaledUpGrows ==
  ASSUME NEW m \in Nat
  PROVE  m <= ScaledUp(m, 140) /\ m <= ScaledUp(m, 130) /\ ScaledUp(m, 85) <= m
  BY DEF ScaledUp

LEMMA ScaledUpSteeper ==
  ASSUME NEW m \in Nat, NEW n \in Nat, n <= m
  PROVE  m - n <= ScaledUp(m, 140) - ScaledUp(n, 140)
  BY DEF ScaledUp

LEMMA Division ==
  ASSUME NEW n \in Nat, NEW d \in Nat \ {0}
  PROVE  /\ n \div d \in Nat /\ n % d \in 0..(d - 1)
         /\ n = d * (n \div d) + (n % d)
  BY SMT

LEMMA RoundedIsNearest ==
  ASSUME NEW n \in Nat, NEW d \in Nat \ {0}, NEW w, w = Rounded(n, d)
  PROVE  /\ w \in Nat
         /\ d * (2 * w - 1) <= 2 * n /\ 2 * n <= d * (2 * w + 1)
         /\ d * (2 * w - 1) = 2 * n \/ 2 * n = d * (2 * w + 1) => w % 2 = 0
<1>1. PICK q \in Nat, r \in 0..(d - 1) :
        n = d * q + r /\ q = n \div d /\ r = n % d
  BY Division
<1>2. w = IF 2 * r > d \/ (2 * r = d /\ q % 2 = 1) THEN q + 1 ELSE q
  BY <1>1 DEF Rounded
<1>3. PICK p \in Nat : p = d * q
  OBVIOUS
<1>4. /\ d * (2 * q - 1) = 2 * p - d /\ d * (2 * q + 1) = 2 * p + d
      /\ d * (2 * (q + 1) - 1) = 2 * p + d
      /\ d * (2 * (q + 1) + 1) = 2 * p + 3 * d
  BY <1>3, SMT
<1>5. q % 2 = 1 => (q + 1) % 2 = 0
  OBVIOUS
<1>6. q % 2 # 1 => q % 2 = 0
  OBVIOUS
<1>7. n = p + r
  BY <1>1, <1>3
<1>8. CASE 2 * r > d \/ (2 * r = d /\ q % 2 = 1)
  <2>1. w = q + 1
    BY <1>2, <1>8
  <2> QED
    BY <2>1, <1>3, <1>4, <1>5, <1>7, <1>8
<1>9. CASE ~(2 * r > d \/ (2 * r = d /\ q % 2 = 1))
  <2>1. w = q
    BY <1>2, <1>9
  <2> QED
    BY <2>1, <1>3, <1>4, <1>6, <1>7, <1>9
<1> QED
  BY <1>8, <1>9

LEMMA RoundedGrows ==
  ASSUME NEW m \in Nat, NEW c \in Nat \ {0},
         NEW n \in Nat, NEW d \in Nat \ {0},
         m * d <= n * c
  PROVE  Rounded(m, c) <= Rounded(n, d)
<1>1. PICK v, w : v = Rounded(m, c) /\ w = Rounded(n, d)
  OBVIOUS
<1>2. /\ v \in Nat /\ c * (2 * v - 1) <= 2 * m
      /\ c * (2 * v - 1) = 2 * m => v % 2 = 0
  BY <1>1, RoundedIsNearest
<1>3. /\ w \in Nat /\ 2 * n <= d * (2 * w + 1)
      /\ 2 * n = d * (2 * w + 1) => w % 2 = 0
  BY <1>1, RoundedIsNearest
<1>4. SUFFICES ASSUME v > w PROVE FALSE
  BY <1>1, <1>2, <1>3
<1>5. PICK a \in Int, b \in Int : a = c * (2 * v - 1) /\ b = d * (2 * w + 1)
  BY <1>2, <1>3
<1>6. a * d <= (2 * m) * d
  BY <1>2, <1>5
<1>7. (2 * n) * c <= b * c
  BY <1>3, <1>5
<1>8. (2 * m) * d <= (2 * n) * c
  BY SMT
<1>9. a * d <= b * c
  BY <1>2, <1>3, <1>5, <1>6, <1>7, <1>8
<1>10. a * d = (c * d) * (2 * v - 1) /\ b * c = (c * d) * (2 * w + 1)
  BY <1>2, <1>3, <1>5, SMT
<1>11. c * d \in Nat \ {0}
  BY SMT
<1>12. 2 * v - 1 <= 2 * w + 1
  BY <1>2, <1>3, <1>9, <1>10, <1>11, SMT
<1>13. v = w + 1
  BY <1>2, <1>3, <1>4, <1>12
<1>14. a * d = (2 * m) * d /\ (2 * n) * c = b * c
  BY <1>2, <1>3, <1>5, <1>6, <1>7, <1>8, <1>10, <1>13
<1>15. a = 2 * m /\ b = 2 * n
  BY <1>2, <1>3, <1>5, <1>14, SMT
<1> QED
  BY <1>2, <1>3, <1>5, <1>13, <1>15

(* Google's traffic variants on their side of the plain duration.          *)
TrafficInOrder(w) ==
  w.maps # None =>
    /\ w.maps.pessimistic # None => w.maps.duration <= w.maps.pessimistic
    /\ w.maps.optimistic # None => w.maps.optimistic <= w.maps.duration

(* The profile after profile in Heavier.                                   *)
Safer(profile) == IF profile = "risk" THEN "sweet" ELSE "safety"

LEMMA DriveInOrder ==
  ASSUME NEW w, WorldTypes(w), TrafficInOrder(w), NEW mode,
         NEW drive, drive = DriveTime(w.maps, mode, w.ahead)
  PROVE  /\ drive.duration \in Nat /\ drive.pessimistic \in Nat
         /\ drive.optimistic \in Nat
         /\ drive.optimistic <= drive.duration
         /\ drive.duration <= drive.pessimistic
<1>1. CASE w.maps = None
  BY <1>1 DEF DriveTime, FALLBACK_DRIVE
<1>2. CASE w.maps # None
  <2>1. PICK plain, traffic :
          plain = w.maps.duration /\ traffic = TrafficVariants(w.maps)
    OBVIOUS
  <2>2. /\ plain \in Nat /\ w.maps.pessimistic \in MaybeMinutes
        /\ w.maps.optimistic \in MaybeMinutes
    BY <1>2, <2>1 DEF WorldTypes
  <2>3. traffic.pessimistic \in Nat /\ plain <= traffic.pessimistic
    BY <1>2, <2>1, <2>2, ScaledUpGrows, ScaledUpTypes
    DEF TrafficVariants, TrafficInOrder, MaybeMinutes
  <2>4. traffic.optimistic \in Nat /\ traffic.optimistic <= plain
    BY <1>2, <2>1, <2>2, ScaledUpGrows, ScaledUpTypes
    DEF TrafficVariants, TrafficInOrder, MaybeMinutes
  <2>5. drive =
          [duration |-> plain,
           pessimistic |-> IF ~ w.ahead THEN plain
                           ELSE IF mode \notin {"train", "bus"}
                           THEN traffic.pessimistic ELSE plain + 10,
           optimistic |-> IF w.ahead /\ mode \notin {"train", "bus"}
                          THEN traffic.optimistic ELSE plain]
    BY <1>2, <2>1 DEF DriveTime
  <2> QED
    BY <2>2, <2>3, <2>4, <2>5
<1> QED
  BY <1>1, <1>2

(* The drive a safer profile plans with is no shorter.                     *)
LEMMA TransportGrows ==
  ASSUME NEW w, WorldTypes(w), TrafficInOrder(w),
         NEW p \in Preferences, NEW q \in Preferences,
         q.transport_mode = p.transport_mode,
         q.confidence_profile
           \in {p.confidence_profile, Safer(p.confidence_profile)}
  PROVE  Transport(w.maps, p, w.ahead) <= Transport(w.maps, q, w.ahead)
<1>1. PICK drive : drive = DriveTime(w.maps, p.transport_mode, w.ahead)
  OBVIOUS
<1>2. /\ drive.duration \in Nat /\ drive.pessimistic \in Nat
      /\ drive.optimistic \in Nat
      /\ drive.optimistic <= drive.duration
      /\ drive.duration <= drive.pessimistic
  BY <1>1, DriveInOrder
<1> DEFINE minutes(profile) ==
      CASE profile = "safety" -> drive.pessimistic
        [] profile = "risk" -> drive.optimistic
        [] OTHER -> drive.duration
<1>3. /\ minutes("safety") = drive.pessimistic
      /\ minutes("risk") = drive.optimistic
      /\ minutes("sweet") = drive.duration
  OBVIOUS
<1>4. /\ Transport(w.maps, p, w.ahead) =
           IF p.transport_mode = "rideshare"
           THEN minutes(p.confidence_profile) + 5
           ELSE minutes(p.confidence_profile)
      /\ Transport(w.maps, q, w.ahead) =
           IF p.transport_mode = "rideshare"
           THEN minutes(q.confidence_profile) + 5
           ELSE minutes(q.confidence_profile)
  BY <1>1 DEF Transport, RIDESHARE_PICKUP_WAIT_MINUTES
<1> HIDE DEF minutes
<1>5. p.confidence_profile \in {"safety", "sweet", "risk"}
  BY DEF Preferences, Profiles
<1>6. minutes(p.confidence_profile) <= minutes(q.confidence_profile)
      /\ minutes(p.confidence_profile) \in Nat
      /\ minutes(q.confidence_profile) \in Nat
  BY <1>2, <1>3, <1>5 DEF Safer
<1> QED
  BY <1>4, <1>6

LEMMA WalkGrows ==
  ASSUME NEW m \in Nat, NEW n \in Nat, NEW c \in BOOLEAN, NEW d \in BOOLEAN,
         c => d
  PROVE  /\ Walk(m, c) \in Nat /\ Walk(m, c) <= Walk(m, d)
         /\ n <= m => /\ Walk(n, c) <= Walk(m, c)
                      /\ Walk(m, c) - Walk(n, c) <= Walk(m, d) - Walk(n, d)
<1>1. Walk(m, c) \in Nat /\ Walk(m, c) <= Walk(m, d)
  BY WalkTypes, ScaledUpTypes DEF Walk
<1>2. ASSUME n <= m
      PROVE  m - n <= ScaledUp(m, 140) - ScaledUp(n, 140)
             /\ ScaledUp(m, 140) \in Nat /\ ScaledUp(n, 140) \in Nat
  BY <1>2, ScaledUpSteeper, ScaledUpTypes
<1> QED
  BY <1>1, <1>2 DEF Walk

(* No walk of the graph takes less time in more than in times.             *)
NoShorter(times, more) ==
  /\ times.entry <= more.entry /\ times.security <= more.security
  /\ times.gate <= more.gate

(* The walks through a graph.                                              *)
LEMMA GraphGrows ==
  ASSUME NEW w, WorldTypes(w), w.airport.graph # None, NEW mode,
         NEW gate \in BOOLEAN, NEW c \in BOOLEAN, NEW d \in BOOLEAN, c => d
  PROVE  NoShorter(WalkingTimes(w.airport.graph, mode, gate, c),
                   WalkingTimes(w.airport.graph, mode, gate, d))
<1>1. PICK graph, std, kind, times, more :
        /\ graph = w.airport.graph /\ std = graph.defaults
        /\ kind = EntryKind(mode)
        /\ times = WalkingTimes(graph, mode, gate, c)
        /\ more = WalkingTimes(graph, mode, gate, d)
  OBVIOUS
<1>2. /\ \A k \in DOMAIN graph.entry : graph.entry[k] \in MaybeMinutes
      /\ graph.security \in MaybeMinutes /\ graph.gate \in MaybeMinutes
      /\ std \in [entry : Nat, security : Nat, gate : Nat]
  BY <1>1 DEF WorldTypes
<1>3. std.entry \in Nat /\ std.security \in Nat /\ std.gate \in Nat
  BY <1>2
<1>4. ASSUME kind \notin DOMAIN graph.entry
      PROVE  NoShorter(times, more)
  <2>1. times = std /\ more = std
    BY <1>1, <1>4 DEF WalkingTimes
  <2> QED
    BY <1>3, <2>1 DEF NoShorter
<1>5. ASSUME kind \in DOMAIN graph.entry
      PROVE  NoShorter(times, more)
  <2>1. PICK entry, security, toGate :
          /\ entry = Known(graph.entry[kind], std.entry)
          /\ security = Known(graph.security, std.security)
          /\ toGate = Known(IF gate THEN graph.gate ELSE None, std.gate)
    OBVIOUS
  <2>2. entry \in Nat /\ security \in Nat /\ toGate \in Nat
    <3>1. /\ graph.entry[kind] \in MaybeMinutes
          /\ (IF gate THEN graph.gate ELSE None) \in MaybeMinutes
      BY <1>2, <1>5 DEF MaybeMinutes
    <3> QED
      BY <1>2, <1>3, <2>1, <3>1 DEF Known, MaybeMinutes
  <2>3. /\ times = [entry |-> Walk(entry, c), security |-> Walk(security, c),
                    gate |-> Walk(toGate, c)]
        /\ more = [entry |-> Walk(entry, d), security |-> Walk(security, d),
                   gate |-> Walk(toGate, d)]
    BY <1>1, <1>5, <2>1 DEF WalkingTimes
  <2>4. /\ Walk(entry, c) <= Walk(entry, d)
        /\ Walk(security, c) <= Walk(security, d)
        /\ Walk(toGate, c) <= Walk(toGate, d)
    BY <2>2, WalkGrows
  <2> QED
    BY <2>3, <2>4 DEF NoShorter
<1>6. NoShorter(times, more)
  BY <1>4, <1>5
<1> QED
  BY <1>1, <1>6, Zenon

(* All the walking of a traveller, with the parking.                       *)
Walked(walks) == walks.parking + walks.entry + walks.security + walks.gate

(* Children make none of the ways shorter, in their sum.                   *)
LEMMA WalkedGrows ==
  ASSUME NEW w, WorldTypes(w), NEW gate \in BOOLEAN,
         NEW p \in Preferences, NEW q \in Preferences,
         q.transport_mode = p.transport_mode,
         p.traveling_with_children => q.traveling_with_children
  PROVE  Walked(Walks(w.airport, p, gate)) <= Walked(Walks(w.airport, q, gate))
<1>1. PICK c, d, mode, timings, walks, more, times, longer :
        /\ c = p.traveling_with_children /\ d = q.traveling_with_children
        /\ mode = p.transport_mode /\ timings = w.airport.timings
        /\ walks = Walks(w.airport, p, gate)
        /\ more = Walks(w.airport, q, gate)
        /\ times = WalkingTimes(w.airport.graph, mode, gate, c)
        /\ longer = WalkingTimes(w.airport.graph, mode, gate, d)
  OBVIOUS
<1>2. c \in BOOLEAN /\ d \in BOOLEAN /\ (c => d) /\ mode \in Modes
  BY <1>1 DEF Preferences
<1>3. /\ timings.curb \in Nat /\ timings.security \in Nat
      /\ timings.gate \in Nat /\ timings.parking \in Nat
      /\ timings.transit \in Nat
  BY <1>1 DEF WorldTypes
<1>4. /\ walks.parking \in Nat /\ walks.entry \in Nat
      /\ walks.security \in Nat /\ walks.gate \in Nat
      /\ more.parking \in Nat /\ more.entry \in Nat
      /\ more.security \in Nat /\ more.gate \in Nat
  BY <1>1, WalksTypes
<1>5. PICK far, near, farther, nearer :
        /\ far = Walk(timings.parking, c) /\ near = Walk(timings.curb, c)
        /\ farther = Walk(timings.parking, d)
        /\ nearer = Walk(timings.curb, d)
  OBVIOUS
<1>6. /\ far \in Nat /\ near \in Nat /\ farther \in Nat /\ nearer \in Nat
      /\ far <= farther /\ near <= nearer
      /\ timings.curb <= timings.parking => far - near <= farther - nearer
      /\ timings.parking <= timings.curb => far <= near
  BY <1>2, <1>3, <1>5, WalkGrows
<1>7. CASE w.airport.graph = None
  <2>1. times = None /\ longer = None
    BY <1>1, <1>7 DEF WalkingTimes
  <2>2. /\ walks.security = Walk(timings.security, c)
        /\ walks.gate = Walk(timings.gate, c)
        /\ more.security = Walk(timings.security, d)
        /\ more.gate = Walk(timings.gate, d)
    BY <1>1, <2>1 DEF Walks, FlatTimes
  <2>3. walks.security <= more.security /\ walks.gate <= more.gate
    BY <1>2, <1>3, <2>2, WalkGrows
  <2>4. walks.parking + walks.entry <= more.parking + more.entry
    <3>1. CASE mode = "driving"
      <4>1. /\ walks.parking + walks.entry = Larger(far, near)
            /\ more.parking + more.entry = Larger(farther, nearer)
        <5>1. p.transport_mode = "driving" /\ q.transport_mode = "driving"
          BY <1>1, <3>1
        <5>2. WalkKept(w, p, gate, c) /\ WalkKept(w, q, gate, d)
          BY <1>1, <5>1, SplitWalk, Zenon
        <5> QED
          BY <1>1, <1>5, <2>1, <3>1, <5>2, Zenon DEF WalkKept
      <4> QED
        BY <1>6, <4>1 DEF Larger
    <3>2. CASE mode # "driving"
      <4>1. PICK way \in Nat :
              way = IF mode \in {"train", "bus"} THEN timings.transit
                    ELSE timings.curb
        BY <1>3
      <4>2. /\ walks.parking = 0 /\ walks.entry = Walk(way, c)
            /\ more.parking = 0 /\ more.entry = Walk(way, d)
        BY <1>1, <2>1, <3>2, <4>1 DEF Walks, FlatTimes
      <4> QED
        BY <1>2, <1>4, <4>2, WalkGrows
    <3> QED
      BY <3>1, <3>2
  <2> QED
    BY <1>1, <1>4, <2>3, <2>4 DEF Walked
<1>8. CASE w.airport.graph # None
  <2>1. times # None /\ longer # None
    BY <1>1, <1>2, <1>8 DEF WorldTypes
  <2>2. /\ times.entry <= longer.entry /\ times.security <= longer.security
        /\ times.gate <= longer.gate
    <3>1. /\ times = WalkingTimes(w.airport.graph, mode, gate, c)
          /\ longer = WalkingTimes(w.airport.graph, mode, gate, d)
      BY <1>1
    <3>2. gate \in BOOLEAN /\ c \in BOOLEAN /\ d \in BOOLEAN /\ (c => d)
      BY <1>2
    <3>3. NoShorter(WalkingTimes(w.airport.graph, mode, gate, c),
                    WalkingTimes(w.airport.graph, mode, gate, d))
      BY <1>8, <3>2, GraphGrows, Zenon
    <3> QED
      BY <3>1, <3>3 DEF NoShorter
  <2>3. times.entry \in Nat /\ longer.entry \in Nat
    BY <1>1, <1>2, <2>1, GraphTypes
  <2>4. /\ walks.security = times.security /\ walks.gate = times.gate
        /\ more.security = longer.security /\ more.gate = longer.gate
    BY <1>1, <2>1 DEF Walks
  <2>5. walks.parking + walks.entry <= more.parking + more.entry
    <3>1. CASE mode = "driving"
      <4>1. /\ walks.parking + walks.entry = Larger(times.entry, far - near)
            /\ more.parking + more.entry
                 = Larger(longer.entry, farther - nearer)
        <5>1. p.transport_mode = "driving" /\ q.transport_mode = "driving"
          BY <1>1, <3>1
        <5>2. WalkKept(w, p, gate, c) /\ WalkKept(w, q, gate, d)
          BY <1>1, <5>1, SplitWalk, Zenon
        <5> QED
          BY <1>1, <1>5, <2>1, <3>1, <5>2, Zenon DEF WalkKept
      <4> QED
        BY <1>3, <1>6, <2>2, <2>3, <4>1 DEF Larger
    <3>2. CASE mode # "driving"
      <4>1. /\ walks.parking = 0 /\ walks.entry = times.entry
            /\ more.parking = 0 /\ more.entry = longer.entry
        BY <1>1, <2>1, <2>3, <3>2 DEF Walks, AfterParking, Larger
      <4> QED
        BY <1>4, <2>2, <4>1
    <3> QED
      BY <3>1, <3>2
  <2> QED
    BY <1>1, <1>4, <2>2, <2>4, <2>5 DEF Walked
<1> QED
  BY <1>7, <1>8

(* The stop on the way to security: none for those who go straight.        *)
Stop(prefs) == IF Straight(prefs) THEN 0 ELSE CounterMinutes(prefs)

(* A bag more, or no boarding pass, makes the stop no shorter.             *)
LEMMA StopGrows ==
  ASSUME NEW p \in Preferences, NEW q \in Preferences,
         \/ q.bag_count = p.bag_count
         \/ q.bag_count = p.bag_count + 1,
         q.has_boarding_pass => p.has_boarding_pass
  PROVE  Stop(p) \in Nat /\ Stop(p) <= Stop(q)
<1>1. PICK bags \in 0..10, more \in 0..10 :
        bags = p.bag_count /\ more = q.bag_count
  BY DEF Preferences
<1>2. PICK pass \in BOOLEAN, still \in BOOLEAN :
        /\ pass = p.has_boarding_pass /\ still = q.has_boarding_pass
        /\ still => pass
  BY DEF Preferences
<1> DEFINE stop(b, has) ==
      IF b = 0 /\ has THEN 0
      ELSE IF b > 0 THEN (IF has THEN 5 ELSE 8) + (b - 1) * 3
      ELSE IF has THEN 0 ELSE 5
<1>3. Stop(p) = stop(bags, pass) /\ Stop(q) = stop(more, still)
  BY <1>1, <1>2 DEF Stop, Straight, CounterMinutes
<1>4. more = bags \/ more = bags + 1
  BY <1>1
<1>5. stop(bags, pass) \in Nat /\ stop(bags, pass) <= stop(more, still)
  BY <1>2, <1>4
<1> QED
  BY <1>3, <1>5

(* The wait at security before it is rounded: what is the same for every   *)
(* percentile of the cell.                                                 *)
Load(w, access) == Blended8(w.cell, w.live) * Discount(access)

LEMMA Waits ==
  ASSUME NEW w, WorldTypes(w), NEW access \in Accesses,
         NEW wait, wait = TsaWait(w.cell, w.live, access)
  PROVE  /\ Load(w, access) \in Nat
         /\ w.cell.p25 * Load(w, access) \in Nat
         /\ w.cell.p80 * Load(w, access) \in Nat
         /\ 800 * w.cell.p50 \in Nat \ {0}
         /\ wait.p25 = Larger(3, Rounded(w.cell.p25 * Load(w, access),
                                         800 * w.cell.p50))
         /\ wait.p50 = Rounded(Load(w, access), 800)
         /\ wait.p80 = Rounded(w.cell.p80 * Load(w, access),
                               800 * w.cell.p50)
<1>1. PICK p25 \in Nat, p50 \in Nat \ {0}, p80 \in Nat :
        p25 = w.cell.p25 /\ p50 = w.cell.p50 /\ p80 = w.cell.p80
  BY DEF WorldTypes, CellTypes
<1>2. PICK blend \in Nat : blend = Blended8(w.cell, w.live)
  BY DEF WorldTypes, CellTypes, Blended8, MaybeMinutes
<1>3. PICK discount \in Nat : discount = Discount(access)
  BY DEF Discount, Accesses
<1>4. PICK load \in Nat : load = Load(w, access) /\ load = blend * discount
  BY <1>2, <1>3 DEF Load
<1>5. p25 * blend * discount = p25 * load
      /\ p80 * blend * discount = p80 * load
  BY <1>4
<1>6. wait = [p25 |-> Larger(3, Rounded(p25 * blend * discount, 800 * p50)),
              p50 |-> Rounded(blend * discount, 800),
              p80 |-> Rounded(p80 * blend * discount, 800 * p50)]
  BY <1>1, <1>2, <1>3 DEF TsaWait, TSA_FLOOR
<1>7. p25 * load \in Nat /\ p80 * load \in Nat /\ 800 * p50 \in Nat \ {0}
  OBVIOUS
<1> QED
  BY <1>1, <1>4, <1>5, <1>6, <1>7

(* Without a fast lane every percentile is at least as long.               *)
LEMMA FullLoad ==
  ASSUME NEW w, WorldTypes(w), NEW access \in Accesses
  PROVE  Load(w, access) <= Load(w, "none")
<1>1. PICK blend \in Nat : blend = Blended8(w.cell, w.live)
  BY DEF WorldTypes, CellTypes, Blended8, MaybeMinutes
<1>2. PICK discount \in 0..100 : discount = Discount(access)
  BY DEF Discount, Accesses
<1>3. Discount("none") = 100
  BY DEF Discount
<1>4. blend * discount <= blend * 100
  OBVIOUS
<1> QED
  BY <1>1, <1>2, <1>3, <1>4 DEF Load

(* The same percentile, with a fast lane and without.                      *)
LEMMA WaitsGrow ==
  ASSUME NEW w, WorldTypes(w), NEW access \in Accesses,
         NEW wait, wait = TsaWait(w.cell, w.live, access),
         NEW more, more = TsaWait(w.cell, w.live, "none")
  PROVE  /\ wait.p25 <= more.p25 /\ wait.p50 <= more.p50
         /\ wait.p80 <= more.p80
<1>1. PICK p25 \in Nat, p80 \in Nat, den \in Nat \ {0} :
        p25 = w.cell.p25 /\ p80 = w.cell.p80 /\ den = 800 * w.cell.p50
  BY DEF WorldTypes, CellTypes
<1>2. PICK a, b : a = Load(w, access) /\ b = Load(w, "none")
  OBVIOUS
<1>3. "none" \in Accesses
  BY DEF Accesses
<1>4. a \in Nat /\ b \in Nat
  BY <1>2, <1>3, Waits
<1>5. a <= b
  BY <1>2, FullLoad
<1>6. /\ wait.p25 = Larger(3, Rounded(p25 * a, den))
      /\ wait.p50 = Rounded(a, 800) /\ wait.p80 = Rounded(p80 * a, den)
  BY <1>1, <1>2, Waits
<1>7. /\ more.p25 = Larger(3, Rounded(p25 * b, den))
      /\ more.p50 = Rounded(b, 800) /\ more.p80 = Rounded(p80 * b, den)
  BY <1>1, <1>2, <1>3, Waits
<1>8. ASSUME NEW k \in Nat, NEW d \in Nat \ {0}
      PROVE  /\ Rounded(k * a, d) \in Nat /\ Rounded(k * b, d) \in Nat
             /\ Rounded(k * a, d) <= Rounded(k * b, d)
  <2>1. k * a \in Nat /\ k * b \in Nat
    BY <1>4
  <2>2. k * a <= k * b
    BY <1>4, <1>5
  <2>3. (k * a) * d <= (k * b) * d
    BY <2>1, <2>2
  <2> QED
    BY <2>1, <2>3, RoundedGrows, RoundedTypes
<1>9. Rounded(a, 800) <= Rounded(b, 800)
  BY <1>4, <1>5, RoundedGrows
<1>10. /\ Rounded(p25 * a, den) \in Nat /\ Rounded(p25 * b, den) \in Nat
       /\ Rounded(p25 * a, den) <= Rounded(p25 * b, den)
       /\ Rounded(p80 * a, den) <= Rounded(p80 * b, den)
  BY <1>8
<1> QED
  BY <1>6, <1>7, <1>9, <1>10 DEF Larger

(* The percentiles in order, up to the floor under the first.              *)
LEMMA WaitsInOrder ==
  ASSUME NEW w, WorldTypes(w), NEW access \in Accesses,
         NEW wait, wait = TsaWait(w.cell, w.live, access)
  PROVE  /\ wait.p25 \in Nat /\ wait.p50 \in Nat /\ wait.p80 \in Nat
         /\ wait.p25 <= wait.p50 + 3 /\ wait.p50 <= wait.p80
<1>1. PICK p25 \in Nat, p50 \in Nat \ {0}, p80 \in Nat :
        /\ p25 = w.cell.p25 /\ p50 = w.cell.p50 /\ p80 = w.cell.p80
        /\ p25 <= p50 /\ p50 <= p80
  BY DEF WorldTypes, CellTypes
<1>2. PICK load \in Nat : load = Load(w, access)
  BY Waits
<1>3. PICK low, mid, high : /\ low = Rounded(p25 * load, 800 * p50)
                            /\ mid = Rounded(load, 800)
                            /\ high = Rounded(p80 * load, 800 * p50)
  OBVIOUS
<1>4. p25 * load \in Nat /\ p80 * load \in Nat /\ 800 * p50 \in Nat \ {0}
  OBVIOUS
<1>5. low \in Nat /\ mid \in Nat /\ high \in Nat
  BY <1>3, <1>4, RoundedTypes
<1>6. p25 * load <= p50 * load /\ p50 * load <= p80 * load
  BY <1>1
<1>7. /\ (p25 * load) * 800 <= load * (800 * p50)
      /\ load * (800 * p50) <= (p80 * load) * 800
  <2>1. load * (800 * p50) = (p50 * load) * 800
    OBVIOUS
  <2>2. p50 * load \in Nat
    OBVIOUS
  <2> QED
    BY <1>4, <1>6, <2>1, <2>2
<1>8. low <= mid
  BY <1>3, <1>4, <1>7, RoundedGrows
<1>9. mid <= high
  BY <1>3, <1>4, <1>7, RoundedGrows
<1>10. wait.p25 = Larger(3, low) /\ wait.p50 = mid /\ wait.p80 = high
  BY <1>1, <1>2, <1>3, Waits
<1> QED
  BY <1>5, <1>8, <1>9, <1>10 DEF Larger

(* The wait that a profile plans with, and the buffer at its gate.         *)
LEMMA SecurityOf ==
  ASSUME NEW w, NEW prefs,
         NEW wait, wait = TsaWait(w.cell, w.live, prefs.security_access)
  PROVE  /\ prefs.confidence_profile = "safety" =>
              Security(w.cell, w.live, prefs) = wait.p80
         /\ prefs.confidence_profile = "risk" =>
              Security(w.cell, w.live, prefs) = wait.p25
         /\ prefs.confidence_profile = "sweet" =>
              Security(w.cell, w.live, prefs) = wait.p50
  BY DEF Security

LEMMA SecurityGrows ==
  ASSUME NEW w, WorldTypes(w), NEW p \in Preferences, NEW q \in Preferences,
         q.confidence_profile = p.confidence_profile,
         q.security_access \in {p.security_access, "none"}
  PROVE  Security(w.cell, w.live, p) <= Security(w.cell, w.live, q)
<1>1. /\ p.security_access \in Accesses
      /\ p.confidence_profile \in {"safety", "sweet", "risk"}
  BY DEF Preferences, Profiles
<1>2. CASE q.security_access = p.security_access
  <2>1. Security(w.cell, w.live, q) = Security(w.cell, w.live, p)
    BY <1>2 DEF Security
  <2>2. Security(w.cell, w.live, p) \in Nat
    BY SecurityTypes
  <2> QED
    BY <2>1, <2>2
<1>3. CASE q.security_access = "none"
  <2>1. PICK wait, more : /\ wait = TsaWait(w.cell, w.live, p.security_access)
                          /\ more = TsaWait(w.cell, w.live, "none")
    OBVIOUS
  <2>2. /\ wait.p25 <= more.p25 /\ wait.p50 <= more.p50
        /\ wait.p80 <= more.p80
    BY <1>1, <2>1, WaitsGrow
  <2> QED
    <3>1. /\ p.confidence_profile = "safety" =>
               Security(w.cell, w.live, p) = wait.p80
          /\ p.confidence_profile = "risk" =>
               Security(w.cell, w.live, p) = wait.p25
          /\ p.confidence_profile = "sweet" =>
               Security(w.cell, w.live, p) = wait.p50
      BY <2>1, SecurityOf
    <3>2. /\ p.confidence_profile = "safety" =>
               Security(w.cell, w.live, q) = more.p80
          /\ p.confidence_profile = "risk" =>
               Security(w.cell, w.live, q) = more.p25
          /\ p.confidence_profile = "sweet" =>
               Security(w.cell, w.live, q) = more.p50
      <4>1. more = TsaWait(w.cell, w.live, q.security_access)
        BY <1>3, <2>1
      <4> QED
        BY <4>1, SecurityOf
    <3> QED
      BY <1>1, <2>2, <3>1, <3>2
<1> QED
  BY <1>2, <1>3

LEMMA SaferGrows ==
  ASSUME NEW w, WorldTypes(w), NEW p \in Preferences, NEW q \in Preferences,
         q.security_access = p.security_access,
         q.confidence_profile = Safer(p.confidence_profile),
         p.gate_time_minutes = None, q.gate_time_minutes = None
  PROVE  Security(w.cell, w.live, p) + GateBuffer(p)
           <= Security(w.cell, w.live, q) + GateBuffer(q)
<1>1. /\ p.security_access \in Accesses
      /\ p.confidence_profile \in {"safety", "sweet", "risk"}
  BY DEF Preferences, Profiles
<1>2. PICK wait : wait = TsaWait(w.cell, w.live, p.security_access)
  OBVIOUS
<1>3. /\ wait.p25 \in Nat /\ wait.p50 \in Nat /\ wait.p80 \in Nat
      /\ wait.p25 <= wait.p50 + 3 /\ wait.p50 <= wait.p80
  BY <1>1, <1>2, WaitsInOrder
<1>4. ASSUME NEW prefs, prefs \in {p, q}
      PROVE  /\ prefs.confidence_profile = "safety" => GateBuffer(prefs) = 30
             /\ prefs.confidence_profile = "sweet" => GateBuffer(prefs) = 15
             /\ prefs.confidence_profile = "risk" => GateBuffer(prefs) = 0
  BY <1>4 DEF GateBuffer
<1>5. ASSUME NEW prefs, prefs \in {p, q}
      PROVE  /\ prefs.confidence_profile = "safety" =>
                  Security(w.cell, w.live, prefs) = wait.p80
             /\ prefs.confidence_profile = "risk" =>
                  Security(w.cell, w.live, prefs) = wait.p25
             /\ prefs.confidence_profile = "sweet" =>
                  Security(w.cell, w.live, prefs) = wait.p50
  BY <1>2, <1>5, SecurityOf
<1>6. CASE p.confidence_profile = "risk"
  <2>1. q.confidence_profile = "sweet"
    BY <1>6 DEF Safer
  <2> QED
    BY <1>3, <1>4, <1>5, <1>6, <2>1
<1>7. CASE p.confidence_profile \in {"safety", "sweet"}
  <2>1. q.confidence_profile = "safety"
    BY <1>7 DEF Safer
  <2> QED
    BY <1>3, <1>4, <1>5, <1>7, <2>1
<1> QED
  BY <1>1, <1>6, <1>7

(* What leaving home is early by: the whole journey, with both buffers.    *)
Total(j) == ToGate(j) + j.gate_buffer + j.comfort_buffer

(* The sum over a journey, whichever segments its parts are counted in.    *)
LEMMA TotalIs ==
  ASSUME NEW w, WorldTypes(w), NEW prefs \in Preferences, NEW shot
  PROVE  Total(Journey(w, prefs, shot))
           = Transport(w.maps, prefs, w.ahead)
             + Walked(Walks(w.airport, prefs, shot.gate # None))
             + Stop(prefs)
             + Security(w.cell, w.live, prefs) + GateBuffer(prefs)
             + prefs.extra_time_minutes
<1>1. PICK walks, j : /\ walks = Walks(w.airport, prefs, shot.gate # None)
                      /\ j = Journey(w, prefs, shot)
  OBVIOUS
<1>2. /\ walks.parking \in Nat /\ walks.entry \in Nat
      /\ walks.security \in Nat /\ walks.gate \in Nat
  BY <1>1, WalksTypes
<1>3. PICK transport, tsa, counter, buffer, extra :
        /\ transport = Transport(w.maps, prefs, w.ahead)
        /\ tsa = Security(w.cell, w.live, prefs)
        /\ counter = CounterMinutes(prefs) /\ buffer = GateBuffer(prefs)
        /\ extra = prefs.extra_time_minutes
  OBVIOUS
<1>4. transport \in Nat /\ tsa \in Nat /\ counter \in Nat /\ buffer \in Nat
  BY <1>3, TransportTypes, SecurityTypes, StopTypes
<1>5. extra \in Nat
  BY <1>3 DEF Preferences
<1>6. PICK entry, stop :
        /\ entry = walks.entry + (IF Straight(prefs) THEN walks.security
                                  ELSE 0)
        /\ stop = IF Straight(prefs) THEN 0 ELSE counter + walks.security
  OBVIOUS
<1>7. j = [transport |-> transport, parking |-> walks.parking,
           at_airport |-> entry, counter |-> stop, tsa |-> tsa,
           walk_to_gate |-> walks.gate, gate_buffer |-> buffer,
           comfort_buffer |-> extra]
  BY <1>1, <1>3, <1>6 DEF Journey
<1>8. Total(j) = transport + walks.parking + entry + stop + tsa + walks.gate
                 + buffer + extra
  BY <1>7 DEF Total, ToGate
<1>9. entry + stop = walks.entry + walks.security + Stop(prefs)
      /\ Stop(prefs) \in Nat /\ entry \in Nat /\ stop \in Nat
  <2>1. CASE Straight(prefs)
    BY <1>2, <1>6, <2>1 DEF Stop
  <2>2. CASE ~ Straight(prefs)
    <3>1. Stop(prefs) = counter
      BY <1>3, <2>2 DEF Stop
    <3> QED
      BY <1>2, <1>4, <1>6, <2>2, <3>1
  <2> QED
    BY <2>1, <2>2
<1>10. PICK total, walked, pause :
        /\ total = Total(j) /\ walked = Walked(walks)
        /\ pause = Stop(prefs)
  OBVIOUS
<1>11. walked = walks.parking + walks.entry + walks.security + walks.gate
  BY <1>10 DEF Walked
<1>12. total = transport + walked + pause + tsa + buffer + extra
  BY <1>2, <1>4, <1>5, <1>8, <1>9, <1>10, <1>11
<1> QED
  BY <1>1, <1>3, <1>10, <1>12

(* What it takes for a total to be no smaller: no part is.                 *)
LEMMA TotalGrows ==
  ASSUME NEW w, WorldTypes(w), NEW shot,
         NEW p \in Preferences, NEW q \in Preferences,
         Transport(w.maps, p, w.ahead) <= Transport(w.maps, q, w.ahead),
         q.transport_mode = p.transport_mode,
         p.traveling_with_children => q.traveling_with_children,
         q.bag_count \in {p.bag_count, p.bag_count + 1},
         q.has_boarding_pass => p.has_boarding_pass,
         Security(w.cell, w.live, p) + GateBuffer(p)
           <= Security(w.cell, w.live, q) + GateBuffer(q),
         p.extra_time_minutes <= q.extra_time_minutes
  PROVE  Total(Journey(w, p, shot)) <= Total(Journey(w, q, shot))
<1>1. PICK a, b, c, d, e, f, g, h, k, l, m, n :
        /\ a = Transport(w.maps, p, w.ahead)
        /\ b = Transport(w.maps, q, w.ahead)
        /\ c = Walked(Walks(w.airport, p, shot.gate # None))
        /\ d = Walked(Walks(w.airport, q, shot.gate # None))
        /\ e = Stop(p) /\ f = Stop(q)
        /\ g = Security(w.cell, w.live, p) /\ h = Security(w.cell, w.live, q)
        /\ k = GateBuffer(p) /\ l = GateBuffer(q)
        /\ m = p.extra_time_minutes /\ n = q.extra_time_minutes
  OBVIOUS
<1>2. /\ a \in Nat /\ b \in Nat /\ g \in Nat /\ h \in Nat
      /\ k \in Nat /\ l \in Nat
  BY <1>1, TransportTypes, SecurityTypes, StopTypes
<1>3. m \in Nat /\ n \in Nat
  BY <1>1 DEF Preferences
<1>4. c \in Nat /\ d \in Nat
  <2>1. ASSUME NEW prefs \in Preferences
        PROVE  Walked(Walks(w.airport, prefs, shot.gate # None)) \in Nat
    <3>1. PICK gate \in BOOLEAN : gate = (shot.gate # None)
      OBVIOUS
    <3>2. PICK walks : walks = Walks(w.airport, prefs, gate)
      OBVIOUS
    <3>3. /\ walks.parking \in Nat /\ walks.entry \in Nat
          /\ walks.security \in Nat /\ walks.gate \in Nat
      BY <3>2, WalksTypes
    <3> QED
      BY <3>1, <3>2, <3>3 DEF Walked
  <2> QED
    BY <1>1, <2>1
<1>5. c <= d
  BY <1>1, WalkedGrows
<1>6. e \in Nat /\ f \in Nat
  <2>1. ASSUME NEW prefs \in Preferences
        PROVE  Stop(prefs) \in Nat
    BY StopTypes DEF Stop
  <2> QED
    BY <1>1, <2>1
<1>7. e <= f
  BY <1>1, StopGrows
<1>8. a <= b /\ g + k <= h + l /\ m <= n
  BY <1>1
<1>9. a + c + e + g + k + m <= b + d + f + h + l + n
  BY <1>2, <1>3, <1>4, <1>5, <1>6, <1>7, <1>8
<1> QED
  BY <1>1, <1>9, TotalIs

(* Preferences with one of them exchanged.                                 *)
Changed(prefs, field, value) ==
  [prefs EXCEPT ![field] = value]

(* The values a preference may have.                                       *)
Values ==
  [transport_mode |-> Modes, confidence_profile |-> Profiles,
   bag_count |-> 0..10, traveling_with_children |-> BOOLEAN,
   extra_time_minutes |-> {0, 15, 30}, has_boarding_pass |-> BOOLEAN,
   security_access |-> Accesses, gate_time_minutes |-> (0..180) \union {None}]

LEMMA ChangedFields ==
  ASSUME NEW prefs \in Preferences, NEW field \in DOMAIN Values,
         NEW value \in Values[field],
         NEW q, q = Changed(prefs, field, value)
  PROVE  /\ q \in Preferences /\ q[field] = value
         /\ \A f \in DOMAIN Values \ {field} : q[f] = prefs[f]
<1>1. prefs \in [DOMAIN Values -> UNION {Values[f] : f \in DOMAIN Values}]
      /\ \A f \in DOMAIN Values : prefs[f] \in Values[f]
  BY DEF Preferences, Values
<1>2. /\ q \in [DOMAIN Values -> UNION {Values[f] : f \in DOMAIN Values}]
      /\ q[field] = value
      /\ \A f \in DOMAIN Values \ {field} : q[f] = prefs[f]
  BY <1>1 DEF Changed
<1>3. \A f \in DOMAIN Values : q[f] \in Values[f]
  BY <1>1, <1>2
<1>4. q \in Preferences
  BY <1>2, <1>3 DEF Preferences, Values
<1> QED
  BY <1>2, <1>4

(* Each of the ways to have more to do makes the journey no shorter, and   *)
(* only a safer profile depends on the order of the traffic variants.      *)
LEMMA HeavierIsLonger ==
  ASSUME NEW w, WorldTypes(w), NEW shot,
         NEW p \in Preferences, NEW q \in Heavier(p),
         TrafficInOrder(w) \/ q.confidence_profile = p.confidence_profile
  PROVE  /\ q \in Preferences
         /\ Total(Journey(w, p, shot)) <= Total(Journey(w, q, shot))
<1>1. /\ p.bag_count \in 0..10 /\ p.traveling_with_children \in BOOLEAN
      /\ p.extra_time_minutes \in {0, 15, 30}
      /\ p.has_boarding_pass \in BOOLEAN
      /\ p.confidence_profile \in {"safety", "sweet", "risk"}
  BY DEF Preferences, Profiles
<1>2. ASSUME NEW field \in DOMAIN Values, NEW value \in Values[field],
             q = Changed(p, field, value)
      PROVE  /\ q \in Preferences /\ q[field] = value
             /\ \A f \in DOMAIN Values \ {field} : q[f] = p[f]
  BY <1>2, ChangedFields
<1>3. DOMAIN Values =
        {"transport_mode", "confidence_profile", "bag_count",
         "traveling_with_children", "extra_time_minutes",
         "has_boarding_pass", "security_access", "gate_time_minutes"}
  BY DEF Values
<1>4. ASSUME q \in Preferences,
             q.confidence_profile = p.confidence_profile,
             q.gate_time_minutes = p.gate_time_minutes,
             q.security_access \in {p.security_access, "none"},
             q.transport_mode = p.transport_mode
      PROVE  /\ Transport(w.maps, p, w.ahead)
                  <= Transport(w.maps, q, w.ahead)
             /\ Security(w.cell, w.live, p) + GateBuffer(p)
                  <= Security(w.cell, w.live, q) + GateBuffer(q)
  <2>1. Transport(w.maps, p, w.ahead) <= Transport(w.maps, q, w.ahead)
    <3>1. Transport(w.maps, p, w.ahead) = Transport(w.maps, q, w.ahead)
      BY <1>4 DEF Transport
    <3>2. Transport(w.maps, p, w.ahead) \in Nat
      BY TransportTypes
    <3> QED
      BY <3>1, <3>2
  <2>2. Security(w.cell, w.live, p) <= Security(w.cell, w.live, q)
    BY <1>4, SecurityGrows
  <2>3. /\ Security(w.cell, w.live, p) \in Nat
        /\ Security(w.cell, w.live, q) \in Nat /\ GateBuffer(p) \in Nat
    BY <1>4, SecurityTypes, StopTypes
  <2>4. GateBuffer(q) = GateBuffer(p)
    BY <1>4 DEF GateBuffer
  <2> QED
    BY <2>1, <2>2, <2>3, <2>4
<1>5. CASE q = Changed(p, "traveling_with_children", TRUE)
  <2>1. TRUE \in Values["traveling_with_children"]
    BY DEF Values
  <2>2. /\ q \in Preferences /\ q.traveling_with_children = TRUE
        /\ q.transport_mode = p.transport_mode
        /\ q.confidence_profile = p.confidence_profile
        /\ q.bag_count = p.bag_count
        /\ q.extra_time_minutes = p.extra_time_minutes
        /\ q.has_boarding_pass = p.has_boarding_pass
        /\ q.security_access = p.security_access
        /\ q.gate_time_minutes = p.gate_time_minutes
    <3>1. /\ q \in Preferences /\ q["traveling_with_children"] = TRUE
          /\ \A f \in DOMAIN Values \ {"traveling_with_children"} :
               q[f] = p[f]
      BY <1>2, <1>3, <1>5, <2>1, Zenon
    <3> QED
      BY <1>3, <3>1
  <2> QED
    BY <1>1, <1>4, <2>2, TotalGrows
<1>6. CASE q = Changed(p, "has_boarding_pass", FALSE)
  <2>1. FALSE \in Values["has_boarding_pass"]
    BY DEF Values
  <2>2. /\ q \in Preferences /\ q.has_boarding_pass = FALSE
        /\ q.transport_mode = p.transport_mode
        /\ q.confidence_profile = p.confidence_profile
        /\ q.bag_count = p.bag_count
        /\ q.extra_time_minutes = p.extra_time_minutes
        /\ q.traveling_with_children = p.traveling_with_children
        /\ q.security_access = p.security_access
        /\ q.gate_time_minutes = p.gate_time_minutes
    <3>1. /\ q \in Preferences /\ q["has_boarding_pass"] = FALSE
          /\ \A f \in DOMAIN Values \ {"has_boarding_pass"} :
               q[f] = p[f]
      BY <1>2, <1>3, <1>6, <2>1, Zenon
    <3> QED
      BY <1>3, <3>1
  <2> QED
    BY <1>1, <1>4, <2>2, TotalGrows
<1>7. ASSUME NEW bags \in 0..10, bags \in {p.bag_count, p.bag_count + 1},
             q = Changed(p, "bag_count", bags)
      PROVE  /\ q \in Preferences
             /\ Total(Journey(w, p, shot)) <= Total(Journey(w, q, shot))
  <2>1. bags \in Values["bag_count"]
    BY DEF Values
  <2>2. /\ q \in Preferences /\ q.bag_count = bags
        /\ q.transport_mode = p.transport_mode
        /\ q.confidence_profile = p.confidence_profile
        /\ q.has_boarding_pass = p.has_boarding_pass
        /\ q.extra_time_minutes = p.extra_time_minutes
        /\ q.traveling_with_children = p.traveling_with_children
        /\ q.security_access = p.security_access
        /\ q.gate_time_minutes = p.gate_time_minutes
    BY <1>2, <1>3, <1>7, <2>1
  <2> QED
    BY <1>1, <1>4, <1>7, <2>2, TotalGrows
<1>8. CASE q = Changed(p, "extra_time_minutes", 30)
  <2>1. 30 \in Values["extra_time_minutes"]
    BY DEF Values
  <2>2. /\ q \in Preferences /\ q.extra_time_minutes = 30
        /\ q.transport_mode = p.transport_mode
        /\ q.confidence_profile = p.confidence_profile
        /\ q.has_boarding_pass = p.has_boarding_pass
        /\ q.bag_count = p.bag_count
        /\ q.traveling_with_children = p.traveling_with_children
        /\ q.security_access = p.security_access
        /\ q.gate_time_minutes = p.gate_time_minutes
    BY <1>2, <1>3, <1>8, <2>1
  <2> QED
    BY <1>1, <1>4, <2>2, TotalGrows
<1>9. CASE q = Changed(p, "security_access", "none")
  <2>1. "none" \in Values["security_access"]
    BY DEF Values, Accesses
  <2>2. /\ q \in Preferences /\ q.security_access = "none"
        /\ q.transport_mode = p.transport_mode
        /\ q.confidence_profile = p.confidence_profile
        /\ q.has_boarding_pass = p.has_boarding_pass
        /\ q.bag_count = p.bag_count
        /\ q.traveling_with_children = p.traveling_with_children
        /\ q.extra_time_minutes = p.extra_time_minutes
        /\ q.gate_time_minutes = p.gate_time_minutes
    BY <1>2, <1>3, <1>9, <2>1
  <2> QED
    BY <1>1, <1>4, <2>2, TotalGrows
<1>10. ASSUME p.gate_time_minutes = None,
              NEW profile, profile = Safer(p.confidence_profile),
              q = Changed(p, "confidence_profile", profile)
       PROVE  /\ q \in Preferences
              /\ Total(Journey(w, p, shot)) <= Total(Journey(w, q, shot))
  <2>1. profile \in Values["confidence_profile"]
    BY <1>10 DEF Values, Profiles, Safer
  <2>2. /\ q \in Preferences /\ q.confidence_profile = profile
        /\ q.transport_mode = p.transport_mode
        /\ q.security_access = p.security_access
        /\ q.has_boarding_pass = p.has_boarding_pass
        /\ q.bag_count = p.bag_count
        /\ q.traveling_with_children = p.traveling_with_children
        /\ q.extra_time_minutes = p.extra_time_minutes
        /\ q.gate_time_minutes = p.gate_time_minutes
    BY <1>2, <1>3, <1>10, <2>1
  <2>3. CASE profile = p.confidence_profile
    BY <1>1, <1>4, <2>2, <2>3, TotalGrows
  <2>4. CASE profile # p.confidence_profile
    <3>1. TrafficInOrder(w)
      BY <2>2, <2>4
    <3>2. Transport(w.maps, p, w.ahead) <= Transport(w.maps, q, w.ahead)
      BY <1>10, <2>2, <3>1, TransportGrows
    <3>3. Security(w.cell, w.live, p) + GateBuffer(p)
            <= Security(w.cell, w.live, q) + GateBuffer(q)
      BY <1>10, <2>2, SaferGrows
    <3> QED
      BY <1>1, <2>2, <3>2, <3>3, TotalGrows
  <2> QED
    BY <2>3, <2>4
<1>11. \/ q = Changed(p, "traveling_with_children", TRUE)
       \/ q = Changed(p, "has_boarding_pass", FALSE)
       \/ \E bags \in 0..10 : /\ bags \in {p.bag_count, p.bag_count + 1}
                              /\ q = Changed(p, "bag_count", bags)
       \/ q = Changed(p, "extra_time_minutes", 30)
       \/ q = Changed(p, "security_access", "none")
       \/ /\ p.gate_time_minutes = None
          /\ q = Changed(p, "confidence_profile",
                         Safer(p.confidence_profile))
  <2>1. PICK bags : bags = IF p.bag_count = 10 THEN p.bag_count
                           ELSE p.bag_count + 1
    OBVIOUS
  <2>2. bags \in 0..10 /\ bags \in {p.bag_count, p.bag_count + 1}
    BY <1>1, <2>1
  <2>3. \/ q = Changed(p, "traveling_with_children", TRUE)
        \/ q = Changed(p, "has_boarding_pass", FALSE)
        \/ q = Changed(p, "bag_count", bags)
        \/ q = Changed(p, "extra_time_minutes", 30)
        \/ q = Changed(p, "security_access", "none")
        \/ /\ p.gate_time_minutes = None
           /\ q = Changed(p, "confidence_profile",
                          Safer(p.confidence_profile))
    BY <2>1, Zenon DEF Heavier, Changed, Safer
  <2> QED
    BY <2>2, <2>3, Zenon
<1> QED
  BY <1>5, <1>6, <1>7, <1>8, <1>9, <1>10, <1>11, Zenon

(* The scenario of the theorem: Google's pessimistic durations are no      *)
(* shorter than its plain ones, and its optimistic ones no longer.         *)
OrderedTraffic == \A case \in Cases : \A w \in case.worlds : TrafficInOrder(w)

LEMMA TrafficStays ==
  ASSUME OrderedTraffic
  PROVE  PlanSpec => []TrafficInOrder(world)
<1>1. PlanInit => TrafficInOrder(world)
  BY Zenon DEF PlanInit, OrderedTraffic
<1>2. ASSUME TrafficInOrder(world), [PlanNext]_planVars
      PROVE  TrafficInOrder(world)'
  <2>1. world' = world
    <3>1. ASSUME NEW r \in Requests, RequestStep(r)
          PROVE  world' = world
      <4>1. ASSUME Ask(r) \/ LoadForHome(r) \/ LoadForOverrides(r)
            PROVE  world' = world
        BY <4>1, Zenon DEF Ask, LoadForHome, LoadForOverrides
      <4>2. ASSUME CommitHome(r) \/ CommitOverrides(r)
            PROVE  world' = world
        BY <4>2, Zenon DEF CommitHome, CommitOverrides
      <4>3. ASSUME ReadContext(r) \/ BuildSnapshot(r) \/ Respond(r)
            PROVE  world' = world
        BY <4>3, Zenon DEF ReadContext, BuildSnapshot, Respond
      <4> QED
        BY <3>1, <4>1, <4>2, <4>3, Zenon DEF RequestStep
    <3>2. AdbChanges \/ Evict \/ Restart \/ UNCHANGED planVars
            => world' = world
      BY Zenon DEF AdbChanges, Evict, Restart, planVars
    <3> QED
      BY <1>2, <3>1, <3>2, Zenon DEF PlanNext
  <2> QED
    BY <1>2, <2>1 DEF TrafficInOrder
<1> QED
  BY <1>1, <1>2, PTL DEF PlanSpec

(* The answer to someone with more to do is no later.                      *)
LEMMA HeavierLeavesEarlier ==
  ASSUME PlanInv, NEW r \in Answered,
         NEW heavier \in Heavier(req[r].context.prefs),
         \/ TrafficInOrder(world)
         \/ heavier.confidence_profile
              = req[r].context.prefs.confidence_profile,
         NEW departure, departure = req[r].snapshot.departure
  PROVE  LeaveHomeAt(departure, Journey(world, heavier, req[r].snapshot))
           <= LeaveHomeAt(departure, JourneyOf(r))
<1>1. PICK p, shot : p = req[r].context.prefs /\ shot = req[r].snapshot
  OBVIOUS
<1>2. WorldTypes(world) /\ p \in Preferences /\ departure \in Int
  BY <1>1, AnsweredTypes
<1>3. PICK j, k : /\ j = Journey(world, p, shot)
                  /\ k = Journey(world, heavier, shot)
  OBVIOUS
<1>4. heavier \in Preferences /\ Total(j) <= Total(k)
  BY <1>1, <1>2, <1>3, HeavierIsLonger
<1>5. j \in [Segments -> Nat] /\ k \in [Segments -> Nat]
  BY <1>2, <1>3, <1>4, JourneyTypes
<1>6. ASSUME NEW i \in [Segments -> Nat]
      PROVE  /\ Total(i) \in Nat
             /\ LeaveHomeAt(departure, i) = departure - 30 - Total(i)
  BY <1>2 DEF Segments, Total, ToGate, LeaveHomeAt, BOARDING
<1>7. LeaveHomeAt(departure, k) <= LeaveHomeAt(departure, j)
  BY <1>2, <1>4, <1>5, <1>6
<1> QED
  BY <1>1, <1>3, <1>7 DEF JourneyOf

(* Someone with more to do is never told to leave later                    *)
(* (_compute_segments and the estimates under it): children, bags, no      *)
(* boarding pass, more buffer, no fast lane, a more careful profile, in    *)
(* any world whose traffic variants are in order.                          *)
THEOREM MoreToDoIsEarlier ==
  ASSUME OrderedTraffic
  PROVE  PlanSpec => []MoreToDoNeverLater
<1>1. PlanInv /\ TrafficInOrder(world) => MoreToDoNeverLater
  BY HeavierLeavesEarlier, Zenon DEF MoreToDoNeverLater
<1> QED
  BY <1>1, PlanInvHolds, TrafficStays, PTL

(* What MoreToDoNeverLater says of those who keep their profile.           *)
SameProfileNeverLater ==
  \A r \in Answered :
    \A heavier \in Heavier(req[r].context.prefs) :
      heavier.confidence_profile = req[r].context.prefs.confidence_profile
      => LeaveHomeAt(req[r].snapshot.departure,
                     Journey(world, heavier, req[r].snapshot))
           <= LeaveHomeAt(req[r].snapshot.departure, JourneyOf(r))

(* Whatever Google answers, the order of the variants matters only to a    *)
(* change of profile: with children, bags, no boarding pass, more buffer   *)
(* or no fast lane nobody is told to leave later (_compute_segments).      *)
THEOREM SameProfileIsEarlier ==
  PlanSpec => []SameProfileNeverLater
<1>1. PlanInv => SameProfileNeverLater
  BY HeavierLeavesEarlier, Zenon DEF SameProfileNeverLater
<1> QED
  BY <1>1, PlanInvHolds, PTL

-----------------------------------------------------------------------------
(* Searches.  The flights AeroDataBox may report, and what is known of     *)
(* each.                                                                   *)
Offered == UNION {Range(reply.list) : reply \in Replies}

LEMMA OfferedTypes ==
  ASSUME NEW f \in Offered
  PROVE  /\ FlightTypes(f)
         /\ f.scheduled \in Int \union {None}
         /\ f.revised \in Int \union {None}
         /\ Departure(f) \in Int \union {None}
<1>1. PICK reply \in Replies : f \in Range(reply.list)
  BY DEF Offered
<1>2. /\ ReplyTypes(reply)
      /\ \A g \in Range(reply.list) : FlightTypes(g)
  BY SearchAssumption
<1>3. PICK list : list = reply.list
  OBVIOUS
<1>4. PICK i \in DOMAIN list : f = list[i]
  BY <1>1, <1>3 DEF Range
<1>5. /\ list[i].scheduled \in Int \union {None}
      /\ list[i].revised \in Int \union {None}
  BY <1>2, <1>3, <1>4 DEF ReplyTypes
<1> QED
  BY <1>1, <1>2, <1>4, <1>5 DEF Departure, Delayed

LEMMA LookupOffers ==
  ASSUME NEW reply \in Replies
  PROVE  Lookup(reply).flights \in Seq(Offered)
<1>1. PICK list : list = reply.list
  OBVIOUS
<1>2. list \in Seq({list[i] : i \in DOMAIN list})
  BY <1>1, SearchAssumption DEF ReplyTypes
<1>3. {list[i] : i \in DOMAIN list} \subseteq Offered
  BY <1>1 DEF Offered, Range
<1>4. list \in Seq(Offered)
  BY <1>2, <1>3, SeqMonotonic
<1>5. Lookup(reply).flights \in {<<>>, list}
  BY <1>1 DEF Lookup
<1>6. <<>> \in Seq(Offered)
  BY EmptySeq
<1> QED
  BY <1>4, <1>5, <1>6, Zenon

LEMMA AnswerOffers ==
  ASSUME NEW reply \in Replies
  PROVE  /\ Answer(reply).flights \in Seq(Offered)
         /\ IsError(Answer(reply)) => Answer(reply).flights = <<>>
<1>1. Lookup(reply).flights \in Seq(Offered)
  BY LookupOffers
<1>2. IsError(Lookup(reply)) => Lookup(reply).flights = <<>>
  BY DEF IsError, Lookup
<1>3. <<>> \in Seq(Offered)
  BY EmptySeq
<1>4. \/ Answer(reply) = Lookup(reply)
      \/ Answer(reply).flights = <<>>
  BY DEF Answer, LookupWindow
<1> QED
  BY <1>1, <1>2, <1>3, <1>4

-----------------------------------------------------------------------------
(* The flights recovered.                                                  *)

LEMMA OneWindow ==
  ASSUME NEW s, NEW a, Len(s) = 1, s[1] = a
  PROVE  FlattenSeq(s) = a
<1> DEFINE P(f) == f = [i \in 1..Len(s) |->
                          IF i = 1 THEN s[i] ELSE f[i - 1] \o s[i]]
<1>1. P([i \in 1..1 |-> a])
  BY SMT
<1>2. P(CHOOSE f : P(f))
  BY <1>1, Zenon
<1>3. FlattenSeq(s) = (CHOOSE f : P(f))[Len(s)]
  BY DEF FlattenSeq
<1> HIDE DEF P
<1>4. PICK f : P(f) /\ FlattenSeq(s) = f[Len(s)]
  BY <1>2, <1>3, Zenon
<1> QED
  BY <1>4 DEF P

LEMMA TwoWindows ==
  ASSUME NEW s, NEW a, NEW b, Len(s) = 2, s[1] = a, s[2] = b
  PROVE  FlattenSeq(s) = a \o b
<1> DEFINE P(f) == f = [i \in 1..Len(s) |->
                          IF i = 1 THEN s[i] ELSE f[i - 1] \o s[i]]
<1>1. P([i \in 1..2 |-> IF i = 1 THEN a ELSE a \o b])
  BY SMT
<1>2. P(CHOOSE f : P(f))
  BY <1>1, Zenon
<1>3. FlattenSeq(s) = (CHOOSE f : P(f))[Len(s)]
  BY DEF FlattenSeq
<1> HIDE DEF P
<1>4. PICK f : P(f) /\ FlattenSeq(s) = f[Len(s)]
  BY <1>2, <1>3, Zenon
<1>5. \A i \in 1..2 : f[i] = IF i = 1 THEN s[i] ELSE f[i - 1] \o s[i]
  BY <1>4 DEF P
<1>6. f[1] = s[1] /\ f[2] = f[2 - 1] \o s[2]
  BY <1>5, SMT
<1>7. f[2 - 1] = f[1]
  OBVIOUS
<1> QED
  BY <1>4, <1>6, <1>7, Zenon

LEMMA RecoveredTypes ==
  ASSUME NEW rs \in Seq(Replies), Len(rs) \in {1, 2}
  PROVE  Recovered(rs) \in Seq(Offered)
<1>1. PICK s : s = [i \in DOMAIN rs |-> Answer(rs[i]).flights]
  OBVIOUS
<1>2. /\ DOMAIN rs = 1..Len(rs) /\ Len(s) = Len(rs)
      /\ \A i \in 1..Len(rs) : rs[i] \in Replies
      /\ \A i \in 1..Len(rs) : s[i] = Answer(rs[i]).flights
  BY <1>1
<1>3. \A i \in 1..Len(rs) : s[i] \in Seq(Offered)
  BY <1>2, AnswerOffers
<1>4. Recovered(rs) = FlattenSeq(s)
  BY <1>1 DEF Recovered
<1>5. CASE Len(rs) = 1
  BY <1>2, <1>3, <1>4, <1>5, OneWindow
<1>6. CASE Len(rs) = 2
  <2>1. PICK a, b : s[1] = a /\ s[2] = b /\ Len(s) = 2
    BY <1>2, <1>6
  <2>2. a \in Seq(Offered) /\ b \in Seq(Offered)
    BY <1>3, <1>6, <2>1
  <2>3. FlattenSeq(s) = a \o b
    BY <2>1, TwoWindows, Zenon
  <2> QED
    BY <1>4, <2>2, <2>3, ConcatProperties
<1> QED
  BY <1>5, <1>6

(* When every lookup raised, nothing was recovered.                        *)
LEMMA AllRaised ==
  ASSUME NEW rs \in Seq(Replies), Len(rs) \in {1, 2},
         \A i \in DOMAIN rs : IsError(Answer(rs[i]))
  PROVE  Recovered(rs) = <<>> /\ WindowErrors(rs) # {}
<1>1. PICK s : s = [i \in DOMAIN rs |-> Answer(rs[i]).flights]
  OBVIOUS
<1>2. /\ DOMAIN rs = 1..Len(rs) /\ Len(s) = Len(rs)
      /\ \A i \in 1..Len(rs) : rs[i] \in Replies
      /\ \A i \in 1..Len(rs) : s[i] = Answer(rs[i]).flights
  BY <1>1
<1>3. \A i \in 1..Len(rs) : s[i] = <<>>
  BY <1>2, AnswerOffers
<1>4. Recovered(rs) = FlattenSeq(s)
  BY <1>1 DEF Recovered
<1>5. FlattenSeq(s) = <<>>
  <2>1. CASE Len(rs) = 1
    BY <1>2, <1>3, <2>1, OneWindow
  <2>2. CASE Len(rs) = 2
    <3>1. PICK a, b : s[1] = a /\ s[2] = b /\ Len(s) = 2
      BY <1>2, <2>2
    <3>2. a = <<>> /\ b = <<>>
      BY <1>3, <2>2, <3>1
    <3>3. FlattenSeq(s) = a \o b
      BY <3>1, TwoWindows, Zenon
    <3>4. <<>> \o <<>> = <<>>
      OBVIOUS
    <3> QED
      BY <3>2, <3>3, <3>4
  <2> QED
    BY <2>1, <2>2
<1>6. 1 \in DOMAIN rs /\ IsError(Answer(rs[1]))
  BY <1>2
<1>7. Answer(rs[1]).error \in WindowErrors(rs)
  BY <1>6 DEF WindowErrors, IsError
<1> QED
  BY <1>4, <1>5, <1>7

-----------------------------------------------------------------------------
(* The flights that match.                                                 *)

LEMMA Smallest ==
  ASSUME NEW T \in SUBSET Nat, T # {}
  PROVE  \E n \in T : \A m \in T : n <= m
<1>1. PICK R : R = OpToRel(<, Nat)
  OBVIOUS
<1>2. IsWellFoundedOn(R, Nat)
  BY <1>1, NatLessThanWellFounded
<1>3. PICK n \in T : \A m \in T : ~ (<<m, n>> \in R)
  BY <1>2, WFMin
<1>4. ASSUME NEW m \in T
      PROVE  n <= m
  <2>1. m < n => <<m, n>> \in R
    BY <1>1 DEF OpToRel
  <2> QED
    BY <1>3, <2>1
<1> QED
  BY <1>4

(* The equation of Matching's recursive function, over the first n of the  *)
(* list.                                                                   *)
Keeps(kept, list, n) ==
  kept = [i \in 0..n |->
            IF i = 0 THEN <<>>
            ELSE IF Matches(list[i]) THEN Append(kept[i - 1], list[i])
            ELSE kept[i - 1]]

LEMMA KeptExtends ==
  ASSUME NEW list, NEW n \in Nat, NEW kept, Keeps(kept, list, n)
  PROVE  \E longer : Keeps(longer, list, n + 1)
<1>1. PICK last : last = IF Matches(list[n + 1])
                         THEN Append(kept[n], list[n + 1]) ELSE kept[n]
  OBVIOUS
<1>2. PICK longer : longer = [i \in 0..(n + 1) |->
                                IF i = n + 1 THEN last ELSE kept[i]]
  OBVIOUS
<1>3. /\ DOMAIN longer = 0..(n + 1) /\ longer[n + 1] = last
      /\ \A i \in 0..n : longer[i] = kept[i]
      /\ \A i \in 0..(n + 1) : i # 0 => i - 1 \in 0..n
  BY <1>2
<1>4. ASSUME NEW i \in 0..(n + 1)
      PROVE  longer[i] =
               IF i = 0 THEN <<>>
               ELSE IF Matches(list[i])
                    THEN Append(longer[i - 1], list[i])
                    ELSE longer[i - 1]
  <2>1. CASE i = n + 1
    BY <1>1, <1>3, <2>1
  <2>2. CASE i \in 0..n
    <3>1. kept[i] = IF i = 0 THEN <<>>
                    ELSE IF Matches(list[i])
                         THEN Append(kept[i - 1], list[i])
                         ELSE kept[i - 1]
      BY <2>2 DEF Keeps
    <3> QED
      BY <1>3, <2>2, <3>1
  <2> QED
    BY <2>1, <2>2
<1>5. longer = [i \in 0..(n + 1) |-> longer[i]]
  BY <1>2
<1> QED
  BY <1>4, <1>5 DEF Keeps

LEMMA KeptExists ==
  ASSUME NEW list, NEW length \in Nat
  PROVE  \E kept : Keeps(kept, list, length)
<1> DEFINE T == {n \in Nat : ~ \E kept : Keeps(kept, list, n)}
<1>1. SUFFICES ASSUME T # {}
               PROVE  FALSE
  OBVIOUS
<1>2. PICK n \in T : \A m \in T : n <= m
  BY <1>1, Smallest
<1>3. n # 0
  <2>1. Keeps([i \in 0..0 |-> <<>>], list, 0)
    BY DEF Keeps
  <2> QED
    BY <1>2, <2>1
<1>4. n - 1 \in Nat /\ n - 1 \notin T
  BY <1>2, <1>3
<1>5. PICK kept : Keeps(kept, list, n - 1)
  BY <1>4
<1>6. \E longer : Keeps(longer, list, (n - 1) + 1)
  BY <1>4, <1>5, KeptExtends
<1> QED
  BY <1>2, <1>6

LEMMA MatchingIs ==
  ASSUME NEW list \in Seq(Offered)
  PROVE  \E kept : /\ Keeps(kept, list, Len(list))
                   /\ Matching(list) = kept[Len(list)]
<1>1. \E kept : Keeps(kept, list, Len(list))
  BY KeptExists
<1>2. Keeps(CHOOSE kept : Keeps(kept, list, Len(list)), list, Len(list))
  BY <1>1, Zenon
<1>3. Matching(list) =
        (CHOOSE kept : Keeps(kept, list, Len(list)))[Len(list)]
  BY DEF Matching, Keeps
<1> QED
  BY <1>2, <1>3, Zenon

(* Everything kept of the first n flights is one of theirs, and each of    *)
(* them that matches is kept.                                              *)
KeptSoFar(kept, list, n) ==
  /\ kept[n] \in Seq(Offered)
  /\ \A i \in 1..n : Matches(list[i]) => list[i] \in Range(kept[n])

LEMMA AppendRange ==
  ASSUME NEW S, NEW s \in Seq(S), NEW e \in S
  PROVE  /\ Append(s, e) \in Seq(S)
         /\ Range(Append(s, e)) = Range(s) \union {e}
<1>1. /\ Append(s, e) \in Seq(S) /\ Len(Append(s, e)) = Len(s) + 1
      /\ Len(s) \in Nat
      /\ \A i \in 1..Len(s) : Append(s, e)[i] = s[i]
      /\ Append(s, e)[Len(s) + 1] = e
      /\ DOMAIN s = 1..Len(s)
      /\ DOMAIN Append(s, e) = 1..(Len(s) + 1)
  BY AppendProperties, LenProperties
<1>2. 1..(Len(s) + 1) = (1..Len(s)) \union {Len(s) + 1}
  BY <1>1
<1>3. ASSUME NEW x
      PROVE  x \in Range(Append(s, e)) <=> x \in Range(s) \union {e}
  BY <1>1, <1>2 DEF Range
<1> QED
  BY <1>1, <1>3

LEMMA KeptNext ==
  ASSUME NEW list \in Seq(Offered), NEW kept, Keeps(kept, list, Len(list)),
         NEW n \in 1..Len(list), KeptSoFar(kept, list, n - 1)
  PROVE  KeptSoFar(kept, list, n)
<1>1. PICK before, after, f :
        before = kept[n - 1] /\ after = kept[n] /\ f = list[n]
  OBVIOUS
<1>2. f \in Offered /\ before \in Seq(Offered)
  BY <1>1 DEF KeptSoFar
<1>3. after = IF Matches(f) THEN Append(before, f) ELSE before
  <2>1. n \in 0..Len(list) /\ n # 0
    OBVIOUS
  <2>2. kept[n] = IF n = 0 THEN <<>>
                  ELSE IF Matches(list[n]) THEN Append(kept[n - 1], list[n])
                  ELSE kept[n - 1]
    BY <2>1 DEF Keeps
  <2> QED
    BY <1>1, <2>1, <2>2
<1>4. \A i \in 1..(n - 1) : Matches(list[i]) => list[i] \in Range(before)
  BY <1>1 DEF KeptSoFar
<1>5. /\ Append(before, f) \in Seq(Offered)
      /\ Range(Append(before, f)) = Range(before) \union {f}
  BY <1>2, AppendRange
<1>6. after \in Seq(Offered)
  BY <1>2, <1>3, <1>5
<1>7. /\ Range(before) \subseteq Range(after)
      /\ Matches(f) => f \in Range(after)
  BY <1>3, <1>5
<1>8. ASSUME NEW i \in 1..n, Matches(list[i])
      PROVE  list[i] \in Range(after)
  <2>1. i \in 1..(n - 1) \/ i = n
    OBVIOUS
  <2> QED
    BY <1>1, <1>4, <1>7, <1>8, <2>1
<1> QED
  BY <1>1, <1>6, <1>8 DEF KeptSoFar

(* Matching keeps the flights that match, and invents none.                *)
LEMMA MatchingTypes ==
  ASSUME NEW list \in Seq(Offered)
  PROVE  /\ Matching(list) \in Seq(Offered)
         /\ \A f \in Range(list) : Matches(f) => f \in Range(Matching(list))
<1>1. PICK kept : /\ Keeps(kept, list, Len(list))
                  /\ Matching(list) = kept[Len(list)]
  BY MatchingIs
<1> DEFINE T == {n \in 0..Len(list) : ~ KeptSoFar(kept, list, n)}
<1>2. T = {}
  <2>1. SUFFICES ASSUME T # {}
                 PROVE  FALSE
    OBVIOUS
  <2>2. PICK n \in T : \A m \in T : n <= m
    <3>1. T \in SUBSET Nat
      OBVIOUS
    <3> QED
      BY <2>1, <3>1, Smallest
  <2>3. n # 0
    <3>1. kept[0] = <<>>
      BY <1>1 DEF Keeps
    <3>2. KeptSoFar(kept, list, 0)
      BY <3>1, EmptySeq DEF KeptSoFar
    <3> QED
      BY <2>2, <3>2
  <2>4. n \in 1..Len(list) /\ n - 1 \in 0..Len(list) /\ ~ n <= n - 1
    BY <2>2, <2>3
  <2>5. KeptSoFar(kept, list, n - 1)
    BY <2>2, <2>4
  <2>6. KeptSoFar(kept, list, n)
    BY <1>1, <2>4, <2>5, KeptNext
  <2> QED
    BY <2>2, <2>6
<1>3. KeptSoFar(kept, list, Len(list))
  BY <1>2
<1>4. \A f \in Range(list) : \E i \in 1..Len(list) : f = list[i]
  BY DEF Range
<1> QED
  BY <1>1, <1>3, <1>4 DEF KeptSoFar

-----------------------------------------------------------------------------
(* The parts of the search's invariant.                                    *)

MarkedFlights ==
  [flight : Offered, departed : BOOLEAN, canceled : BOOLEAN,
   boarding : BOOLEAN, catchable : BOOLEAN]

SearchTypes ==
  /\ stage \in {"lookup", "mark", "done"}
  /\ replies \in Seq(Replies)
  /\ IF stage = "lookup" THEN Len(replies) < Lookups
     ELSE Len(replies) = Lookups
  /\ todo \in Seq(Offered) /\ (stage = "mark" <=> todo # <<>>)
  /\ marked \in Seq(MarkedFlights)
  /\ journey \in [Origins -> Int \union {None}]

(* Every measured flight is judged by the estimate its airport now has.    *)
JourneyPart ==
  \A m \in Range(marked) : Measured(m.flight) =>
    /\ journey[m.flight.origin] \in Int
    /\ m.catchable <=> Margin(m.flight) >= journey[m.flight.origin]

(* What was recovered and matches is marked or still to be marked.         *)
CoveredPart ==
  stage # "lookup" =>
    IF Recovered(replies) # <<>>
    THEN /\ stage = "done" => outcome = 200
         /\ \A f \in Range(Recovered(replies)) : Matches(f) =>
              f \in Range(todo) \/ \E m \in Range(marked) : m.flight = f
    ELSE /\ stage = "done"
         /\ WindowErrors(replies) # {} => outcome # 200

SearchInv == SearchTypes /\ JourneyPart /\ CoveredPart

-----------------------------------------------------------------------------
(* The steps.                                                              *)

LEMMA HeadTailRange ==
  ASSUME NEW S, NEW s \in Seq(S), s # <<>>
  PROVE  /\ Head(s) \in S /\ Tail(s) \in Seq(S)
         /\ Range(s) = {Head(s)} \union Range(Tail(s))
         /\ Len(s) = 1 <=> Tail(s) = <<>>
<1>1. PICK t, n : t = Tail(s) /\ n = Len(s)
  OBVIOUS
<1>2. /\ n \in Nat \ {0} /\ DOMAIN s = 1..n /\ Head(s) = s[1]
      /\ Head(s) \in S /\ t \in Seq(S) /\ Len(t) = n - 1
      /\ \A i \in 1..(n - 1) : t[i] = s[i + 1]
      /\ DOMAIN t = 1..(n - 1)
  BY <1>1, HeadTailProperties, LenProperties, EmptySeq
<1>3. ASSUME NEW x
      PROVE  x \in Range(s) <=> x \in {s[1]} \union Range(t)
  <2>1. ASSUME NEW i \in 1..n, x = s[i]
        PROVE  x \in {s[1]} \union Range(t)
    <3>1. i # 1 => i - 1 \in 1..(n - 1) /\ t[i - 1] = s[i]
      BY <1>2
    <3> QED
      BY <1>2, <2>1, <3>1 DEF Range
  <2>2. ASSUME NEW i \in 1..(n - 1), x = t[i]
        PROVE  x \in Range(s)
    <3>1. i + 1 \in 1..n /\ x = s[i + 1]
      BY <1>2, <2>2
    <3> QED
      BY <1>2, <3>1 DEF Range
  <2>3. s[1] \in Range(s)
    BY <1>2 DEF Range
  <2>4. x \in Range(s) => \E i \in 1..n : x = s[i]
    BY <1>2 DEF Range
  <2>5. x \in Range(t) => \E i \in 1..(n - 1) : x = t[i]
    BY <1>2 DEF Range
  <2> QED
    BY <2>1, <2>2, <2>3, <2>4, <2>5
<1>4. n = 1 <=> t = <<>>
  BY <1>2, EmptySeq
<1> QED
  BY <1>1, <1>2, <1>3, <1>4

LEMMA TranslatedFails ==
  ASSUME NEW error
  PROVE  Translated(error) # 200
  BY DEF Translated

(* What the last reply leads to.                                           *)
LEMMA ReceiveCovers ==
  ASSUME NEW rs \in Seq(Replies), Len(rs) \in {1, 2}, Receive(rs)
  PROVE  /\ stage' \in {"mark", "done"}
         /\ todo' \in Seq(Offered) /\ (stage' = "mark" <=> todo' # <<>>)
         /\ IF Recovered(rs) # <<>>
            THEN /\ stage' = "done" => outcome' = 200
                 /\ \A f \in Range(Recovered(rs)) :
                      Matches(f) => f \in Range(todo')
            ELSE /\ stage' = "done"
                 /\ WindowErrors(rs) # {} => outcome' # 200
<1>1. PICK list, errors, found :
        /\ list = Recovered(rs) /\ errors = WindowErrors(rs)
        /\ found = Matching(list)
  OBVIOUS
<1>2. /\ list \in Seq(Offered) /\ found \in Seq(Offered)
      /\ \A f \in Range(list) : Matches(f) => f \in Range(found)
  BY <1>1, RecoveredTypes, MatchingTypes
<1>3. <<>> \in Seq(Offered) /\ Range(<<>>) = {}
  BY EmptySeq DEF Range
<1>4. PICK code : code = Translated(Worst(errors)) /\ code # 200
  BY TranslatedFails
<1>5. IF errors # {} /\ list = <<>>
      THEN stage' = "done" /\ outcome' = code /\ todo' = <<>>
      ELSE IF query.by = "number" /\ list = <<>>
      THEN stage' = "done" /\ outcome' = 404 /\ todo' = <<>>
      ELSE IF found = <<>>
      THEN stage' = "done" /\ outcome' = 200 /\ todo' = <<>>
      ELSE stage' = "mark" /\ outcome' = 0 /\ todo' = found
  BY <1>1, <1>4 DEF Receive, Raises
<1>6. list = <<>> => found = <<>>
  <2>1. Matching(<<>>) = <<>>
    <3>1. PICK kept : /\ Keeps(kept, <<>>, Len(<<>>))
                      /\ Matching(<<>>) = kept[Len(<<>>)]
      BY <1>3, MatchingIs
    <3>2. Len(<<>>) = 0
      BY EmptySeq
    <3>3. kept[0] = <<>>
      BY <3>1, <3>2 DEF Keeps
    <3> QED
      BY <3>1, <3>2, <3>3
  <2> QED
    BY <1>1, <2>1
<1> QED
  BY <1>1, <1>2, <1>3, <1>4, <1>5, <1>6

LEMMA FetchKeeps ==
  ASSUME SearchInv, Fetch
  PROVE  SearchInv'
<1>1. PICK reply \in Replies :
        /\ replies' = Append(replies, reply)
        /\ IF Len(replies) + 1 < Lookups
           THEN UNCHANGED <<stage, outcome, todo>>
           ELSE Receive(Append(replies, reply))
  BY DEF Fetch
<1>2. /\ stage = "lookup" /\ query' = query /\ marked' = marked
      /\ journey' = journey
  BY DEF Fetch
<1>3. /\ replies \in Seq(Replies) /\ Len(replies) < Lookups
      /\ todo \in Seq(Offered) /\ todo = <<>>
      /\ marked \in Seq(MarkedFlights)
      /\ journey \in [Origins -> Int \union {None}]
  BY <1>2 DEF SearchInv, SearchTypes
<1>4. PICK rs : rs = Append(replies, reply)
  OBVIOUS
<1>5. rs \in Seq(Replies) /\ Len(rs) = Len(replies) + 1
  BY <1>3, <1>4, AppendProperties
<1>6. Len(replies) \in Nat /\ Lookups \in {1, 2} /\ Lookups' = Lookups
  BY <1>2, <1>3, LenProperties DEF Lookups
<1>7. JourneyPart'
  BY <1>2 DEF SearchInv, JourneyPart, Measured
<1>8. CASE Len(rs) < Lookups
  <2>1. stage' = "lookup" /\ todo' = todo
    BY <1>1, <1>2, <1>5, <1>8
  <2>2. SearchTypes'
    BY <1>1, <1>2, <1>3, <1>4, <1>5, <1>6, <1>8, <2>1 DEF SearchTypes
  <2>3. CoveredPart'
    BY <2>1 DEF CoveredPart
  <2> QED
    BY <1>7, <2>2, <2>3 DEF SearchInv
<1>9. CASE ~ Len(rs) < Lookups
  <2>1. Receive(rs) /\ Len(rs) = Lookups
    BY <1>1, <1>3, <1>4, <1>5, <1>6, <1>9
  <2>2. /\ stage' \in {"mark", "done"}
        /\ todo' \in Seq(Offered) /\ (stage' = "mark" <=> todo' # <<>>)
        /\ IF Recovered(rs) # <<>>
           THEN /\ stage' = "done" => outcome' = 200
                /\ \A f \in Range(Recovered(rs)) :
                     Matches(f) => f \in Range(todo')
           ELSE /\ stage' = "done"
                /\ WindowErrors(rs) # {} => outcome' # 200
    BY <1>5, <1>6, <2>1, ReceiveCovers
  <2>3. SearchTypes'
    BY <1>1, <1>2, <1>3, <1>4, <1>5, <1>6, <2>1, <2>2 DEF SearchTypes
  <2>4. replies' = rs /\ \A f : Matches(f)' = Matches(f)
    BY <1>1, <1>2, <1>4 DEF Matches
  <2>6. /\ Recovered(replies)' = Recovered(rs)
        /\ WindowErrors(replies)' = WindowErrors(rs)
    BY <1>2, <2>4 DEF Recovered, WindowErrors, Answer
  <2>5. CoveredPart'
    BY <2>2, <2>4, <2>6 DEF CoveredPart
  <2> QED
    BY <1>7, <2>3, <2>5 DEF SearchInv
<1> QED
  BY <1>8, <1>9

LEMMA MarksTypes ==
  ASSUME NEW f \in Offered, NEW est
  PROVE  Marks(f, est) \in MarkedFlights /\ Marks(f, est).flight = f
  BY DEF Marks, MarkedFlights

(* A measured flight can be caught when its margin covers the estimate.    *)
LEMMA MarksMeasured ==
  ASSUME NEW f, NEW est, Measured(f)
  PROVE  Marks(f, est).catchable <=> Margin(f) >= est
  BY DEF Marks, Measured

LEMMA MinJourneyTypes ==
  ASSUME NEW f \in Offered, Measured(f), NEW drive \in Drives
  PROVE  MinJourney(f, drive) \in Int
<1>1. Departure(f) \in Int
  BY OfferedTypes DEF Measured
<1>2. UtcHour(Departure(f)) \in 0..23
  <2>1. PICK hours : hours = Departure(f) \div 60
    OBVIOUS
  <2>2. hours \in Int
    BY <1>1, <2>1
  <2> QED
    BY <2>1, <2>2 DEF UtcHour
<1>3. /\ f.localHour \in 0..23 \union {None}
      /\ f.revisedHour \in 0..23 \union {None}
  BY OfferedTypes DEF FlightTypes
<1>4. HourOf(f) \in 0..23
  BY <1>2, <1>3 DEF HourOf
<1>5. Cells[HourOf(f)] \in Nat
  BY <1>4, SearchAssumption
<1>6. (IF drive = None THEN FALLBACK_DRIVE ELSE drive) \in Nat
  BY SearchAssumption DEF FALLBACK_DRIVE
<1>7. Flat.curb \in Nat /\ Flat.security \in Nat /\ Flat.gate \in Nat
  BY SearchAssumption
<1> QED
  BY <1>5, <1>6, <1>7 DEF MinJourney

(* One flight is marked.  The estimate is the airport's from now on.       *)
LEMMA MarkStep ==
  ASSUME SearchInv, Mark
  PROVE  \E f \in Offered, m \in MarkedFlights, est \in Int :
           /\ Range(todo) = {f} \union Range(todo') /\ m.flight = f
           /\ marked' = Append(marked, m)
           /\ IF Measured(f)
              THEN /\ journey' = [journey EXCEPT ![f.origin] = est]
                   /\ journey[f.origin] \in {None, est}
                   /\ m.catchable <=> Margin(f) >= est
              ELSE journey' = journey
<1>1. stage = "mark" /\ todo' = Tail(todo)
  BY DEF Mark
<1>2. /\ todo \in Seq(Offered) /\ todo # <<>>
      /\ journey \in [Origins -> Int \union {None}]
  BY <1>1 DEF SearchInv, SearchTypes
<1>3. PICK f : f = Head(todo)
  OBVIOUS
<1>4. f \in Offered /\ Range(todo) = {f} \union Range(todo')
  BY <1>1, <1>2, <1>3, HeadTailRange
<1>5. PICK drive \in Drives :
        LET est == IF Measured(f) THEN Estimate(f, drive) ELSE 0
        IN  /\ marked' = Append(marked, Marks(f, est))
            /\ journey' = IF Measured(f)
                          THEN [journey EXCEPT ![f.origin] = est] ELSE journey
  BY <1>3 DEF Mark
<1>6. PICK est :
        /\ est = IF Measured(f) THEN Estimate(f, drive) ELSE 0
        /\ marked' = Append(marked, Marks(f, est))
        /\ journey' = IF Measured(f)
                      THEN [journey EXCEPT ![f.origin] = est] ELSE journey
  BY <1>5
<1>7. PICK m : m = Marks(f, est)
  OBVIOUS
<1>8. m \in MarkedFlights /\ m.flight = f
  BY <1>4, <1>7, MarksTypes
<1>9. CASE Measured(f)
  <2>1. f.origin \in Origins
    BY <1>4, OfferedTypes DEF FlightTypes
  <2>2. journey[f.origin] \in Int \union {None}
    BY <1>2, <2>1
  <2>3. MinJourney(f, drive) \in Int
    BY <1>4, <1>9, MinJourneyTypes
  <2>4. est \in Int /\ journey[f.origin] \in {None, est}
    BY <1>6, <1>9, <2>2, <2>3 DEF Estimate
  <2>5. m.catchable <=> Margin(f) >= est
    BY <1>7, <1>9, MarksMeasured
  <2>6. journey' = [journey EXCEPT ![f.origin] = est]
    BY <1>6, <1>9
  <2> QED
    BY <1>4, <1>6, <1>7, <1>8, <1>9, <2>4, <2>5, <2>6, Zenon
<1>10. CASE ~ Measured(f)
  <2>1. est \in Int /\ journey' = journey
    BY <1>6, <1>10
  <2> QED
    BY <1>4, <1>6, <1>7, <1>8, <1>10, <2>1, Zenon
<1> QED
  BY <1>9, <1>10

LEMMA MarkKeeps ==
  ASSUME SearchInv, Mark
  PROVE  SearchInv'
<1>1. PICK f \in Offered, m \in MarkedFlights, est \in Int :
        /\ Range(todo) = {f} \union Range(todo') /\ m.flight = f
        /\ marked' = Append(marked, m)
        /\ IF Measured(f)
           THEN /\ journey' = [journey EXCEPT ![f.origin] = est]
                /\ journey[f.origin] \in {None, est}
                /\ m.catchable <=> Margin(f) >= est
           ELSE journey' = journey
  BY MarkStep
<1>2. /\ query' = query /\ replies' = replies /\ stage = "mark"
      /\ todo' = Tail(todo)
      /\ IF Len(todo) = 1 THEN stage' = "done" /\ outcome' = 200
         ELSE stage' = stage
  BY DEF Mark
<1>3. /\ todo \in Seq(Offered) /\ todo # <<>>
      /\ marked \in Seq(MarkedFlights) /\ replies \in Seq(Replies)
      /\ Len(replies) = Lookups
      /\ journey \in [Origins -> Int \union {None}]
  BY <1>2 DEF SearchInv, SearchTypes
<1>4. /\ todo' \in Seq(Offered) /\ (Len(todo) = 1 <=> todo' = <<>>)
  BY <1>2, <1>3, HeadTailRange
<1>5. /\ marked' \in Seq(MarkedFlights)
      /\ Range(marked') = Range(marked) \union {m}
  BY <1>1, <1>3, AppendRange
<1>6. /\ \A g : Measured(g)' = Measured(g)
      /\ \A g : Matches(g)' = Matches(g)
      /\ Lookups' = Lookups
  BY <1>2 DEF Measured, Matches, Lookups
<1>7. f.origin \in Origins
  BY OfferedTypes DEF FlightTypes
<1>8. journey' \in [Origins -> Int \union {None}]
  BY <1>1, <1>3
<1>9. SearchTypes'
  BY <1>2, <1>3, <1>4, <1>5, <1>6, <1>8 DEF SearchTypes
<1>10. ASSUME NEW x \in Range(marked'), Measured(x.flight)
       PROVE  /\ journey'[x.flight.origin] \in Int
              /\ x.catchable <=> Margin(x.flight)
                                   >= journey'[x.flight.origin]
  <2>1. CASE x = m
    BY <1>1, <1>3, <1>7, <1>10, <2>1
  <2>2. CASE x \in Range(marked)
    <3>1. /\ journey[x.flight.origin] \in Int
          /\ x.catchable <=> Margin(x.flight) >= journey[x.flight.origin]
      BY <1>10, <2>2 DEF SearchInv, JourneyPart
    <3>2. journey'[x.flight.origin] = journey[x.flight.origin]
      <4>1. CASE ~ Measured(f)
        BY <1>1, <4>1
      <4>2. CASE Measured(f)
        <5>1. journey[x.flight.origin] # None
          BY <3>1, NoneAssumption
        <5>2. x.flight \in Offered
          <6>1. x \in MarkedFlights
            BY <1>3, <2>2 DEF Range
          <6> QED
            BY <6>1 DEF MarkedFlights
        <5>3. x.flight.origin \in Origins
          BY <5>2, OfferedTypes DEF FlightTypes
        <5> QED
          BY <1>1, <1>3, <4>2, <5>1, <5>3
      <4> QED
        BY <4>1, <4>2
    <3> QED
      BY <3>1, <3>2
  <2> QED
    BY <1>5, <2>1, <2>2
<1>11. JourneyPart'
  BY <1>6, <1>10 DEF JourneyPart
<1>12. CoveredPart'
  <2>1. /\ Recovered(replies) # <<>>
        /\ \A g \in Range(Recovered(replies)) : Matches(g) =>
             g \in Range(todo) \/ \E x \in Range(marked) : x.flight = g
    BY <1>2 DEF SearchInv, CoveredPart
  <2>2. ASSUME NEW g \in Range(Recovered(replies)), Matches(g)
        PROVE  g \in Range(todo') \/ \E x \in Range(marked') : x.flight = g
    BY <1>1, <1>5, <2>1, <2>2
  <2>3. stage' = "done" => outcome' = 200
    BY <1>2
  <2>4. Recovered(replies)' = Recovered(replies)
    BY <1>2, <1>6 DEF Recovered, Answer
  <2> QED
    BY <1>2, <1>6, <2>1, <2>2, <2>3, <2>4 DEF CoveredPart
<1> QED
  BY <1>9, <1>11, <1>12 DEF SearchInv

LEMMA SearchInvInit ==
  SearchInit => SearchInv
<1>1. SUFFICES ASSUME SearchInit
               PROVE  SearchInv
  OBVIOUS
<1>2. /\ stage = "lookup" /\ replies = <<>> /\ todo = <<>> /\ marked = <<>>
      /\ journey = [o \in Origins |-> None]
  BY <1>1 DEF SearchInit
<1>3. /\ <<>> \in Seq(Replies) /\ <<>> \in Seq(Offered)
      /\ <<>> \in Seq(MarkedFlights) /\ Len(<<>>) = 0
  BY EmptySeq
<1>4. 0 < Lookups
  BY DEF Lookups
<1>5. SearchTypes
  BY <1>2, <1>3, <1>4 DEF SearchTypes
<1>6. JourneyPart
  BY <1>2 DEF JourneyPart, Range
<1>7. CoveredPart
  BY <1>2 DEF CoveredPart
<1> QED
  BY <1>5, <1>6, <1>7 DEF SearchInv

LEMMA SearchInvHolds ==
  SearchSpec => []SearchInv
<1>1. SearchInv /\ UNCHANGED searchVars => SearchInv'
  <2>1. SUFFICES ASSUME SearchInv, UNCHANGED searchVars
                 PROVE  SearchInv'
    OBVIOUS
  <2>2. /\ query' = query /\ replies' = replies /\ stage' = stage
        /\ todo' = todo /\ marked' = marked /\ journey' = journey
        /\ outcome' = outcome
    BY <2>1 DEF searchVars
  <2>3. /\ \A g : Measured(g)' = Measured(g)
        /\ \A g : Matches(g)' = Matches(g)
        /\ Lookups' = Lookups
        /\ Recovered(replies)' = Recovered(replies)
        /\ WindowErrors(replies)' = WindowErrors(replies)
    BY <2>2 DEF Measured, Matches, Lookups, Recovered, WindowErrors, Answer
  <2>4. SearchTypes'
    BY <2>1, <2>2, <2>3 DEF SearchInv, SearchTypes
  <2>5. JourneyPart'
    BY <2>1, <2>2, <2>3 DEF SearchInv, JourneyPart
  <2>6. CoveredPart'
    BY <2>1, <2>2, <2>3 DEF SearchInv, CoveredPart
  <2> QED
    BY <2>4, <2>5, <2>6 DEF SearchInv
<1>2. SearchInv /\ [SearchNext]_searchVars => SearchInv'
  BY <1>1, FetchKeeps, MarkKeeps DEF SearchNext
<1> QED
  BY <1>2, SearchInvInit, PTL DEF SearchSpec

-----------------------------------------------------------------------------
(* What a search promises.                                                 *)

(* One window's failure costs the other window's flights nothing           *)
(* (lookup_airport_departures, search_flights): whatever was recovered is  *)
(* answered with every flight that matches, and when every lookup raised,  *)
(* the answer is never an empty list.  For any replies, and lists of any   *)
(* length.                                                                 *)
THEOREM FailuresHideNothing ==
  SearchSpec => []FailureHidesNothing
<1>1. ASSUME SearchInv
      PROVE  FailureHidesNothing
  <2>1. SUFFICES ASSUME stage = "done"
                 PROVE  FailureHidesNothing
    BY DEF FailureHidesNothing
  <2>2. todo = <<>>
    BY <1>1, <2>1 DEF SearchInv, SearchTypes
  <2>3. Range(todo) = {}
    BY <2>2 DEF Range
  <2> QED
    <3>1. Recovered(replies) # <<>> =>
            /\ outcome = 200
            /\ \A f \in Range(Recovered(replies)) :
                 Matches(f) => \E m \in Range(marked) : m.flight = f
      BY <1>1, <2>1, <2>3 DEF SearchInv, CoveredPart
    <3>2. ASSUME \A i \in DOMAIN replies : IsError(Answer(replies[i]))
          PROVE  outcome # 200
      <4>1. replies \in Seq(Replies) /\ Len(replies) \in {1, 2}
        BY <1>1, <2>1 DEF SearchInv, SearchTypes, Lookups
      <4>2. Recovered(replies) = <<>> /\ WindowErrors(replies) # {}
        BY <3>2, <4>1, AllRaised
      <4> QED
        BY <1>1, <2>1, <4>2 DEF SearchInv, CoveredPart
    <3> QED
      BY <3>1, <3>2 DEF FailureHidesNothing
<1> QED
  BY <1>1, SearchInvHolds, PTL

(* The list does not contradict itself (enrich_flights and its             *)
(* drive_cache): when one flight can be caught, so can every later one     *)
(* from that airport, whatever Google answers from one to the next.        *)
THEOREM LaterOnesAreCatchable ==
  SearchSpec => []LaterIsCatchable
<1>1. ASSUME SearchInv
      PROVE  LaterIsCatchable
  <2>1. SUFFICES ASSUME NEW a \in Range(marked), NEW b \in Range(marked),
                        a.catchable, Measured(a.flight),
                        Measured(b.flight),
                        a.flight.origin = b.flight.origin,
                        Departure(b.flight) >= Departure(a.flight)
                 PROVE  b.catchable
    BY DEF LaterIsCatchable
  <2>2. PICK est : est = journey[a.flight.origin]
    OBVIOUS
  <2>3. /\ est \in Int /\ Margin(a.flight) >= est
        /\ b.catchable <=> Margin(b.flight) >= est
    BY <1>1, <2>1, <2>2 DEF SearchInv, JourneyPart
  <2>4. ASSUME NEW x \in Range(marked), Measured(x.flight)
        PROVE  Departure(x.flight) \in Int
    <3>1. x \in MarkedFlights
      BY <1>1 DEF SearchInv, SearchTypes, Range
    <3>2. x.flight \in Offered
      BY <3>1 DEF MarkedFlights
    <3> QED
      BY <2>4, <3>2, OfferedTypes DEF Measured
  <2>5. Departure(a.flight) \in Int /\ Departure(b.flight) \in Int
    BY <2>1, <2>4
  <2> QED
    BY <2>1, <2>3, <2>5 DEF Margin, BOARDING
<1> QED
  BY <1>1, SearchInvHolds, PTL

(* What ColumnsKeepAllButTheDelay says of one flight.                      *)
ColumnsAgree(f) ==
  LET plan == SnapshotOf(<<f>>, None, 0)
      status == FlightStatus(f)
      columns == SnapshotFromColumns(FlightInfo(f), status)
  IN  plan.source = "adb" /\ columns # None =>
        /\ columns.departure + status.delay = plan.departure
        /\ columns.gate = plan.gate
        /\ f.localHour # None /\ ~ Delayed(f) => columns.hour = plan.hour

LEMMA ColumnsOfOffered ==
  ASSUME NEW f \in Offered, NEW plan, NEW status, NEW columns,
         plan = SnapshotOf(<<f>>, None, 0), status = FlightStatus(f),
         columns = SnapshotFromColumns(FlightInfo(f), status),
         plan.source = "adb", columns # None
  PROVE  /\ columns.departure + status.delay = plan.departure
         /\ columns.gate = plan.gate
         /\ f.localHour # None /\ ~ Delayed(f) => columns.hour = plan.hour
<1>1. /\ FlightTypes(f) /\ f.scheduled \in Int \union {None}
      /\ f.revised \in Int \union {None}
  BY OfferedTypes
<1>2. SelectFlight(<<f>>, None) = f
  BY DEF SelectFlight
<1>3. /\ Departure(f) # None
      /\ plan = [departure |-> Departure(f), gate |-> f.gate,
                 hour |-> IF Delayed(f) THEN RevisedHour(f)
                          ELSE f.localHour,
                 source |-> "adb"]
  BY <1>2 DEF SnapshotOf, FallbackSnapshot
<1>4. PICK info : info = FlightInfo(f)
  OBVIOUS
<1>5. /\ info.scheduled # None /\ status # None
      /\ columns = [departure |-> info.scheduled,
                    gate |-> IF status = None THEN None ELSE status.gate,
                    hour |-> info.hour, source |-> "columns"]
  BY <1>1, <1>4 DEF SnapshotFromColumns, FlightTypes
<1>6. /\ info.scheduled = f.scheduled
      /\ f.localHour # None => info.hour = f.localHour
  BY <1>4 DEF FlightInfo
<1>7. /\ status.gate = f.gate
      /\ status.delay = IF Delayed(f) THEN f.revised - f.scheduled ELSE 0
  BY DEF FlightStatus
<1>8. f.scheduled \in Int /\ (Delayed(f) => f.revised \in Int)
  BY <1>1, <1>5, <1>6 DEF Delayed
<1>9. /\ columns.departure = f.scheduled /\ columns.gate = f.gate
      /\ columns.hour = info.hour
      /\ plan.departure = Departure(f) /\ plan.gate = f.gate
      /\ ~ Delayed(f) => plan.hour = f.localHour
  BY <1>3, <1>5, <1>6, <1>7
<1>10. f.scheduled + status.delay = Departure(f)
  BY <1>7, <1>8 DEF Departure
<1> QED
  BY <1>6, <1>9, <1>10

(* The flight's columns plan like the flight itself: the same gate and,    *)
(* when it is on time, the same hour, for the scheduled departure          *)
(* (snapshot_from_columns against build_flight_snapshot).                  *)
THEOREM ColumnsKeepThePlan ==
  SearchSpec => []ColumnsKeepAllButTheDelay
<1>1. ASSUME SearchInv
      PROVE  ColumnsKeepAllButTheDelay
  <2>1. ASSUME NEW m \in Range(marked)
        PROVE  ColumnsAgree(m.flight)
    <3>1. m \in MarkedFlights
      BY <1>1 DEF SearchInv, SearchTypes, Range
    <3>2. PICK f \in Offered : f = m.flight
      BY <3>1 DEF MarkedFlights
    <3>3. PICK plan, status, columns :
            /\ plan = SnapshotOf(<<f>>, None, 0)
            /\ status = FlightStatus(f)
            /\ columns = SnapshotFromColumns(FlightInfo(f), status)
      OBVIOUS
    <3>4. plan.source = "adb" /\ columns # None =>
            /\ columns.departure + status.delay = plan.departure
            /\ columns.gate = plan.gate
            /\ f.localHour # None /\ ~ Delayed(f) =>
                 columns.hour = plan.hour
      BY <3>3, ColumnsOfOffered
    <3> QED
      BY <3>2, <3>3, <3>4, Zenon DEF ColumnsAgree
  <2> QED
    BY <2>1, Zenon DEF ColumnsKeepAllButTheDelay, ColumnsAgree
<1> QED
  BY <1>1, SearchInvHolds, PTL
=============================================================================
