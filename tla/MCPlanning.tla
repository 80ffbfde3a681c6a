----------------------------- MODULE MCPlanning -----------------------------
(* TLC's instance of Planning and FlightSearch.  A behaviour is either one *)
(* of plans or one of a search; the other side stays where it starts.      *)
EXTENDS Planning, FlightSearch, TLC

CONSTANTS r1, r2

VARIABLE side

Prefs(mode, profile, bags, children, extra, pass, access, gate) ==
  [transport_mode |-> mode, confidence_profile |-> profile,
   bag_count |-> bags, traveling_with_children |-> children,
   extra_time_minutes |-> extra, has_boarding_pass |-> pass,
   security_access |-> access, gate_time_minutes |-> gate]

DefaultPrefs ==
  Prefs("driving", "sweet", 0, FALSE, 0, TRUE, "none", None)

(* Every mode, profile and yes or no; bags around the first one; a gate    *)
(* time left to the profile, set to nothing and set longer.                *)
AllPrefs ==
  {Prefs(m, p, b, c, e, bp, a, g) :
     m \in Modes, p \in Profiles, b \in {0, 1, 2}, c \in BOOLEAN,
     e \in {0, 15}, bp \in BOOLEAN, a \in {"none", "clear_precheck"},
     g \in {None, 0, 45}}

(* SFO's flat defaults with its graph; DFW's, whose first car park has no  *)
(* edge to the default terminal; no graph; a graph without a transit node. *)
Timings(curb, security, gate, parking, transit) ==
  [curb |-> curb, security |-> security, gate |-> gate,
   parking |-> parking, transit |-> transit]
Graph(entry, security, gate, std) ==
  [entry |-> entry, security |-> security, gate |-> gate,
   defaults |-> std]
Std(e, s, g) == [entry |-> e, security |-> s, gate |-> g]

SFO == [timings |-> Timings(5, 3, 12, 12, 15),
        graph |-> Graph([curb |-> 3, parking |-> 10, transit |-> 12], 3, 5,
                        Std(3, 3, 7))]
DFW == [timings |-> Timings(5, 3, 12, 12, 10),
        graph |-> Graph([curb |-> 3, parking |-> None, transit |-> 14],
                        None, None, Std(3, 3, 8))]
EWR == [timings |-> Timings(5, 4, 12, 10, 15), graph |-> None]
Bare == [timings |-> Timings(6, 4, 13, 5, 15),
         graph |-> Graph([curb |-> 3, parking |-> 10], 3, 5, Std(3, 3, 7))]

(* Google: an answer with both variants, with neither, or a failure.       *)
Google == [duration |-> 41, pessimistic |-> 58, optimistic |-> 36]
Bland == [duration |-> 41, pessimistic |-> None, optimistic |-> None]

Cell == [p25 |-> 3, p50 |-> 5, p80 |-> 8]

World(airport, maps, ahead, live) ==
  [airport |-> airport, maps |-> maps, ahead |-> ahead, cell |-> Cell,
   live |-> live]

Worlds == {World(SFO, Google, TRUE, 20), World(DFW, Bland, TRUE, None),
           World(EWR, None, TRUE, 0), World(Bare, Google, FALSE, None)}

Flight(s, r, h, rh, status, dest, o) ==
  [scheduled |-> s, revised |-> r, localHour |-> h, revisedHour |-> rh,
   gate |-> "G", status |-> status, dest |-> dest, airline |-> "a",
   origin |-> o]

OnTime == Ok(<<Flight(1000, None, 9, None, "Expected", "X", "o")>>)
Late == Ok(<<Flight(1000, 1060, 9, 0, "Delayed", "X", "o")>>)

OneCase(requests, worlds, prefs, answers, homes, overrides, faults, news,
        restarts, evictions) ==
  [requests |-> requests, worlds |-> worlds, prefs |-> prefs,
   adb |-> answers, homes |-> homes, overrides |-> overrides,
   faults |-> faults, news |-> news, restarts |-> restarts,
   evictions |-> evictions]

(* One request with any preferences in any world; two that save addresses  *)
(* and overrides, with a failure of the database; two with news from       *)
(* AeroDataBox, an eviction and a restart.                                 *)
MCCases ==
  {OneCase({r1}, Worlds, AllPrefs, {OnTime}, {None}, {NoOverrides}, 0, {}, 0,
           0),
   OneCase({r1, r2}, {World(EWR, None, TRUE, 0)}, {DefaultPrefs}, {OnTime},
           {None, "new", "newer"},
           {NoOverrides, "bag_count" :> 1, "bag_count" :> 2,
            "extra_time_minutes" :> 15}, 1, {}, 0, 0),
   OneCase({r1, r2}, {World(SFO, Bland, TRUE, None)}, {DefaultPrefs},
           {OnTime, Replied(204), Replied(429), Failed("timeout")},
           {None}, {NoOverrides, "bag_count" :> 1}, 1,
           {Late, Failed("connection")}, 1, 1)}

(* Searches.  Time 0 is midnight UTC.                                      *)
Rush(h) == IF h \in 5..8 THEN 40 ELSE IF h = 0 THEN 3 ELSE 12
MCCells == [h \in 0..23 |-> Rush(h)]
MCFlat == Timings(5, 3, 12, 12, 15)

F(s, r, h, rh, status) == Flight(s, r, h, rh, status, "X", "o")

Morning ==
  <<F(100, None, 4, None, "Expected"), F(120, None, 5, None, "Expected"),
    F(-10, None, 3, None, "Departed")>>
Noon == <<F(130, 200, 11, 12, "Delayed"), F(140, None, 17, None, "Expected")>>
Evening ==
  <<F(110, None, 22, None, "Expected"), F(115, None, None, None, "Expected"),
    F(112, None, 18, None, "Canceled"), F(20, None, 21, None, "Boarding")>>
Other == <<Flight(150, None, 7, None, "Expected", "Y", "o"),
           Flight(120, None, 0, None, "Expected", None, "o2"),
           Flight(None, None, None, None, "Expected", "X", "o2"),
           Flight(125, None, 6, None, "Expected", "X", "o2")>>

MCReplies == {Ok(Morning), Ok(Noon), Ok(Evening), Ok(Other), Replied(204),
              Replied(404), Replied(429), Failed("timeout"),
              Failed("malformed"), Failed("shape")}

MCQueries ==
  {[by |-> b, dest |-> "X", slot |-> s, airline |-> None, home |-> h] :
     b \in {"number", "route"}, h \in BOOLEAN,
     s \in Windows \union {"any"}}


PlanStill ==
  /\ world = World(EWR, None, TRUE, None)
  /\ bounds = [homes |-> {}, overrides |-> {}, faults |-> 0, news |-> {},
               restarts |-> 0, evictions |-> 0]
  /\ adb = OnTime /\ reported = {} /\ cache = None
  /\ row = [prefs |-> DefaultPrefs, home |-> "old"] /\ store = row
  /\ req = [r \in Requests |-> [Idle EXCEPT !.at = "done"]]
  /\ met = [r \in Requests |-> {}]

SearchStill ==
  /\ query = [by |-> "number", dest |-> "X", slot |-> "any",
              airline |-> None, home |-> FALSE]
  /\ stage = "done" /\ outcome = 0
  /\ replies = <<>> /\ todo = <<>> /\ marked = <<>>
  /\ journey = [o \in Origins |-> None]

MCInit ==
  \/ side = "plan" /\ PlanInit /\ SearchStill
  \/ side = "search" /\ SearchInit /\ PlanStill

MCNext ==
  /\ UNCHANGED side
  /\ \/ side = "plan" /\ PlanNext /\ UNCHANGED searchVars
     \/ side = "search" /\ SearchNext /\ UNCHANGED planVars

MCSpec == MCInit /\ [][MCNext]_<<side, planVars, searchVars>>
=============================================================================
