------------------------- MODULE PollingLoop_proofs -------------------------
(***************************************************************************)
(* The bounds of the polling loop, for any number of trips and failures:   *)
(* it sleeps a minute while all is well, never longer than a quarter of an *)
(* hour, and it gives up only after four hours without one good tick.      *)
(***************************************************************************)
EXTENDS PollingLoop, TLAPS

(* The seconds the first n backoffs add up to.                             *)
Slept(n) ==
  CASE n = 0 -> 0
    [] n = 1 -> 60
    [] n = 2 -> 180
    [] n = 3 -> 420
    [] OTHER -> 900 * (n - 3)

(* What each place of the loop says of the count of errors and of the      *)
(* time that has been slept since the last good tick.                      *)
LastedPart ==
  /\ at = "startup" => consecutive_errors = 0
  /\ at = "stopped" <=> consecutive_errors = MAX_CONSECUTIVE_ERRORS
  /\ at \in {"check", "process"} => failing >= Slept(consecutive_errors)
  /\ at = "sleep" => \/ consecutive_errors = 0
                     \/ /\ failing >= Slept(consecutive_errors - 1)
                        /\ wait = compute_backoff(consecutive_errors)
  /\ at = "stopped" => failing >= Slept(MAX_CONSECUTIVE_ERRORS - 1)

WaitPart ==
  /\ at \in {"startup", "check", "stopped"} => wait = 0
  /\ at = "process" => wait <= DEFAULT_SLEEP
  /\ WaitBounded

LoopInv == LoopTypeOK /\ LastedPart /\ WaitPart

-----------------------------------------------------------------------------
(* The smaller of two numbers.                                             *)
LEMMA MinOfTwo ==
  ASSUME NEW a \in Int, NEW b \in Int
  PROVE  Min({a, b}) = IF a <= b THEN a ELSE b
  BY DEF Min

(* The powers of two among which the cap of the backoff lies.              *)
LEMMA Powers ==
  ASSUME NEW k \in 0..18
  PROVE  /\ 2^k \in Int
         /\ k = 0 => 2^k = 1
         /\ k = 1 => 2^k = 2
         /\ k = 2 => 2^k = 4
         /\ k = 3 => 2^k = 8
         /\ k >= 4 => 2^k >= 16
<1>0. CASE k = 0
  BY <1>0
<1>1. CASE k = 1
  BY <1>1
<1>2. CASE k = 2
  BY <1>2
<1>3. CASE k = 3
  BY <1>3
<1>4. CASE k = 4
  BY <1>4
<1>5. CASE k = 5
  BY <1>5
<1>6. CASE k = 6
  BY <1>6
<1>7. CASE k = 7
  BY <1>7
<1>8. CASE k = 8
  BY <1>8
<1>9. CASE k = 9
  BY <1>9
<1>10. CASE k = 10
  BY <1>10
<1>11. CASE k = 11
  BY <1>11
<1>12. CASE k = 12
  BY <1>12
<1>13. CASE k = 13
  BY <1>13
<1>14. CASE k = 14
  BY <1>14
<1>15. CASE k = 15
  BY <1>15
<1>16. CASE k = 16
  BY <1>16
<1>17. CASE k = 17
  BY <1>17
<1>18. CASE k = 18
  BY <1>18
<1> QED
  BY <1>0, <1>1, <1>2, <1>3, <1>4, <1>5, <1>6, <1>7, <1>8, <1>9,
     <1>10, <1>11, <1>12, <1>13, <1>14, <1>15, <1>16, <1>17, <1>18

(* The backoffs, in seconds: they double and stop at a quarter of an hour. *)
LEMMA Backoffs ==
  ASSUME NEW n \in 1..(MAX_CONSECUTIVE_ERRORS - 1)
  PROVE  compute_backoff(n) = CASE n = 1 -> 60
                                [] n = 2 -> 120
                                [] n = 3 -> 240
                                [] n = 4 -> 480
                                [] OTHER -> BACKOFF_MAX
<1>1. PICK k \in 0..18 : k = n - 1
  BY DEF MAX_CONSECUTIVE_ERRORS
<1> DEFINE power == 2^k
<1>2. /\ power \in Int
      /\ n = 1 => power = 1
      /\ n = 2 => power = 2
      /\ n = 3 => power = 4
      /\ n = 4 => power = 8
      /\ n >= 5 => power >= 16
  <2>1. /\ n = 1 => k = 0
        /\ n = 2 => k = 1
        /\ n = 3 => k = 2
        /\ n = 4 => k = 3
        /\ n >= 5 => k >= 4
    BY <1>1
  <2> QED
    BY <2>1, Powers, Zenon
<1>3. compute_backoff(n) = Min({60 * power, 900})
  BY <1>1, ZenonT(30) DEF compute_backoff, BACKOFF_BASE, BACKOFF_MAX
<1> HIDE DEF power
<1>4. 60 * power \in Int
  BY <1>2
<1>5. compute_backoff(n) = IF 60 * power <= 900 THEN 60 * power ELSE 900
  BY <1>3, <1>4, MinOfTwo
<1> QED
  BY <1>1, <1>2, <1>5 DEF BACKOFF_MAX

(* One backoff more adds to the time slept, and is a bounded sleep.        *)
LEMMA SleptGrows ==
  ASSUME NEW n \in 1..(MAX_CONSECUTIVE_ERRORS - 1)
  PROVE  /\ compute_backoff(n) \in Nat /\ compute_backoff(n) <= BACKOFF_MAX
         /\ Slept(n - 1) \in Nat
         /\ Slept(n) = Slept(n - 1) + compute_backoff(n)
  BY Backoffs DEF Slept, BACKOFF_MAX, MAX_CONSECUTIVE_ERRORS

(* The shortest interval of a nonempty set of trips is one of the four.    *)
LEMMA NearestIsInterval ==
  ASSUME under_way # {}, NEW secs
  PROVE  Min({PollInterval(secs[t]) : t \in under_way})
           \in {DEFAULT_SLEEP, 300, 600, 1800}
<1> DEFINE S == {PollInterval(secs[t]) : t \in under_way}
<1>1. S \subseteq {60, 300, 600, 1800}
  BY DEF PollInterval, DEFAULT_SLEEP
<1>2. \E x \in S : TRUE
  <2>1. PICK t \in under_way : TRUE
    OBVIOUS
  <2>2. PollInterval(secs[t]) \in S
    BY <2>1
  <2> QED
    BY <2>2
<1> HIDE DEF S
<1>3. \E x \in S : \A y \in S : x <= y
  <2>1. CASE 60 \in S
    BY <1>1, <2>1
  <2>2. CASE 60 \notin S /\ 300 \in S
    BY <1>1, <2>2
  <2>3. CASE 60 \notin S /\ 300 \notin S /\ 600 \in S
    BY <1>1, <2>3
  <2>4. CASE 60 \notin S /\ 300 \notin S /\ 600 \notin S
    <3>1. \A y \in S : y = 1800
      BY <1>1, <2>4
    <3> QED
      BY <1>2, <3>1
  <2> QED
    BY <2>1, <2>2, <2>3, <2>4
<1>4. Min(S) \in S
  BY <1>3 DEF Min
<1> QED
  BY <1>1, <1>4 DEF S, DEFAULT_SLEEP

-----------------------------------------------------------------------------
LEMMA InitLoop == LoopInit => LoopInv
  BY LoopAssumption
     DEF LoopInit, LoopInv, LoopTypeOK, LastedPart, WaitPart, WaitBounded,
         Points, BACKOFF_MAX, DEFAULT_SLEEP, MAX_CONSECUTIVE_ERRORS, Slept

(* The except branch, wherever it is reached from.                         *)
LEMMA ErrorKeeps ==
  ASSUME LoopInv, at \in {"check", "process"}, Error
  PROVE  LoopInv'
<1> USE DEF MAX_CONSECUTIVE_ERRORS
<1> DEFINE n == consecutive_errors + 1
<1>1. /\ consecutive_errors \in 0..19 /\ n \in 1..20
      /\ failing \in Nat /\ failing >= Slept(n - 1)
      /\ consecutive_errors' = n /\ failing' = failing
      /\ faults' \in 0..MaxFaults /\ nearest' = 0 /\ batch' = {}
      /\ under_way' = under_way /\ served' = served
  BY LoopAssumption DEF LoopInv, LoopTypeOK, LastedPart, Error
<1>2. CASE n = 20
  <2>1. at' = "stopped" /\ wait' = 0
    BY <1>1, <1>2 DEF Error
  <2> QED
    BY <1>1, <1>2, <2>1
       DEF LoopInv, LoopTypeOK, LastedPart, WaitPart, WaitBounded, Points,
           BACKOFF_MAX, DEFAULT_SLEEP
<1>3. CASE n # 20
  <2>1. at' = "sleep" /\ wait' = compute_backoff(n) /\ n \in 1..19
    BY <1>1, <1>3 DEF Error
  <2>2. wait' \in Nat /\ wait' <= BACKOFF_MAX
    BY <2>1, SleptGrows
  <2> QED
    BY <1>1, <2>1, <2>2
       DEF LoopInv, LoopTypeOK, LastedPart, WaitPart, WaitBounded, Points
<1> QED
  BY <1>2, <1>3

(* A sleep adds to the time slept since the last good tick.                *)
LEMMA SleepKeeps ==
  ASSUME LoopInv, Pause
  PROVE  LoopInv'
<1> USE DEF MAX_CONSECUTIVE_ERRORS
<1>1. /\ at = "sleep" /\ at' = "check" /\ wait' = 0 /\ nearest' = 0
      /\ consecutive_errors \in 0..19 /\ failing \in Nat /\ wait \in Nat
      /\ UNCHANGED <<consecutive_errors, batch, under_way, served, faults>>
  BY DEF LoopInv, LoopTypeOK, LastedPart, Pause
<1>2. failing' \in Nat /\ failing' >= Slept(consecutive_errors)
  <2>1. CASE consecutive_errors = 0
    BY <1>1, <2>1 DEF Pause, Slept
  <2>2. CASE consecutive_errors \in 1..19
    <3>1. failing >= Slept(consecutive_errors - 1)
          /\ wait = compute_backoff(consecutive_errors)
      BY <1>1, <2>2 DEF LoopInv, LastedPart
    <3>2. failing' = failing + wait
      BY <2>2 DEF Pause
    <3> QED
      BY <1>1, <2>2, <3>1, <3>2, SleptGrows
  <2> QED
    BY <1>1, <2>1, <2>2
<1> QED
  BY <1>1, <1>2
     DEF LoopInv, LoopTypeOK, LastedPart, WaitPart, WaitBounded, Points,
         BACKOFF_MAX, DEFAULT_SLEEP

(* The query: the sleep it plans is a minute at the most.                  *)
LEMMA QueryKeeps ==
  ASSUME LoopInv, QueryEmpty \/ QueryLoads
  PROVE  LoopInv'
<1> USE DEF MAX_CONSECUTIVE_ERRORS
<1>1. CASE QueryEmpty
  BY <1>1 DEF QueryEmpty, Succeed, LoopInv, LoopTypeOK, LastedPart, WaitPart,
              WaitBounded, Points, BACKOFF_MAX, DEFAULT_SLEEP
<1>2. CASE QueryLoads
  <2>1. /\ at = "check" /\ under_way # {} /\ at' = "process"
        /\ batch' = under_way /\ served' = NoTrip
        /\ UNCHANGED <<consecutive_errors, under_way, failing, faults>>
    BY <1>2 DEF QueryLoads
  <2>2. nearest' \in Nat /\ nearest' >= DEFAULT_SLEEP
    BY <1>2, <2>1, NearestIsInterval DEF QueryLoads, DEFAULT_SLEEP
  <2>3. wait' = DEFAULT_SLEEP
    BY <1>2, <2>2, MinOfTwo DEF QueryLoads, DEFAULT_SLEEP
  <2> QED
    BY <2>1, <2>2, <2>3
       DEF LoopInv, LoopTypeOK, LastedPart, WaitPart, WaitBounded, Points,
           BACKOFF_MAX, DEFAULT_SLEEP
<1> QED
  BY <1>1, <1>2

(* The invariant is inductive.                                             *)
LEMMA NextLoop ==
  ASSUME LoopInv, [LoopNext]_loopVars
  PROVE  LoopInv'
<1> USE LoopAssumption
    DEF LoopInv, LoopTypeOK, LastedPart, WaitPart, WaitBounded
<1>1. CASE Startup
  BY <1>1 DEF Startup, Points, Slept, MAX_CONSECUTIVE_ERRORS
<1>2. CASE QueryEmpty \/ QueryLoads
  BY <1>2, QueryKeeps
<1>3. CASE TickDone
  BY <1>3 DEF TickDone, Succeed, Points, MAX_CONSECUTIVE_ERRORS
<1>4. CASE Pause
  BY <1>4, SleepKeeps
<1>5. CASE QueryFails \/ SessionLost
  BY <1>5, ErrorKeeps DEF QueryFails, SessionLost
<1>6. CASE Redeploy
  BY <1>6 DEF Redeploy, Points, BACKOFF_MAX, DEFAULT_SLEEP,
              MAX_CONSECUTIVE_ERRORS
<1>7. ASSUME NEW t \in Trips, Process(t) \/ ProcessRaises(t)
      PROVE  LoopInv'
  BY <1>7 DEF Process, ProcessRaises
<1>8. ASSUME NEW t \in Trips, TripStarts(t) \/ TripEnds(t)
      PROVE  LoopInv'
  BY <1>8 DEF TripStarts, TripEnds
<1>9. CASE UNCHANGED loopVars
  BY <1>9 DEF loopVars
<1> QED
  BY <1>1, <1>2, <1>3, <1>4, <1>5, <1>6, <1>7, <1>8, <1>9
     DEF LoopNext, LoopStep, LoopFault

LEMMA LoopInductive == LoopSpec => []LoopInv
  BY InitLoop, NextLoop, PTL DEF LoopSpec

-----------------------------------------------------------------------------
(* The counters of the loop stay in their ranges; in particular the count  *)
(* of errors never passes the limit (polling_agent.py:707).                *)
THEOREM LoopTypes == LoopSpec => []LoopTypeOK
<1>1. LoopInv => LoopTypeOK
  BY DEF LoopInv
<1> QED
  BY <1>1, LoopInductive, PTL

(* The loop gives up only after four hours without a good tick             *)
(* (polling_agent.py:57): the nineteen backoffs before the error that      *)
(* stops it add up to them, however many errors came before a good tick.   *)
THEOREM GivesUpAfterFourHours == LoopSpec => []StopsAfterFourHours
<1>1. LoopInv => StopsAfterFourHours
  BY DEF LoopInv, LastedPart, StopsAfterFourHours, Slept, HOUR,
         MAX_CONSECUTIVE_ERRORS
<1> QED
  BY <1>1, LoopInductive, PTL

(* No sleep is longer than a quarter of an hour, and none is longer than a *)
(* minute while the ticks go well.                                         *)
THEOREM WaitsAreBounded == LoopSpec => []WaitBounded
<1>1. LoopInv => WaitBounded
  BY DEF LoopInv, WaitPart
<1> QED
  BY <1>1, LoopInductive, PTL
=============================================================================
