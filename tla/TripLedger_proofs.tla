------------------------- MODULE TripLedger_proofs -------------------------
(***************************************************************************)
(* The count of the ledger is exact, for any trips and any users.          *)
(***************************************************************************)
EXTENDS TripLedger, FiniteSetTheorems, TLAPS

(* A trip that is tracked belongs to a user: the inductive part that       *)
(* CountExact lacks, with the types.                                       *)
TrackedIsOwned == \A t \in Trips : phase[t] \notin Untracked => owner[t] \in Users

LedgerInv == LedgerTypeOK /\ TrackedIsOwned /\ CountExact

(* The statuses a trip passes through while it is under way are not those  *)
(* of an untracked trip, and moving forward never leaves them.             *)
LEMMA PhaseSets ==
  /\ MONITORABLE_STATUSES \subseteq Statuses
  /\ UNTRACKABLE_STATUSES \subseteq Statuses
  /\ "active" \in Statuses /\ "active" \notin Untracked
  /\ "created" \in Statuses /\ "created" \in Untracked
  /\ "draft" \in Statuses /\ "draft" \in Untracked
  /\ "absent" \in Untracked
  /\ TRACKABLE_STATUSES \subseteq Untracked
  /\ \A s \in MONITORABLE_STATUSES \union UNTRACKABLE_STATUSES : s \notin Untracked
  /\ \A s : \A n \in Successors(s) : n \in Statuses /\ n \notin Untracked
  BY DEF MONITORABLE_STATUSES, UNTRACKABLE_STATUSES, Statuses, Untracked,
         TRACKABLE_STATUSES, Successors

(* TrackedBy is a set of trips, so it can be counted.                      *)
LEMMA TrackedFinite ==
  ASSUME LedgerAssumption, NEW u \in Users
  PROVE  IsFiniteSet(TrackedBy(u)) /\ Cardinality(TrackedBy(u)) \in Nat
<1>1. TrackedBy(u) \in SUBSET Trips
  BY DEF TrackedBy
<1> QED
  BY <1>1, FS_Subset, FS_CardinalityType DEF LedgerAssumption

(* Nothing is tracked and nobody charged at first.                         *)
LEMMA LedgerInitInv == LedgerInit => LedgerInv
<1> SUFFICES ASSUME LedgerInit PROVE LedgerInv
  OBVIOUS
<1>1. LedgerTypeOK /\ TrackedIsOwned
  BY PhaseSets DEF LedgerInit, LedgerTypeOK, TrackedIsOwned
<1>2. ASSUME NEW u \in Users PROVE charged[u] = Cardinality(TrackedBy(u))
  <2>1. TrackedBy(u) = {}
    BY PhaseSets DEF LedgerInit, TrackedBy
  <2> QED
    BY <2>1, FS_EmptySet DEF LedgerInit
<1> QED
  BY <1>1, <1>2 DEF LedgerInv, CountExact

(* A step that leaves charged and every TrackedBy(u) alone keeps the count. *)
LEMMA SameTracked ==
  ASSUME CountExact, UNCHANGED charged,
         \A u \in Users : TrackedBy(u)' = TrackedBy(u)
  PROVE  CountExact'
  BY DEF CountExact

(* Each one-step handler keeps the exact counts.                           *)
LEMMA LedgerStep ==
  LedgerAssumption /\ LedgerInv /\ [LedgerNext]_ledgerVars => LedgerInv'
<1> SUFFICES ASSUME LedgerAssumption, LedgerInv, [LedgerNext]_ledgerVars
             PROVE  LedgerInv'
  OBVIOUS
<1> USE DEF LedgerInv
<1>1. ASSUME NEW t \in Trips, Post(t) PROVE LedgerInv'
  <2>1. LedgerTypeOK' /\ TrackedIsOwned'
    BY <1>1, PhaseSets DEF Post, LedgerTypeOK, TrackedIsOwned
  <2>2. ASSUME NEW u \in Users PROVE TrackedBy(u)' = TrackedBy(u)
    BY <1>1, PhaseSets DEF Post, LedgerTypeOK, TrackedBy
  <2>3. CountExact'
    BY <1>1, <2>2, SameTracked DEF Post
  <2> QED
    BY <2>1, <2>3
<1>2. ASSUME NEW t \in Trips, Advance(t) PROVE LedgerInv'
  <2>1. LedgerTypeOK' /\ TrackedIsOwned'
    BY <1>2, PhaseSets DEF Advance, LedgerTypeOK, TrackedIsOwned
  <2>2. ASSUME NEW u \in Users PROVE TrackedBy(u)' = TrackedBy(u)
    BY <1>2, PhaseSets DEF Advance, LedgerTypeOK, TrackedBy
  <2>3. CountExact'
    BY <1>2, <2>2, SameTracked DEF Advance
  <2> QED
    BY <2>1, <2>3
<1>3. ASSUME NEW t \in Trips, NEW u \in Users, Track(t, u) PROVE LedgerInv'
  <2>1. LedgerTypeOK' /\ TrackedIsOwned'
    BY <1>3, PhaseSets DEF Track, LedgerTypeOK, TrackedIsOwned
  <2>2. ASSUME NEW v \in Users PROVE charged'[v] = Cardinality(TrackedBy(v)')
    <3>1. CASE v = u
      <4>1. TrackedBy(u)' = TrackedBy(u) \union {t} /\ t \notin TrackedBy(u)
        BY <1>3, PhaseSets DEF Track, LedgerTypeOK, TrackedBy
      <4>2. Cardinality(TrackedBy(u)') = Cardinality(TrackedBy(u)) + 1
        BY <4>1, TrackedFinite, FS_AddElement
      <4> QED
        BY <1>3, <3>1, <4>2 DEF Track, LedgerTypeOK, CountExact
    <3>2. CASE v # u
      <4>1. TrackedBy(v)' = TrackedBy(v)
        BY <1>3, <3>2, PhaseSets
        DEF Track, LedgerTypeOK, TrackedBy
      <4> QED
        BY <1>3, <3>2, <4>1 DEF Track, LedgerTypeOK, CountExact
    <3> QED
      BY <3>1, <3>2
  <2> QED
    BY <2>1, <2>2 DEF CountExact
<1>4. ASSUME NEW t \in Trips, NEW u \in Users, Untrack(t, u) PROVE LedgerInv'
  <2>1. LedgerTypeOK' /\ TrackedIsOwned'
    BY <1>4, PhaseSets DEF Untrack, LedgerTypeOK, TrackedIsOwned
  <2>2. ASSUME NEW v \in Users PROVE charged'[v] = Cardinality(TrackedBy(v)')
    <3>1. CASE v = u
      <4>1. TrackedBy(u)' = TrackedBy(u) \ {t} /\ t \in TrackedBy(u)
        BY <1>4, PhaseSets DEF Untrack, LedgerTypeOK, TrackedBy
      <4>2. Cardinality(TrackedBy(u)') = Cardinality(TrackedBy(u)) - 1
        BY <4>1, TrackedFinite, FS_RemoveElement
      <4>3. Cardinality(TrackedBy(u)) # 0
        BY <4>1, TrackedFinite, FS_EmptySet
      <4>4. charged[u] = Cardinality(TrackedBy(u)) /\ charged[u] > 0
        BY <4>3, TrackedFinite DEF CountExact
      <4> QED
        BY <1>4, <3>1, <4>2, <4>4 DEF Untrack, LedgerTypeOK
    <3>2. CASE v # u
      <4>1. TrackedBy(v)' = TrackedBy(v)
        BY <1>4, <3>2, PhaseSets DEF Untrack, LedgerTypeOK, TrackedBy
      <4> QED
        BY <1>4, <3>2, <4>1 DEF Untrack, LedgerTypeOK, CountExact
    <3> QED
      BY <3>1, <3>2
  <2> QED
    BY <2>1, <2>2 DEF CountExact
<1>5. CASE UNCHANGED ledgerVars
  BY <1>5 DEF ledgerVars, LedgerTypeOK, TrackedIsOwned, CountExact, TrackedBy
<1> QED
  BY <1>1, <1>2, <1>3, <1>4, <1>5 DEF LedgerNext

(* The count a user is charged is exact in every state of the ledger: the  *)
(* refund of untrack_trip never meets its floor of 0.                      *)
THEOREM LedgerCountExact ==
  ASSUME LedgerAssumption
  PROVE  LedgerSpec => []CountExact
<1>1. LedgerInv => CountExact
  BY DEF LedgerInv
<1>2. LedgerInv /\ [LedgerNext]_ledgerVars => LedgerInv'
  BY LedgerStep
<1> QED
  BY <1>1, <1>2, LedgerInitInv, PTL DEF LedgerSpec
=============================================================================
