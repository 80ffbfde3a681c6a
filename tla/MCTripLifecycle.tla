-------------------------- MODULE MCTripLifecycle --------------------------
(* TLC's instances of TripLifecycle: the cfg files give the constants.     *)
EXTENDS TripLifecycle, TLC

(* Requests, and trips, are interchangeable in the specification and in    *)
(* the properties of the runs that use these sets.                         *)
RequestSymmetry == Permutations(Requests)
TripRequestSymmetry == Permutations(Trips) \union Permutations(Requests)
=============================================================================
