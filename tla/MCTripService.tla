---------------------------- MODULE MCTripService ----------------------------
(* TripService for TLC: the values are in the .cfg files.  Trips, drivers,  *)
(* requests and ratings are interchangeable, and every property is a safety *)
(* property, so permuting them is sound.                                    *)
EXTENDS TripService, TLC

Symmetry ==
  Permutations(Trips) \cup Permutations(Drivers) \cup Permutations(Calls)
    \cup Permutations(Stars)
==============================================================================
