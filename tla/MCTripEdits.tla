---------------------------- MODULE MCTripEdits ----------------------------
(* TripEdits on the trip of TripInstance. *)
EXTENDS TripEdits, TripInstance
=============================================================================
