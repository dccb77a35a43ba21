--------------------------- MODULE MCTripAssembly ---------------------------
(***************************************************************************)
(* The trip's making on the instance MCServices has for it, by itself.     *)
(***************************************************************************)
EXTENDS TripAssembly, PartInstances
=============================================================================
