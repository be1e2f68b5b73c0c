--------------------------- MODULE MCVehicleSales ---------------------------
(***************************************************************************)
(* Instances of VehicleSales for TLC: one vehicle, the quotes for it, and  *)
(* two or three requests at a time.                                        *)
(***************************************************************************)
EXTENDS VehicleSalesRefinement, VehicleSalesClaims, TLC

MCQuoteVehicle == [q \in Quotes |-> CHOOSE v \in Vehicles : TRUE]
MCSalePrice == [q \in Quotes |-> 2]
MCStocked == [v \in Vehicles |-> "stocked"]
MCNew == [v \in Vehicles |-> "new"]

\* Requests of one kind are interchangeable; so are the quotes for one vehicle.
MCSymmetry == Permutations(Requests) \cup Permutations(Quotes)
=============================================================================
