--------------------------- MODULE VehicleStatus ---------------------------
(***************************************************************************)
(* The vehicle status graph of backend/src/vehicles/vehicle-status.ts: a   *)
(* relation of listed moves, and the check every caller makes before it    *)
(* writes a vehicle's status.                                              *)
(***************************************************************************)

VehicleStatuses == {"CANDIDATE", "INTAKE", "RECONDITIONING", "AVAILABLE",
                    "RESERVED", "IN_DEAL", "SOLD", "DELIVERED", "CANCELLED",
                    "RETURNED_TO_SUPPLIER"}

\* ALLOWED_TRANSITIONS, as a set of <<from, to>> pairs.
VehicleTransitions ==
  {<<"CANDIDATE", "INTAKE">>, <<"CANDIDATE", "CANCELLED">>,
   <<"INTAKE", "RECONDITIONING">>, <<"INTAKE", "CANCELLED">>}
  \cup ({"RECONDITIONING"} \X {"AVAILABLE", "CANCELLED", "RETURNED_TO_SUPPLIER"})
  \cup ({"AVAILABLE"} \X {"RESERVED", "CANCELLED", "RETURNED_TO_SUPPLIER"})
  \cup ({"RESERVED"} \X {"AVAILABLE", "IN_DEAL"})
  \cup ({"IN_DEAL"} \X {"SOLD", "AVAILABLE"})
  \cup ({"SOLD"} \X {"DELIVERED", "AVAILABLE"})

\* A status may always be written over itself; any other move must be listed
\* (otherwise InvalidVehicleTransitionError).
ListedVehicleMove(from, to) == from = to \/ <<from, to>> \in VehicleTransitions

\* Mutant: the mandatory-field rule is forgotten.
NeverMissesListPrice(from, to, hasPrice) == FALSE

\* MissingListPriceError: a listed, real move into AVAILABLE without a price.
MissesListPrice(from, to, hasPrice) ==
  from # to /\ to = "AVAILABLE" /\ ~hasPrice

\* assertValidVehicleTransition returns without throwing.
ValidVehicleTransition(from, to, hasPrice) ==
  ListedVehicleMove(from, to) /\ ~MissesListPrice(from, to, hasPrice)

=============================================================================
