------------------------- MODULE VehicleSalesClaims -------------------------
(***************************************************************************)
(* Statements the repository makes about vehicles and deals that the code  *)
(* does not keep.  Each is refuted by a run of its own.                    *)
(***************************************************************************)
EXTENDS VehicleSales

\* "rejects any transition out of a terminal status" (vehicle-status.spec.ts): a
\* vehicle returned to its supplier, cancelled or delivered stays so.
TerminalVehicleStays ==
  [][\A v \in Vehicles :
       vehicle[v].status \in {"RETURNED_TO_SUPPLIER", "CANCELLED", "DELIVERED"}
         => vehicle'[v].status = vehicle[v].status]_vars

\* "rejects any change once CANCELLED (final)" (deal-status.spec.ts): a request on
\* a cancelled deal does not move a vehicle that another deal has been given.
CancelledDealIsFinal ==
  [][\A q \in Quotes, r \in Requests :
       ( /\ deal[q].status = "CANCELLED"
         /\ At(r, "syncWrite") /\ req[r].quote = q /\ req'[r] # req[r]
         /\ \E p \in DealsOf(QuoteVehicle[q]) : Active(deal[p]) )
       => vehicle'[QuoteVehicle[q]].status = vehicle[QuoteVehicle[q]].status]_vars

=============================================================================
