----------------------- MODULE VehicleSalesRefinement -----------------------
(***************************************************************************)
(* VehicleSales implements SalesLedger: hide the requests, the versions,   *)
(* the vehicles and the history, and keep what is committed of a deal.     *)
(***************************************************************************)
EXTENDS VehicleSales

DealStatusOf == [q \in Quotes |-> deal[q].status]
PaidFor == [q \in Quotes |-> paid[q].total]

Ledger == INSTANCE SalesLedger WITH status <- DealStatusOf, received <- PaidFor

\* Seen through its committed rows, the backend makes only ledger steps: reads,
\* conflicts, rollbacks, repeated statuses and history writes are stutters, and
\* the check-then-write of create and updateStatus acts as one atomic step.
ImplementsLedger == Ledger!Spec

=============================================================================
