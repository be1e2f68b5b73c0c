----------------------------- MODULE DealStatus -----------------------------
(***************************************************************************)
(* The deal status graph of backend/src/deals/deal-status.ts, the rule     *)
(* that blocks an unpaid delivery, and the vehicle status that follows a   *)
(* deal status (the table at the top of deals.service.ts).                 *)
(***************************************************************************)
EXTENDS Integers

DealStatuses == {"DRAFT", "PENDING_APPROVAL", "SIGNED", "PAID",
                 "READY_FOR_DELIVERY", "DELIVERED", "CANCELLED"}

\* The statuses a deal can still be cancelled from.
OpenDealStatuses == DealStatuses \ {"DELIVERED", "CANCELLED"}

\* ALLOWED_TRANSITIONS, as a set of <<from, to>> pairs.
DealTransitions ==
  {<<"DRAFT", "PENDING_APPROVAL">>, <<"PENDING_APPROVAL", "SIGNED">>,
   <<"SIGNED", "PAID">>, <<"PAID", "READY_FOR_DELIVERY">>,
   <<"READY_FOR_DELIVERY", "DELIVERED">>}
  \cup (OpenDealStatuses \X {"CANCELLED"})

\* Mutant: the payment check only asks that something was paid.
PaidSomething(total, price) == total > 0

\* DeliveryBlockedError is thrown when this fails.
PaidInFull(total, price) == total >= price

\* assertValidDealTransition returns without throwing: re-sending the current
\* status is accepted before any other check.
ValidDealTransition(from, to, total, price) ==
  \/ from = to
  \/ /\ <<from, to>> \in DealTransitions
     /\ to = "DELIVERED" => PaidInFull(total, price)

\* VEHICLE_STATUS_FOR_DEAL_STATUS: the deal statuses that move the vehicle, and
\* where they move it.
SyncedDealStatuses == {"PAID", "DELIVERED", "CANCELLED"}
VehicleStatusFor(dealStatus) ==
  CASE dealStatus = "PAID" -> "SOLD"
    [] dealStatus = "DELIVERED" -> "DELIVERED"
    [] dealStatus = "CANCELLED" -> "AVAILABLE"

\* VEHICLE_ELIGIBLE_STATUSES: a deal may be opened on a vehicle in one of these.
EligibleForDeal == {"AVAILABLE", "RESERVED"}

=============================================================================
