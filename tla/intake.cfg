\* A new vehicle through its whole life by the vehicles page, with one quote,
\* and a database call that fails; every request ends, under the fairness of the
\* event loop and the lock queue (liveness: no symmetry).
SPECIFICATION FairSpec
CONSTANTS
  Vehicles = {v1}
  Quotes = {q1}
  Requests = {r1, r2}
  QuoteVehicle <- MCQuoteVehicle
  SalePrice <- MCSalePrice
  Fleet <- MCNew
  Amounts = {1}
  VehicleTargets = {"INTAKE", "RECONDITIONING", "AVAILABLE", "RESERVED", "IN_DEAL", "SOLD", "DELIVERED", "CANCELLED", "RETURNED_TO_SUPPLIER"}
  Resend = TRUE
  NoQuote = NoQuote
  NoVehicle = NoVehicle
  MaxStaleness = 1
  MaxDealVersion = 2
  MaxVehicleVersion = 5
  MaxPaid = 0
  MaxFailures = 1
INVARIANTS
  StockIsPriced
  DealAuditBalance
  VehicleEventBalance
PROPERTIES
  EveryRequestEnds
