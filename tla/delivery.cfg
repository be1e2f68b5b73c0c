\* Two quotes up to delivery, with payments in parts; the vehicle may be reserved
\* by hand, and the client is the shipped one.
SPECIFICATION Spec
CONSTANTS
  Vehicles = {v1}
  Quotes = {q1, q2}
  Requests = {r1, r2}
  QuoteVehicle <- MCQuoteVehicle
  SalePrice <- MCSalePrice
  Fleet <- MCStocked
  Amounts = {1}
  VehicleTargets = {"RESERVED"}
  Resend = FALSE
  NoQuote = NoQuote
  NoVehicle = NoVehicle
  MaxStaleness = 0
  MaxDealVersion = 6
  MaxVehicleVersion = 5
  MaxPaid = 2
  MaxFailures = 0
SYMMETRY MCSymmetry
INVARIANTS
  DeliveredIsPaid
  VehicleMirrorsDeal
PROPERTIES
  ImplementsLedger
  EventBeforeIsTrue
