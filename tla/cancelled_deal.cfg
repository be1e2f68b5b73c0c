\* CANCELLED is sent again for a deal that is already cancelled.
SPECIFICATION Spec
CONSTANTS
  Vehicles = {v1}
  Quotes = {q1, q2}
  Requests = {r1, r2}
  QuoteVehicle <- MCQuoteVehicle
  SalePrice <- MCSalePrice
  Fleet <- MCStocked
  Amounts = {1}
  VehicleTargets = {}
  Resend = TRUE
  NoQuote = NoQuote
  NoVehicle = NoVehicle
  MaxStaleness = 1
  MaxDealVersion = 2
  MaxVehicleVersion = 1
  MaxPaid = 0
  MaxFailures = 0
SYMMETRY MCSymmetry
PROPERTIES
  CancelledDealIsFinal
