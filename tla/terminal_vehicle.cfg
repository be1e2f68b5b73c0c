\* A cancellation overtakes a vehicle's return to its supplier.
SPECIFICATION Spec
CONSTANTS
  Vehicles = {v1}
  Quotes = {q1}
  Requests = {r1, r2}
  QuoteVehicle <- MCQuoteVehicle
  SalePrice <- MCSalePrice
  Fleet <- MCStocked
  Amounts = {1}
  VehicleTargets = {"AVAILABLE", "RETURNED_TO_SUPPLIER"}
  Resend = TRUE
  NoQuote = NoQuote
  NoVehicle = NoVehicle
  MaxStaleness = 1
  MaxDealVersion = 2
  MaxVehicleVersion = 8
  MaxPaid = 0
  MaxFailures = 0
SYMMETRY MCSymmetry
PROPERTIES
  TerminalVehicleStays
