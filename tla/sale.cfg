\* Two quotes for one stocked vehicle, two requests at a time, a manager who
\* reserves and releases the vehicle, clients that may repeat a status.
SPECIFICATION Spec
CONSTANTS
  Vehicles = {v1}
  Quotes = {q1, q2}
  Requests = {r1, r2}
  QuoteVehicle <- MCQuoteVehicle
  SalePrice <- MCSalePrice
  Fleet <- MCStocked
  Amounts = {1}
  VehicleTargets = {"AVAILABLE", "RESERVED"}
  Resend = TRUE
  NoQuote = NoQuote
  NoVehicle = NoVehicle
  MaxStaleness = 1
  MaxDealVersion = 2
  MaxVehicleVersion = 6
  MaxPaid = 0
  MaxFailures = 0
SYMMETRY MCSymmetry
INVARIANTS
  TypeOK
  NoDoubleSale
  StaleReadIsRefused
  LockedRowIsAsChecked
PROPERTIES
  DealMovesListed
  VersionedBeforeIsTrue
