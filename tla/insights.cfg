\* Two vehicles, a lead and a deal move while two requests recompute and report.
SPECIFICATION Spec
CONSTANTS
  v1 = v1
  v2 = v2
  Vehicles = {v1, v2}
  Leads = {l1}
  Deals = {d1}
  Requests = {r1, r2}
  CarOf <- MCCarOf
  PreferenceChoices <- MCPreferences
  Prices = {17, 31, 33}
  LeadTargets = {"CONTACTED", "WON", "LOST"}
  Fleet <- MCFleet
  MaxWrites = 3
  Null = null
CONSTRAINT OneReport
SYMMETRY Symmetry
INVARIANTS
  TypeOK
  MatchExplainsItself
  MatchesAreOfOffers
PROPERTIES
  RecomputeIsNotLost
  NearerPriceFitsNoWorse
  ReportSkewIsBounded
