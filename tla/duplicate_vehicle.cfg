\* schema.prisma:136: a plate or VIN names one vehicle.
SPECIFICATION Spec
CONSTANTS
  Ids = {i1, i2}
  Files = {f1, f2}
  Requests = {r1, r2}
  Plates = {p1}
  Vins = {vin1}
  Phones = {tel1}
  Emails = {owner}
  OwnerEmail = owner
  Subjects = {deal, lead}
  Null = null
  MaxFailures = 0
SYMMETRY Symmetry
INVARIANTS
  VehicleListedOnce
