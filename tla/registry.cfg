\* Rows that are only added: three rows, two files, two requests, two failures.
SPECIFICATION Spec
CONSTANTS
  Ids = {i1, i2, i3}
  Files = {f1, f2}
  Requests = {r1, r2}
  Plates = {p1}
  Vins = {vin1}
  Phones = {tel1}
  Emails = {owner}
  OwnerEmail = owner
  Subjects = {deal, lead}
  Null = null
  MaxFailures = 2
SYMMETRY Symmetry
INVARIANTS
  TypeOK
  EmailNamesOneUser
  OnlyOverlapDoubles
  DocumentHasItsFile
  OrphansComeFromFailures
  VersionIsDepth
  UnrecordedComeFromFailures
