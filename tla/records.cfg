\* A lead, a task, or two quotes of a lead (one a revision of the other or both
\* new), moved by two requests at a time; a call may fail.
SPECIFICATION Spec
CONSTANTS
  Leads = {l1}
  Tasks = {t1}
  Quotes = {q1, q2}
  Requests = {r1, r2}
  NoRecord = NoRecord
  LeadTargets = {"CONTACTED", "LOST"}
  MaxVersion <- MCMaxVersion
  MaxFailures = 1
ACTION_CONSTRAINT StaysOneKind
SYMMETRY MCSymmetry
INVARIANTS
  TypeOK
  StaleReadIsRefused
  ReasonOnlyOfLost
  TrailLeadsToStatus
PROPERTIES
  ImplementsRecordBook
