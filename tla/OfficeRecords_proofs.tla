------------------------ MODULE OfficeRecords_proofs ------------------------
(***************************************************************************)
(* Safety of OfficeRecords for any number of leads, tasks, quotes and      *)
(* requests in flight, and for any number of failed calls.                 *)
(***************************************************************************)
EXTENDS OfficeRecords, FiniteSetTheorems, TLAPS

\* A request names the record its stage is about; an update in flight is a move
\* that was checked.
RequestOK(e) ==
  /\ e.stage = "revise" => e.of \in Quotes /\ Exists(e.of)
  /\ e.stage = "cas" =>
       /\ e.of \in Records /\ Exists(e.of)
       /\ e.next \in StatusesOf(e.of)
       /\ ValidMove(e.of, e.old, e.next, e.reason)
       /\ e.next # "LOST" => e.reason \in Reasons
  /\ e.stage = "audit" => e.of \in Records /\ e.next \in RecordStatuses

\* StaleReadIsRefused, of one request.
ReadOK(e) ==
  e.stage = "cas" =>
    \/ e.ver < row[e.of].version
    \/ /\ e.ver = row[e.of].version /\ e.old = row[e.of].status
       /\ e.next # "LOST" => e.reason = row[e.of].reason

IInv == /\ TypeOK
        /\ \A r \in Requests : RequestOK(req[r]) /\ ReadOK(req[r])
        /\ ReasonOnlyOfLost

-----------------------------------------------------------------------------
(* Rows *)

RowType == [status : RecordStatuses \cup {"NONE"}, version : Nat,
            reason : Reasons, supersedes : Quotes \cup {NoRecord}]

\* TypeOK, of one row.
RowOK(x) ==
  /\ Exists(x) => row[x].status \in StatusesOf(x)
  /\ Exists(x) <=> row[x].version > 0
  /\ row[x].supersedes # NoRecord =>
       x \in Quotes /\ Exists(x) /\ Exists(row[x].supersedes)

LogType == [Records -> Seq([before : RecordStatuses \cup {"NONE"}, after : RecordStatuses])]

LEMMA TypeParts ==
  TypeOK <=> /\ row \in [Records -> RowType] /\ \A x \in Records : RowOK(x)
             /\ audit \in LogType
             /\ req \in [Requests -> Request] /\ failures \in Nat
BY DEF TypeOK, RowType, RowOK, LogType

LEMMA StatusTypes ==
  /\ \A x : StatusesOf(x) \subseteq RecordStatuses
  /\ "NONE" \notin RecordStatuses
BY DEF StatusesOf, RecordStatuses, LeadStatuses, TaskStatuses, QuoteStatuses

LEMMA IdleOK == Idle \in Request /\ Idle.stage = "idle"
BY DEF Idle, Request, ReasonInputs, Reasons

LEMMA AuditingOK ==
  ASSUME NEW x \in Records, NEW old \in RecordStatuses \cup {"NONE"},
         NEW new \in RecordStatuses
  PROVE  /\ Auditing(x, old, new) \in Request
         /\ RequestOK(Auditing(x, old, new)) /\ ReadOK(Auditing(x, old, new))
BY DEF Auditing, Idle, Request, RequestOK, ReadOK, ReasonInputs, Reasons

\* Every step leaves a row alone or gives it a higher version; rows stay.
RowsGrow ==
  \A x \in Records : \/ row'[x] = row[x]
                     \/ row'[x].version > row[x].version /\ row'[x].status # "NONE"

\* What a request knows survives the steps of the others.
LEMMA Rely ==
  ASSUME TypeOK, RowsGrow, NEW e \in Request, RequestOK(e), ReadOK(e),
         row' \in [Records -> RowType]
  PROVE  RequestOK(e)' /\ ReadOK(e)'
<1>1. ASSUME e.stage = "cas" PROVE ReadOK(e)'
  <2>1. e.of \in Records
    BY <1>1 DEF RequestOK
  <2>2. e.ver \in Nat /\ row[e.of].version \in Nat /\ row'[e.of].version \in Nat
    BY <2>1, TypeParts DEF Request, RowType
  <2> QED
    BY <1>1, <2>1, <2>2 DEF ReadOK, RowsGrow
<1>2. ReadOK(e)'
  BY <1>1 DEF ReadOK
<1>3. RequestOK(e)'
  BY RecordsAssumption DEF RequestOK, RowsGrow, Exists, Records
<1> QED
  BY <1>2, <1>3

\* A step of request r keeps the requests of the invariant, if its own is sound.
LEMMA RequestsKept ==
  ASSUME IInv, RowsGrow, row' \in [Records -> RowType],
         NEW r \in Requests, NEW e \in Request, Become(r, e),
         RequestOK(e)', ReadOK(e)'
  PROVE  /\ req' \in [Requests -> Request]
         /\ \A s \in Requests : RequestOK(req[s])' /\ ReadOK(req[s])'
<1>1. req' \in [Requests -> Request] /\ req'[r] = e
  BY TypeParts DEF Become, IInv
<1>2. ASSUME NEW s \in Requests, s # r PROVE RequestOK(req[s])' /\ ReadOK(req[s])'
  <2>1. req'[s] = req[s] /\ req[s] \in Request
    BY <1>2, TypeParts DEF Become, IInv
  <2>2. RequestOK(req[s]) /\ ReadOK(req[s])
    BY DEF IInv
  <2>3. TypeOK
    BY DEF IInv
  <2> DEFINE f == req[s]
  <2>4. f \in Request /\ RequestOK(f) /\ ReadOK(f)
    BY <2>1, <2>2
  <2> HIDE DEF f
  <2>5. \A g \in Request : RequestOK(g) /\ ReadOK(g) => RequestOK(g)' /\ ReadOK(g)'
    BY <2>3, Rely
  <2> QED
    BY <2>1, <2>4, <2>5 DEF f, RequestOK, ReadOK
<1> QED
  BY <1>1, <1>2 DEF RequestOK, ReadOK

-----------------------------------------------------------------------------
(* The invariant *)

LEMMA InitInv == Init => IInv
<1> SUFFICES ASSUME Init PROVE IInv
  OBVIOUS
<1>1. row \in [Records -> RowType]
  BY DEF Init, NoRow, RowType, Reasons
<1>2. \A x \in Records : RowOK(x)
  BY DEF Init, NoRow, RowOK, Exists
<1>3. audit \in LogType
  BY DEF Init, LogType
<1>4. req \in [Requests -> Request] /\ \A r \in Requests : req[r].stage = "idle"
  BY IdleOK DEF Init
<1>5. TypeOK
  BY <1>1, <1>2, <1>3, <1>4, TypeParts DEF Init
<1>6. \A r \in Requests : RequestOK(req[r]) /\ ReadOK(req[r])
  BY <1>4 DEF RequestOK, ReadOK
<1>7. ReasonOnlyOfLost
  BY DEF Init, NoRow, ReasonOnlyOfLost
<1> QED
  BY <1>5, <1>6, <1>7 DEF IInv

\* The steps of a request that touch no row: a read, a conflict, the audit row,
\* a failed call.
LEMMA LocalStep ==
  ASSUME IInv, UNCHANGED row, audit' \in LogType, failures' \in Nat,
         NEW r \in Requests, NEW e \in Request, Become(r, e),
         RequestOK(e), ReadOK(e)
  PROVE  IInv'
<1>1. row' \in [Records -> RowType] /\ RowsGrow /\ \A x \in Records : RowOK(x)'
  BY TypeParts DEF IInv, RowsGrow, RowOK, Exists
<1>2. RequestOK(e)' /\ ReadOK(e)'
  BY DEF RequestOK, ReadOK, Exists
<1>3. /\ req' \in [Requests -> Request]
      /\ \A s \in Requests : RequestOK(req[s])' /\ ReadOK(req[s])'
  BY <1>1, <1>2, RequestsKept
<1>4. TypeOK'
  BY <1>1, <1>3 DEF TypeOK, RowType, RowOK, LogType
<1>5. ReasonOnlyOfLost'
  BY DEF IInv, ReasonOnlyOfLost
<1> QED
  BY <1>3, <1>4, <1>5 DEF IInv

\* What an insert writes.
Inserted(x, first, p) ==
  [status |-> first, version |-> 1, reason |-> "null", supersedes |-> p]

LEMMA InsertStep ==
  ASSUME IInv, NEW r \in Requests, NEW x \in Records, NEW first \in StatusesOf(x),
         NEW p \in Quotes \cup {NoRecord},
         p # NoRecord => x \in Quotes /\ Exists(p),
         Insert(r, x, first, p)
  PROVE  IInv'
<1>1. first \in RecordStatuses /\ first # "NONE"
  BY StatusTypes
<1>2. /\ row \in [Records -> RowType] /\ \A y \in Records : RowOK(y)
      /\ audit \in LogType /\ failures \in Nat
  BY TypeParts DEF IInv
<1>3. Inserted(x, first, p) \in RowType
  BY <1>1 DEF Inserted, RowType, Reasons
<1>4. /\ row' = [row EXCEPT ![x] = Inserted(x, first, p)]
      /\ row' \in [Records -> RowType]
      /\ row[x].version = 0
  BY <1>2, <1>3 DEF Insert, Inserted, RowOK, RowType
<1>5. RowsGrow
  BY <1>1, <1>2, <1>4 DEF RowsGrow, Inserted
<1>6. ASSUME NEW y \in Records PROVE RowOK(y)'
  <2>1. CASE y = x
    BY <2>1, <1>1, <1>2, <1>4, RecordsAssumption
       DEF RowOK, Inserted, Exists, StatusesOf, Records
  <2>2. CASE y # x
    <3>1. row'[y] = row[y] /\ RowOK(y)
      BY <2>2, <1>2, <1>4
    <3>2. row[y].supersedes # NoRecord => row[y].supersedes \in Records
      BY <1>2 DEF RowType, Records
    <3> QED
      BY <3>1, <3>2, <1>1, <1>4, <1>2 DEF RowOK, Inserted, Exists, StatusesOf
  <2> QED
    BY <2>1, <2>2
<1> DEFINE e == Auditing(x, "NONE", first)
<1>7. e \in Request /\ RequestOK(e)' /\ ReadOK(e)'
  BY <1>1, AuditingOK DEF Auditing, Idle, RequestOK, ReadOK
<1>8. /\ req' \in [Requests -> Request]
      /\ \A s \in Requests : RequestOK(req[s])' /\ ReadOK(req[s])'
  <2>1. Become(r, e)
    BY DEF Insert
  <2> HIDE DEF e
  <2> QED
    BY <2>1, <1>4, <1>5, <1>7, RequestsKept
<1>9. TypeOK'
  BY <1>2, <1>4, <1>6, <1>8 DEF Insert, TypeOK, RowType, RowOK, LogType
<1>10. ReasonOnlyOfLost'
  BY <1>2, <1>4 DEF IInv, ReasonOnlyOfLost, Inserted
<1> QED
  BY <1>8, <1>9, <1>10 DEF IInv

LEMMA UpdatedEffect ==
  ASSUME NEW old \in RowType, NEW s \in RecordStatuses, NEW reason \in Reasons
  PROVE  /\ Updated(old, s, reason) \in RowType
         /\ Updated(old, s, reason).status = s
         /\ Updated(old, s, reason).version = old.version + 1
         /\ Updated(old, s, reason).reason = reason
         /\ Updated(old, s, reason).supersedes = old.supersedes
BY DEF Updated, NextVersion, RowType

\* The reason an update in flight will write.
ReasonFor(e) == IF e.of \notin Leads THEN "null"
                ELSE IF e.reason = "omitted" THEN row[e.of].reason ELSE e.reason

\* An update that is not refused makes the move that was checked, on the row as
\* it is.
LEMMA WriteIsChecked ==
  ASSUME IInv, NEW r \in Requests, At(r, "cas"), Matches(req[r].of, req[r].ver)
  PROVE  LET e == req[r] x == e.of IN
         /\ x \in Records /\ Exists(x) /\ e.old = row[x].status
         /\ e.next \in StatusesOf(x) /\ ValidMove(x, row[x].status, e.next, e.reason)
         /\ ReasonFor(e) \in Reasons
         /\ e.next # "LOST" => ReasonFor(e) = row[x].reason
<1> DEFINE e == req[r]
<1>1. e \in Request /\ RequestOK(e) /\ ReadOK(e) /\ e.stage = "cas"
  BY TypeParts DEF IInv, At
<1>2. e.of \in Records /\ row[e.of] \in RowType /\ RowOK(e.of)
  BY <1>1, TypeParts DEF IInv, RequestOK
<1>3. e.old = row[e.of].status /\ (e.next # "LOST" => e.reason = row[e.of].reason)
  BY <1>1, <1>2 DEF ReadOK, Matches, RowType
<1>4. ReasonFor(e) \in Reasons
  BY <1>1, <1>2 DEF ReasonFor, Request, ReasonInputs, RowType, Reasons
<1>5. e.next # "LOST" => ReasonFor(e) = row[e.of].reason
  <2>1. CASE e.of \in Leads
    BY <2>1, <1>1, <1>2, <1>3 DEF ReasonFor
  <2>2. CASE e.of \notin Leads
    <3>1. "LOST" \notin StatusesOf(e.of) /\ row[e.of].status # "LOST"
      BY <2>2, <1>1, <1>2 DEF StatusesOf, TaskStatuses, QuoteStatuses, RequestOK, RowOK
    <3> QED
      BY <2>2, <3>1, <1>2 DEF ReasonFor, IInv, ReasonOnlyOfLost
  <2> QED
    BY <2>1, <2>2
<1> QED
  BY <1>1, <1>2, <1>3, <1>4, <1>5 DEF RequestOK

LEMMA WriteStep ==
  ASSUME IInv, NEW r \in Requests, WriteRecord(r, ReasonFor(req[r]))
  PROVE  IInv'
<1> DEFINE e == req[r]
           x == e.of
           reason == ReasonFor(e)
<1>1. /\ x \in Records /\ Exists(x) /\ e.old = row[x].status
      /\ e.next \in StatusesOf(x) /\ ValidMove(x, row[x].status, e.next, e.reason)
      /\ reason \in Reasons
      /\ e.next # "LOST" => reason = row[x].reason
  BY WriteIsChecked DEF WriteRecord
<1>2. /\ row \in [Records -> RowType] /\ \A y \in Records : RowOK(y)
      /\ audit \in LogType /\ failures \in Nat
  BY TypeParts DEF IInv
<1>3. e.next \in RecordStatuses /\ e.next # "NONE" /\ e.old \in RecordStatuses
  BY <1>1, <1>2, StatusTypes DEF RowOK
<1>4. /\ row' = [row EXCEPT ![x] = Updated(row[x], e.next, reason)]
      /\ Become(r, Auditing(x, e.old, e.next))
      /\ UNCHANGED <<audit, failures>>
  BY DEF WriteRecord
<1> HIDE DEF reason
<1>5. /\ Updated(row[x], e.next, reason) \in RowType
      /\ Updated(row[x], e.next, reason).status = e.next
      /\ Updated(row[x], e.next, reason).version = row[x].version + 1
      /\ Updated(row[x], e.next, reason).reason = reason
      /\ Updated(row[x], e.next, reason).supersedes = row[x].supersedes
  BY <1>1, <1>2, <1>3, UpdatedEffect
<1>6. /\ row' \in [Records -> RowType]
      /\ row'[x] = Updated(row[x], e.next, reason)
      /\ \A y \in Records \ {x} : row'[y] = row[y]
  BY <1>1, <1>2, <1>4, <1>5
<1>7. RowsGrow
  BY <1>1, <1>2, <1>3, <1>5, <1>6 DEF RowsGrow, RowType
<1>8. ASSUME NEW y \in Records PROVE RowOK(y)'
  <2>1. \A z \in Records : Exists(z) => Exists(z)'
    BY <1>3, <1>5, <1>6 DEF Exists
  <2>2. row'[y].supersedes = row[y].supersedes
    BY <1>5, <1>6
  <2>3. row[y].supersedes # NoRecord =>
          y \in Quotes /\ Exists(y) /\ Exists(row[y].supersedes)
          /\ row[y].supersedes \in Records
    BY <1>2 DEF RowOK, RowType, Records
  <2>4. (Exists(y) => row[y].status \in StatusesOf(y))'
        /\ (Exists(y) <=> row[y].version > 0)'
    <3>1. CASE y = x
      BY <3>1, <1>1, <1>2, <1>3, <1>5, <1>6 DEF RowOK, RowType, Exists, StatusesOf
    <3>2. CASE y # x
      BY <3>2, <1>2, <1>6 DEF RowOK, Exists, StatusesOf
    <3> QED
      BY <3>1, <3>2
  <2> QED
    BY <2>1, <2>2, <2>3, <2>4 DEF RowOK
<1>0. PICK f \in Request : f = Auditing(x, e.old, e.next)
  BY <1>1, <1>3, AuditingOK
<1>9. RequestOK(f)' /\ ReadOK(f)'
  <2>1. f.stage = "audit" /\ f.of \in Records /\ f.next \in RecordStatuses
    BY <1>0, <1>1, <1>3 DEF Auditing, Idle
  <2> QED
    BY <2>1 DEF RequestOK, ReadOK
<1>10. /\ req' \in [Requests -> Request]
       /\ \A s \in Requests : RequestOK(req[s])' /\ ReadOK(req[s])'
  <2>1. Become(r, f)
    BY <1>0, <1>4
  <2> QED
    BY <2>1, <1>6, <1>7, <1>9, RequestsKept
<1>11. TypeOK'
  BY <1>2, <1>4, <1>6, <1>8, <1>10 DEF TypeOK, RowType, RowOK, LogType
<1>12. ReasonOnlyOfLost'
  <2>1. ASSUME e.next # "LOST" PROVE row[x].reason = "null"
    <3>1. CASE row[x].status = "LOST"
      <4>1. x \in Leads
        BY <3>1, <1>1, <1>2 DEF RowOK, StatusesOf, TaskStatuses, QuoteStatuses
      <4> QED
        BY <2>1, <3>1, <4>1, <1>1, RecordsAssumption
           DEF ValidMove, ValidLeadTransition, DecidedLead
    <3>2. CASE row[x].status # "LOST"
      BY <3>2, <1>1 DEF IInv, ReasonOnlyOfLost
    <3> QED
      BY <3>1, <3>2
  <2> QED
    BY <2>1, <1>1, <1>5, <1>6 DEF IInv, ReasonOnlyOfLost
<1> QED
  BY <1>10, <1>11, <1>12 DEF IInv

\* Every action that changes a row is an insert or an update.
LEMMA Cases ==
  ASSUME IInv, NEW r \in Requests, NEW x \in Records
  PROVE  /\ CreateAny(r, x) =>
              \E first \in StatusesOf(x) :
                Book!FirstStatus(x, first) /\ Insert(r, x, first, NoRecord)
         /\ Revise(r, x) =>
              /\ x \in Quotes /\ req[r].of \in Quotes /\ Exists(req[r].of)
              /\ Insert(r, x, "DRAFT", req[r].of)
         /\ UpdateLead(r) \/ UpdateTask(r) \/ UpdateQuote(r) =>
              WriteRecord(r, ReasonFor(req[r]))
<1>1. CreateAny(r, x) => \E first \in StatusesOf(x) :
                            Book!FirstStatus(x, first) /\ Insert(r, x, first, NoRecord)
  <2>1. CASE CreateLead(r, x)
    BY <2>1 DEF CreateLead, Book!FirstStatus, StatusesOf, LeadStatuses
  <2>2. CASE CreateTask(r, x)
    BY <2>2, RecordsAssumption DEF CreateTask, Book!FirstStatus, StatusesOf, TaskStatuses
  <2>3. CASE CreateQuote(r, x)
    BY <2>3, RecordsAssumption DEF CreateQuote, Book!FirstStatus, StatusesOf, QuoteStatuses
  <2> QED
    BY <2>1, <2>2, <2>3 DEF CreateAny
<1>2. Revise(r, x) => /\ x \in Quotes /\ req[r].of \in Quotes /\ Exists(req[r].of)
                      /\ Insert(r, x, "DRAFT", req[r].of)
  BY DEF Revise, At, IInv, RequestOK
<1>3. UpdateLead(r) \/ UpdateTask(r) \/ UpdateQuote(r) =>
        WriteRecord(r, ReasonFor(req[r]))
  BY RecordsAssumption DEF UpdateLead, UpdateTask, UpdateQuote, ReasonFor
<1> QED
  BY <1>1, <1>2, <1>3

LEMMA ReadStep ==
  ASSUME IInv, NEW r \in Requests, NEW x \in Records, ReadAny(r, x)
  PROVE  IInv' /\ UNCHANGED row
<1>1. PICK ver \in ReadableVersions(x), to \in RecordStatuses, reason \in ReasonInputs :
        /\ ReadRecord(r, x, to, ver, reason)
        /\ to \in StatusesOf(x)
        /\ to # "LOST" => reason = row[x].reason
  <2>1. row[x].reason \in Reasons /\ (x \notin Leads => row[x].reason = "null")
    BY TypeParts DEF IInv, RowType, RowOK, Exists, ReasonOnlyOfLost, StatusesOf,
                     TaskStatuses, QuoteStatuses
  <2>2. PICK ver \in ReadableVersions(x) :
          \/ \E to \in LeadTargets : ReadLead(r, x, to, ver)
          \/ \E to \in TaskStatuses : ReadTask(r, x, to, ver)
          \/ \E to \in QuoteStatuses : ReadQuote(r, x, to, ver)
    BY DEF ReadAny
  <2>3. CASE \E to \in LeadTargets : ReadLead(r, x, to, ver)
    BY <2>1, <2>3, LeadTargetsAssumption
       DEF ReadLead, ReasonInputs, StatusesOf, RecordStatuses
  <2>4. CASE \E to \in TaskStatuses : ReadTask(r, x, to, ver)
    BY <2>1, <2>4, RecordsAssumption
       DEF ReadTask, ReasonInputs, Reasons, StatusesOf, RecordStatuses
  <2>5. CASE \E to \in QuoteStatuses : ReadQuote(r, x, to, ver)
    BY <2>1, <2>5, RecordsAssumption
       DEF ReadQuote, ReasonInputs, Reasons, StatusesOf, RecordStatuses
  <2> QED
    BY <2>2, <2>3, <2>4, <2>5
<1> DEFINE e == [stage |-> "cas", of |-> x, old |-> row[x].status, next |-> to,
                 ver |-> ver, reason |-> reason]
<1>2. row[x] \in RowType /\ ver \in Nat /\ ver <= row[x].version
  BY TypeParts DEF IInv, ReadableVersions, RowType
<1>3. e \in Request
  BY <1>2 DEF Request, RowType
<1>4. RequestOK(e) /\ ReadOK(e)
  BY <1>1, <1>2 DEF RequestOK, ReadOK, ReadRecord, RowType
<1>5. Become(r, e) /\ UNCHANGED <<row, audit, failures>>
  BY <1>1 DEF ReadRecord
<1>6. audit' \in LogType /\ failures' \in Nat
  BY <1>5, TypeParts DEF IInv
<1> HIDE DEF e
<1> QED
  BY <1>3, <1>4, <1>5, <1>6, LocalStep

LEMMA ReviseReadStep ==
  ASSUME IInv, NEW r \in Requests, NEW x \in Records, ReadForRevise(r, x)
  PROVE  IInv' /\ UNCHANGED row
<1> DEFINE e == [Idle EXCEPT !.stage = "revise", !.of = x, !.old = row[x].status]
<1>1. row[x].status \in RecordStatuses /\ x \in Quotes /\ Exists(x)
  BY DEF ReadForRevise, Revisable, RecordStatuses, QuoteStatuses, Exists
<1>2. e \in Request /\ RequestOK(e) /\ ReadOK(e)
  BY <1>1 DEF Idle, Request, RequestOK, ReadOK, ReasonInputs, Reasons
<1>3. Become(r, e) /\ UNCHANGED <<row, audit, failures>>
  BY DEF ReadForRevise
<1>4. audit' \in LogType /\ failures' \in Nat
  BY <1>3, TypeParts DEF IInv
<1> HIDE DEF e
<1> QED
  BY <1>2, <1>3, <1>4, LocalStep

LEMMA EndStep ==
  ASSUME IInv, NEW r \in Requests, Conflict(r) \/ Audit(r) \/ Fail(r)
  PROVE  IInv' /\ UNCHANGED row
<1>1. Become(r, Idle) /\ UNCHANGED row
  BY DEF Conflict, Audit, Fail, AfterConflict
<1>2. audit' \in LogType
  <2>1. CASE Audit(r)
    <3> DEFINE Entry == [before : RecordStatuses \cup {"NONE"}, after : RecordStatuses]
               entry == [before |-> req[r].old, after |-> req[r].next]
    <3>1. req[r].of \in Records /\ entry \in Entry
      BY <2>1, TypeParts DEF Audit, At, IInv, RequestOK, Request
    <3>2. audit \in [Records -> Seq(Entry)]
      BY TypeParts DEF IInv, LogType
    <3>3. audit' = [audit EXCEPT ![req[r].of] = Append(@, entry)]
      BY <2>1 DEF Audit
    <3> HIDE DEF Entry, entry
    <3>4. audit' \in [Records -> Seq(Entry)]
      BY <3>1, <3>2, <3>3
    <3> QED
      BY <3>4 DEF Entry, LogType
  <2>2. CASE Conflict(r) \/ Fail(r)
    BY <2>2, TypeParts DEF Conflict, Fail, IInv
  <2> QED
    BY <2>1, <2>2
<1>3. failures' \in Nat
  BY TypeParts DEF IInv, Conflict, Audit, Fail
<1>4. RequestOK(Idle) /\ ReadOK(Idle)
  BY IdleOK DEF RequestOK, ReadOK
<1> QED
  BY <1>1, <1>2, <1>3, <1>4, IdleOK, LocalStep

LEMMA NextInv == IInv /\ [Next]_vars => IInv'
<1> SUFFICES ASSUME IInv, [Next]_vars PROVE IInv'
  OBVIOUS
<1>1. CASE UNCHANGED vars
  <2>1. /\ row' = row /\ req' = req /\ audit' = audit /\ failures' = failures
    BY <1>1 DEF vars
  <2> QED
    BY <2>1 DEF IInv, TypeOK, Exists, RequestOK, ReadOK, ReasonOnlyOfLost
<1>2. CASE Next
  <2>1. PICK r \in Requests :
          \/ \E x \in Records : \/ CreateAny(r, x) \/ ReadAny(r, x)
                                \/ ReadForRevise(r, x) \/ Revise(r, x)
          \/ UpdateLead(r) \/ UpdateTask(r) \/ UpdateQuote(r)
          \/ Conflict(r) \/ Audit(r) \/ Fail(r)
    BY <1>2 DEF Next
  <2>2. ASSUME NEW x \in Records, CreateAny(r, x) PROVE IInv'
    BY <2>2, Cases, InsertStep
  <2>3. ASSUME NEW x \in Records, Revise(r, x) PROVE IInv'
    <3>1. "DRAFT" \in StatusesOf(x) /\ req[r].of \in Quotes \cup {NoRecord}
      BY <2>3, Cases, RecordsAssumption DEF StatusesOf, QuoteStatuses
    <3> QED
      BY <2>3, <3>1, Cases, InsertStep
  <2>4. ASSUME NEW x \in Records, ReadAny(r, x) PROVE IInv'
    BY <2>4, ReadStep
  <2>5. ASSUME NEW x \in Records, ReadForRevise(r, x) PROVE IInv'
    BY <2>5, ReviseReadStep
  <2>6. ASSUME UpdateLead(r) \/ UpdateTask(r) \/ UpdateQuote(r) PROVE IInv'
    BY <2>6, WriteStep, RecordsAssumption
       DEF UpdateLead, UpdateTask, UpdateQuote, ReasonFor
  <2>7. ASSUME Conflict(r) \/ Audit(r) \/ Fail(r) PROVE IInv'
    BY <2>7, EndStep
  <2> QED
    BY <2>1, <2>2, <2>3, <2>4, <2>5, <2>6, <2>7
<1> QED
  BY <1>1, <1>2

\* The invariant on which the results of this module rest.
THEOREM Invariance == Spec => []IInv
BY InitInv, NextInv, PTL DEF Spec

\* The tables, the log and the requests keep their shape.
THEOREM TypeCorrect == Spec => []TypeOK
<1>1. IInv => TypeOK
  BY DEF IInv
<1> QED
  BY <1>1, Invariance, PTL

\* What a request has read of the record it will update is true, or its update
\* will be refused.
THEOREM OptimisticLockingIsSafe == Spec => []StaleReadIsRefused
<1>1. IInv => StaleReadIsRefused
  BY DEF IInv, ReadOK, StaleReadIsRefused, At
<1> QED
  BY <1>1, Invariance, PTL

\* Only a lost lead has a loss reason.
THEOREM ReasonBelongsToLoss == Spec => []ReasonOnlyOfLost
<1>1. IInv => ReasonOnlyOfLost
  BY DEF IInv
<1> QED
  BY <1>1, Invariance, PTL

-----------------------------------------------------------------------------
(* The record book *)

LEMMA SameStatuses ==
  /\ Book!RecordStatuses = RecordStatuses /\ Book!Records = Records
  /\ \A from, to, given :
       /\ Book!ValidLeadTransition(from, to, given) <=> ValidLeadTransition(from, to, given)
       /\ Book!ValidTaskTransition(from, to) <=> ValidTaskTransition(from, to)
       /\ Book!ValidQuoteTransition(from, to) <=> ValidQuoteTransition(from, to)
BY DEF Book!RecordStatuses, RecordStatuses, Book!LeadStatuses, LeadStatuses,
       Book!TaskStatuses, TaskStatuses, Book!QuoteStatuses, QuoteStatuses,
       Book!Records, Records,
       Book!ValidLeadTransition, ValidLeadTransition, Book!DecidedLead, DecidedLead,
       Book!ValidTaskTransition, ValidTaskTransition, Book!ClosedTask, ClosedTask,
       Book!ValidQuoteTransition, ValidQuoteTransition,
       Book!QuoteTransitions, QuoteTransitions

LEMMA InsertOpens ==
  ASSUME IInv, NEW r \in Requests, NEW x \in Records, NEW first \in StatusesOf(x),
         Book!FirstStatus(x, first), NEW p \in Quotes \cup {NoRecord},
         p # NoRecord => x \in Quotes /\ Exists(p),
         Insert(r, x, first, p)
  PROVE  Book!Open(x, first, p)
<1>1. BookOf[x].status = "NONE" /\ (p # NoRecord => BookOf[p].status # "NONE")
  BY DEF BookOf, Insert, Exists, Records
<1>2. BookOf' = [BookOf EXCEPT ![x] = [status |-> first, reason |-> "null",
                                       supersedes |-> p]]
  BY TypeParts DEF IInv, BookOf, Insert, RowType
<1> QED
  BY <1>1, <1>2 DEF Book!Open

LEMMA WriteMoves ==
  ASSUME IInv, NEW r \in Requests, WriteRecord(r, ReasonFor(req[r]))
  PROVE  LET e == req[r] IN
         Book!Move(e.of, e.next) \/ Book!MoveLead(e.of, e.next, ReasonFor(e))
<1> DEFINE e == req[r]
           x == e.of
           reason == ReasonFor(e)
<1>1. /\ x \in Records /\ Exists(x)
      /\ ValidMove(x, row[x].status, e.next, e.reason)
      /\ e.next # "LOST" => reason = row[x].reason
  BY WriteIsChecked DEF WriteRecord
<1>2. BookOf' = [BookOf EXCEPT ![x] = [status |-> e.next, reason |-> reason,
                                       supersedes |-> row[x].supersedes]]
  <2>1. row \in [Records -> RowType] /\ e.next \in RecordStatuses /\ reason \in Reasons
    BY WriteIsChecked, StatusTypes, TypeParts DEF WriteRecord, IInv
  <2>2. row' = [row EXCEPT ![x] = Updated(row[x], e.next, reason)]
    BY DEF WriteRecord
  <2>3. \A y \in Records : row'[y] = IF y = x THEN Updated(row[x], e.next, reason)
                                             ELSE row[y]
    BY <2>1, <2>2, <1>1
  <2>4. /\ Updated(row[x], e.next, reason).status = e.next
        /\ Updated(row[x], e.next, reason).reason = reason
        /\ Updated(row[x], e.next, reason).supersedes = row[x].supersedes
    BY <2>1, <1>1, UpdatedEffect
  <2> HIDE DEF reason
  <2> QED
    BY <2>3, <2>4, <1>1 DEF BookOf
<1>3. BookOf[x] = [status |-> row[x].status, reason |-> row[x].reason,
                   supersedes |-> row[x].supersedes]
  BY <1>1 DEF BookOf
<1>4. CASE x \in Leads
  <2>1. ValidLeadTransition(row[x].status, e.next, e.reason = "given")
    BY <1>1, <1>4, RecordsAssumption DEF ValidMove
  <2>2. ValidLeadTransition(row[x].status, e.next, reason = "given")
    BY <1>4, <2>1 DEF ValidLeadTransition, ReasonFor
  <2> QED
    BY <1>1, <1>2, <1>3, <1>4, <2>2, SameStatuses DEF Book!MoveLead, BookOf, Exists
<1>5. CASE x \notin Leads
  <2>1. reason = row[x].reason
    BY <1>5, <1>1, WriteIsChecked, TypeParts
       DEF ReasonFor, IInv, ReasonOnlyOfLost, RowOK, StatusesOf, TaskStatuses,
           QuoteStatuses
  <2>2. BookOf' = [BookOf EXCEPT ![x].status = e.next]
    BY <1>2, <1>3, <2>1 DEF BookOf
  <2>3. \/ x \in Tasks /\ ValidTaskTransition(row[x].status, e.next)
        \/ x \in Quotes /\ ValidQuoteTransition(row[x].status, e.next)
    BY <1>1, <1>5 DEF ValidMove
  <2> QED
    BY <1>1, <1>3, <2>2, <2>3, SameStatuses DEF Book!Move, Exists
<1> QED
  BY <1>4, <1>5

LEMMA NextRefines == IInv /\ [Next]_vars => [Book!BookNext]_BookOf
<1> SUFFICES ASSUME IInv, [Next]_vars PROVE Book!BookNext \/ UNCHANGED BookOf
  OBVIOUS
<1>1. ASSUME UNCHANGED row PROVE UNCHANGED BookOf
  BY <1>1 DEF BookOf
<1>2. ASSUME NEW r \in Requests, NEW x \in Records, NEW first \in StatusesOf(x),
             NEW p \in Quotes \cup {NoRecord}, Book!Open(x, first, p)
      PROVE  Book!BookNext
  <2>1. first \in RecordStatuses
    BY StatusTypes
  <2> QED
    BY <1>2, <2>1, SameStatuses DEF Book!BookNext
<1>3. CASE Next
  <2>1. PICK r \in Requests :
          \/ \E x \in Records : \/ CreateAny(r, x) \/ ReadAny(r, x)
                                \/ ReadForRevise(r, x) \/ Revise(r, x)
          \/ UpdateLead(r) \/ UpdateTask(r) \/ UpdateQuote(r)
          \/ Conflict(r) \/ Audit(r) \/ Fail(r)
    BY <1>3 DEF Next
  <2>2. ASSUME NEW x \in Records, CreateAny(r, x) PROVE Book!BookNext
    BY <2>2, <1>2, Cases, InsertOpens
  <2>3. ASSUME NEW x \in Records, Revise(r, x) PROVE Book!BookNext
    <3>1. "DRAFT" \in StatusesOf(x) /\ Book!FirstStatus(x, "DRAFT")
      BY <2>3, Cases, RecordsAssumption DEF StatusesOf, QuoteStatuses, Book!FirstStatus
    <3> QED
      BY <2>3, <3>1, <1>2, Cases, InsertOpens
  <2>4. ASSUME UpdateLead(r) \/ UpdateTask(r) \/ UpdateQuote(r) PROVE Book!BookNext
    <3>1. WriteRecord(r, ReasonFor(req[r]))
      BY <2>4, RecordsAssumption DEF UpdateLead, UpdateTask, UpdateQuote, ReasonFor
    <3>2. /\ req[r].of \in Records /\ req[r].next \in RecordStatuses
          /\ ReasonFor(req[r]) \in Reasons
      BY <3>1, WriteIsChecked, StatusTypes DEF WriteRecord
    <3> QED
      BY <3>1, <3>2, WriteMoves, SameStatuses DEF Book!BookNext, Reasons
  <2>5. ASSUME \/ \E x \in Records : ReadAny(r, x) \/ ReadForRevise(r, x)
               \/ Conflict(r) \/ Audit(r) \/ Fail(r)
        PROVE  UNCHANGED row
    BY <2>5, ReadStep, ReviseReadStep, EndStep
  <2> QED
    BY <2>1, <2>2, <2>3, <2>4, <2>5, <1>1
<1> QED
  BY <1>1, <1>3 DEF vars

\* Leads, tasks and quotes behave as if each request were one indivisible step:
\* a decided lead and a closed task stay so, a quote follows its flow, a lead
\* gets into LOST only with a reason.
THEOREM Refinement == Spec => ImplementsRecordBook
<1>1. Init => Book!BookInit
  BY SameStatuses DEF Init, NoRow, BookOf, Book!BookInit, Book!Unopened
<1> QED
  BY <1>1, NextRefines, Invariance, PTL DEF Spec, ImplementsRecordBook, Book!BookSpec

-----------------------------------------------------------------------------
(* The audit trail *)

\* Rows of the audit log about x that enter or leave status s, and requests that
\* have still to add one.
EnteredRows(x, s) == {i \in DOMAIN audit[x] : audit[x][i].after = s}
LeftRows(x, s) == {i \in DOMAIN audit[x] : audit[x][i].before = s}
Entering(x, s) == {r \in Requests : At(r, "audit") /\ req[r].of = x /\ req[r].next = s}
Leaving(x, s) == {r \in Requests : At(r, "audit") /\ req[r].of = x /\ req[r].old = s}

\* Counting what is still to be added, a status was left as often as entered, but
\* for the present one.
Trail(x, s) ==
  /\ IsFiniteSet(EnteredRows(x, s)) /\ IsFiniteSet(LeftRows(x, s))
  /\ IsFiniteSet(Entering(x, s)) /\ IsFiniteSet(Leaving(x, s))
  /\ Cardinality(EnteredRows(x, s)) + Cardinality(Entering(x, s))
       = Cardinality(LeftRows(x, s)) + Cardinality(Leaving(x, s))
           + (IF row[x].status = s THEN 1 ELSE 0)
Trails == \A x \in Records, s \in RecordStatuses : Trail(x, s)

TInv == IInv /\ (failures = 0 => Trails)

LEMMA InitTrails == Init => TInv
<1> SUFFICES ASSUME Init PROVE TInv
  OBVIOUS
<1>1. IInv
  BY InitInv
<1>2. ASSUME NEW x \in Records, NEW s \in RecordStatuses PROVE Trail(x, s)
  <2>1. EnteredRows(x, s) = {} /\ LeftRows(x, s) = {}
    BY DEF Init, EnteredRows, LeftRows
  <2>2. Entering(x, s) = {} /\ Leaving(x, s) = {}
    BY IdleOK DEF Init, Entering, Leaving, At
  <2>3. row[x].status # s
    BY StatusTypes DEF Init, NoRow
  <2> QED
    BY <2>1, <2>2, <2>3, FS_EmptySet DEF Trail
<1> QED
  BY <1>1, <1>2 DEF TInv, Trails

\* One more or one less.
LEMMA OneMore ==
  ASSUME NEW S, NEW x, IsFiniteSet(S), x \notin S
  PROVE  IsFiniteSet(S \cup {x}) /\ Cardinality(S \cup {x}) = Cardinality(S) + 1
BY FS_AddElement
LEMMA OneLess ==
  ASSUME NEW S, NEW x, IsFiniteSet(S), x \in S
  PROVE  IsFiniteSet(S \ {x}) /\ Cardinality(S \ {x}) = Cardinality(S) - 1
BY FS_RemoveElement

LEMMA StillToAdd ==
  ASSUME TypeOK, NEW r \in Requests, NEW e, Become(r, e), NEW x, NEW s
  PROVE  /\ Entering(x, s)' = IF e.stage = "audit" /\ e.of = x /\ e.next = s
                              THEN Entering(x, s) \cup {r} ELSE Entering(x, s) \ {r}
         /\ Leaving(x, s)' = IF e.stage = "audit" /\ e.of = x /\ e.old = s
                             THEN Leaving(x, s) \cup {r} ELSE Leaving(x, s) \ {r}
<1>1. req'[r] = e /\ \A q \in Requests \ {r} : req'[q] = req[q]
  BY DEF Become, TypeOK
<1> QED
  BY <1>1 DEF Entering, Leaving, At

\* A step that writes no row and logs nothing.
LEMMA TrailRests ==
  ASSUME TypeOK, NEW r \in Requests, NEW e, Become(r, e), e.stage # "audit",
         ~At(r, "audit"), UNCHANGED <<row, audit>>, Trails
  PROVE  Trails'
<1> SUFFICES ASSUME NEW x \in Records, NEW s \in RecordStatuses PROVE Trail(x, s)'
  BY DEF Trails
<1>1. Entering(x, s)' = Entering(x, s) /\ Leaving(x, s)' = Leaving(x, s)
  <2>1. r \notin Entering(x, s) /\ r \notin Leaving(x, s)
    BY DEF Entering, Leaving
  <2> QED
    BY <2>1, StillToAdd
<1>2. EnteredRows(x, s)' = EnteredRows(x, s) /\ LeftRows(x, s)' = LeftRows(x, s)
  BY DEF EnteredRows, LeftRows
<1> QED
  BY <1>1, <1>2 DEF Trails, Trail

\* A record gets a status; its row of the log is still to come.
LEMMA TrailGrows ==
  ASSUME TypeOK, NEW r \in Requests, ~At(r, "audit"), NEW y \in Records,
         NEW from, NEW to, Become(r, Auditing(y, from, to)),
         row[y].status = from, row'[y].status = to,
         \A z \in Records \ {y} : row'[z] = row[z], UNCHANGED audit, Trails
  PROVE  Trails'
<1> SUFFICES ASSUME NEW x \in Records, NEW s \in RecordStatuses PROVE Trail(x, s)'
  BY DEF Trails
<1>1. EnteredRows(x, s)' = EnteredRows(x, s) /\ LeftRows(x, s)' = LeftRows(x, s)
  BY DEF EnteredRows, LeftRows
<1>2. r \notin Entering(x, s) /\ r \notin Leaving(x, s)
  BY DEF Entering, Leaving
<1>3. /\ Entering(x, s)' = IF x = y /\ to = s THEN Entering(x, s) \cup {r} ELSE Entering(x, s)
      /\ Leaving(x, s)' = IF x = y /\ from = s THEN Leaving(x, s) \cup {r} ELSE Leaving(x, s)
  <2>1. PICK e : e = Auditing(y, from, to)
    OBVIOUS
  <2>2. e.stage = "audit" /\ e.of = y /\ e.old = from /\ e.next = to
    BY <2>1 DEF Auditing, Idle
  <2> QED
    BY <1>2, <2>1, <2>2, StillToAdd
<1> DEFINE a == Cardinality(EnteredRows(x, s))
           b == Cardinality(LeftRows(x, s))
           c == Cardinality(Entering(x, s))
           d == Cardinality(Leaving(x, s))
<1>4. /\ IsFiniteSet(EnteredRows(x, s)) /\ IsFiniteSet(LeftRows(x, s))
      /\ IsFiniteSet(Entering(x, s)) /\ IsFiniteSet(Leaving(x, s))
      /\ a + c = b + d + (IF row[x].status = s THEN 1 ELSE 0)
  BY DEF Trails, Trail
<1>5. a \in Nat /\ b \in Nat /\ c \in Nat /\ d \in Nat
  BY <1>4, FS_CardinalityType
<1>6. /\ IsFiniteSet(Entering(x, s)')
      /\ Cardinality(Entering(x, s)') = c + (IF x = y /\ to = s THEN 1 ELSE 0)
  BY <1>2, <1>3, <1>4, <1>5, OneMore
<1>7. /\ IsFiniteSet(Leaving(x, s)')
      /\ Cardinality(Leaving(x, s)') = d + (IF x = y /\ from = s THEN 1 ELSE 0)
  BY <1>2, <1>3, <1>4, <1>5, OneMore
<1>8. a + Cardinality(Entering(x, s)')
        = b + Cardinality(Leaving(x, s)') + (IF row'[x].status = s THEN 1 ELSE 0)
  <2> HIDE DEF a, b, c, d
  <2>1. CASE x = y
    BY <1>4, <1>5, <1>6, <1>7, <2>1
  <2>2. CASE x # y
    BY <1>4, <1>5, <1>6, <1>7, <2>2
  <2> QED
    BY <2>1, <2>2
<1> QED
  BY <1>1, <1>4, <1>6, <1>7, <1>8 DEF Trail

\* Which rows of a log satisfy a condition, once a row is appended.
LEMMA AppendedRows ==
  ASSUME NEW R, NEW q \in Seq(R), NEW entry \in R
  PROVE  /\ DOMAIN Append(q, entry) = DOMAIN q \cup {Len(q) + 1}
         /\ Len(q) + 1 \notin DOMAIN q
         /\ Append(q, entry)[Len(q) + 1] = entry
         /\ \A i \in DOMAIN q : Append(q, entry)[i] = q[i]
OBVIOUS

\* The row of the log is added.
LEMMA TrailLogged ==
  ASSUME IInv, NEW r \in Requests, Audit(r), Trails
  PROVE  Trails'
<1> DEFINE R == [before : RecordStatuses \cup {"NONE"}, after : RecordStatuses]
           y == req[r].of
           entry == [before |-> req[r].old, after |-> req[r].next]
           n == Len(audit[y]) + 1
<1> SUFFICES ASSUME NEW x \in Records, NEW s \in RecordStatuses PROVE Trail(x, s)'
  BY DEF Trails
<1>1. /\ TypeOK /\ At(r, "audit") /\ y \in Records /\ entry \in R
      /\ audit \in [Records -> Seq(R)] /\ UNCHANGED row
  BY TypeParts DEF Audit, At, IInv, RequestOK, Request, LogType
<1>2. audit' = [audit EXCEPT ![y] = Append(@, entry)] /\ Become(r, Idle)
  BY DEF Audit
<1>3. audit'[x] = IF x = y THEN Append(audit[x], entry) ELSE audit[x]
  BY <1>1, <1>2
<1>4. x = y => /\ DOMAIN audit'[x] = DOMAIN audit[x] \cup {n}
               /\ n \notin DOMAIN audit[x] /\ audit'[x][n] = entry
               /\ \A i \in DOMAIN audit[x] : audit'[x][i] = audit[x][i]
  <2> HIDE DEF R, entry
  <2> QED
    BY <1>1, <1>3, AppendedRows
<1>5. /\ n \notin EnteredRows(x, s) \/ x # y
      /\ n \notin LeftRows(x, s) \/ x # y
      /\ EnteredRows(x, s)' = IF x = y /\ entry.after = s THEN EnteredRows(x, s) \cup {n}
                              ELSE EnteredRows(x, s)
      /\ LeftRows(x, s)' = IF x = y /\ entry.before = s THEN LeftRows(x, s) \cup {n}
                           ELSE LeftRows(x, s)
  <2> HIDE DEF n, entry
  <2> QED
    BY <1>3, <1>4 DEF EnteredRows, LeftRows
<1>6. /\ Entering(x, s)' = Entering(x, s) \ {r} /\ Leaving(x, s)' = Leaving(x, s) \ {r}
      /\ r \in Entering(x, s) <=> x = y /\ entry.after = s
      /\ r \in Leaving(x, s) <=> x = y /\ entry.before = s
  <2>1. PICK e : e = Idle
    OBVIOUS
  <2>2. e.stage # "audit" /\ Become(r, e)
    BY <1>2, <2>1, IdleOK
  <2>3. /\ Entering(x, s)' = Entering(x, s) \ {r} /\ Leaving(x, s)' = Leaving(x, s) \ {r}
    <3> HIDE DEF y, entry
    <3> QED
      BY <1>1, <2>2, StillToAdd
  <2> QED
    BY <1>1, <2>3 DEF Entering, Leaving
<1> DEFINE a == Cardinality(EnteredRows(x, s))
           b == Cardinality(LeftRows(x, s))
           c == Cardinality(Entering(x, s))
           d == Cardinality(Leaving(x, s))
           in == IF x = y /\ entry.after = s THEN 1 ELSE 0
           out == IF x = y /\ entry.before = s THEN 1 ELSE 0
<1>7. /\ IsFiniteSet(EnteredRows(x, s)) /\ IsFiniteSet(LeftRows(x, s))
      /\ IsFiniteSet(Entering(x, s)) /\ IsFiniteSet(Leaving(x, s))
      /\ a + c = b + d + (IF row[x].status = s THEN 1 ELSE 0)
  BY DEF Trails, Trail
<1>8. a \in Nat /\ b \in Nat /\ c \in Nat /\ d \in Nat
  BY <1>7, FS_CardinalityType
<1>9. IsFiniteSet(EnteredRows(x, s)') /\ Cardinality(EnteredRows(x, s)') = a + in
  <2> HIDE DEF n, entry
  <2>1. CASE x = y /\ entry.after = s
    BY <1>5, <1>7, <2>1, OneMore
  <2>2. CASE ~(x = y /\ entry.after = s)
    BY <1>5, <1>7, <1>8, <2>2
  <2> QED
    BY <2>1, <2>2
<1>10. IsFiniteSet(LeftRows(x, s)') /\ Cardinality(LeftRows(x, s)') = b + out
  <2> HIDE DEF n, entry
  <2>1. CASE x = y /\ entry.before = s
    BY <1>5, <1>7, <2>1, OneMore
  <2>2. CASE ~(x = y /\ entry.before = s)
    BY <1>5, <1>7, <1>8, <2>2
  <2> QED
    BY <2>1, <2>2
<1>11. IsFiniteSet(Entering(x, s)') /\ Cardinality(Entering(x, s)') = c - in
  <2> HIDE DEF entry, y
  <2>1. CASE r \in Entering(x, s)
    BY <1>6, <1>7, <2>1, OneLess
  <2>2. CASE r \notin Entering(x, s)
    <3>1. Entering(x, s)' = Entering(x, s)
      BY <1>6, <2>2
    <3>2. in = 0
      BY <1>6, <2>2
    <3> QED
      BY <1>7, <1>8, <3>1, <3>2
  <2> QED
    BY <2>1, <2>2
<1>12. IsFiniteSet(Leaving(x, s)') /\ Cardinality(Leaving(x, s)') = d - out
  <2> HIDE DEF entry, y
  <2>1. CASE r \in Leaving(x, s)
    BY <1>6, <1>7, <2>1, OneLess
  <2>2. CASE r \notin Leaving(x, s)
    <3>1. Leaving(x, s)' = Leaving(x, s)
      BY <1>6, <2>2
    <3>2. out = 0
      BY <1>6, <2>2
    <3> QED
      BY <1>7, <1>8, <3>1, <3>2
  <2> QED
    BY <2>1, <2>2
<1>13. in \in {0, 1} /\ out \in {0, 1}
  OBVIOUS
<1> HIDE DEF a, b, c, d, in, out
<1> QED
  BY <1>1, <1>7, <1>8, <1>9, <1>10, <1>11, <1>12, <1>13 DEF Trail

LEMMA NextTrails == TInv /\ [Next]_vars => TInv'
<1> SUFFICES ASSUME TInv, [Next]_vars, failures' = 0 PROVE Trails'
  BY NextInv DEF TInv
<1>1. IInv /\ TypeOK
  BY DEF TInv, IInv
<1>2. CASE UNCHANGED vars
  <2>1. row' = row /\ audit' = audit /\ req' = req /\ failures' = failures
    BY <1>2 DEF vars
  <2>2. Trails
    BY <2>1 DEF TInv
  <2> SUFFICES ASSUME NEW x \in Records, NEW s \in RecordStatuses PROVE Trail(x, s)'
    BY DEF Trails
  <2>3. /\ EnteredRows(x, s)' = EnteredRows(x, s) /\ LeftRows(x, s)' = LeftRows(x, s)
        /\ Entering(x, s)' = Entering(x, s) /\ Leaving(x, s)' = Leaving(x, s)
    BY <2>1 DEF EnteredRows, LeftRows, Entering, Leaving, At
  <2> QED
    BY <2>1, <2>2, <2>3 DEF Trails, Trail
<1>3. CASE Next
  <2>1. PICK r \in Requests :
          \/ \E x \in Records : \/ CreateAny(r, x) \/ ReadAny(r, x)
                                \/ ReadForRevise(r, x) \/ Revise(r, x)
          \/ UpdateLead(r) \/ UpdateTask(r) \/ UpdateQuote(r)
          \/ Conflict(r) \/ Audit(r) \/ Fail(r)
    BY <1>3 DEF Next
  <2>2. ~Fail(r) /\ failures = failures' /\ Trails
    <3>1. ~Fail(r)
      BY TypeParts, <1>1 DEF Fail
    <3>2. ASSUME NEW x, CreateAny(r, x) \/ Revise(r, x) PROVE UNCHANGED failures
      BY <3>2 DEF CreateAny, CreateLead, CreateTask, CreateQuote, Insert, Revise
    <3>3. ASSUME NEW x, ReadAny(r, x) \/ ReadForRevise(r, x) PROVE UNCHANGED failures
      BY <3>3 DEF ReadAny, ReadLead, ReadTask, ReadQuote, ReadRecord, ReadForRevise
    <3>4. ASSUME UpdateLead(r) \/ UpdateTask(r) \/ UpdateQuote(r) \/ Conflict(r) \/ Audit(r)
          PROVE  UNCHANGED failures
      BY <3>4 DEF UpdateLead, UpdateTask, UpdateQuote, WriteRecord, Conflict, Audit
    <3> QED
      BY <2>1, <3>1, <3>2, <3>3, <3>4 DEF TInv
  <2>3. ASSUME NEW y \in Records, NEW first, NEW p, Insert(r, y, first, p), ~At(r, "audit")
        PROVE  Trails'
    <3>1. /\ row[y].status = "NONE" /\ row'[y].status = first
          /\ \A z \in Records \ {y} : row'[z] = row[z]
          /\ Become(r, Auditing(y, "NONE", first)) /\ UNCHANGED audit
      BY <2>3, <1>1, TypeParts DEF Insert, Exists
    <3> QED
      BY <1>1, <2>2, <2>3, <3>1, TrailGrows
  <2>4. ASSUME NEW y \in Records, CreateAny(r, y) \/ Revise(r, y) PROVE Trails'
    <3>1. ~At(r, "audit")
      BY <2>4 DEF CreateAny, CreateLead, CreateTask, CreateQuote, Revise, At
    <3> QED
      BY <1>1, <2>3, <2>4, <3>1, Cases
  <2>5. CASE UpdateLead(r) \/ UpdateTask(r) \/ UpdateQuote(r)
    <3> DEFINE y == req[r].of
               from == req[r].old
               to == req[r].next
    <3>1. PICK reason : WriteRecord(r, reason)
      BY <2>5 DEF UpdateLead, UpdateTask, UpdateQuote
    <3>2. /\ At(r, "cas") /\ Become(r, Auditing(y, from, to)) /\ UNCHANGED audit
          /\ row' = [row EXCEPT ![y] = Updated(@, to, reason)]
      BY <3>1 DEF WriteRecord
    <3>3. y \in Records /\ row[y].status = from
      BY <1>1, <3>1, WriteIsChecked DEF WriteRecord
    <3>4. row'[y].status = to /\ \A z \in Records \ {y} : row'[z] = row[z]
      BY <1>1, <3>2, <3>3, TypeParts DEF Updated
    <3> QED
      BY <1>1, <2>2, <3>2, <3>3, <3>4, TrailGrows DEF At
  <2>6. ASSUME NEW e, Become(r, e), e.stage # "audit", ~At(r, "audit"), UNCHANGED <<row, audit>>
        PROVE  Trails'
    BY <1>1, <2>2, <2>6, TrailRests
  <2>7. ASSUME NEW y \in Records, ReadForRevise(r, y) PROVE Trails'
    BY <2>6, <2>7 DEF ReadForRevise, Idle, At
  <2>8. ASSUME NEW y \in Records, ReadAny(r, y) PROVE Trails'
    <3>1. PICK ver, to, reason : ReadRecord(r, y, to, ver, reason)
      BY <2>8 DEF ReadAny, ReadLead, ReadTask, ReadQuote
    <3> QED
      BY <2>6, <3>1 DEF ReadRecord, At
  <2>9. CASE Conflict(r)
    BY <2>6, <2>9 DEF Conflict, AfterConflict, Idle, At
  <2>10. CASE Audit(r)
    BY <1>1, <2>2, <2>10, TrailLogged
  <2> QED
    BY <2>1, <2>2, <2>4, <2>5, <2>7, <2>8, <2>9, <2>10
<1> QED
  BY <1>2, <1>3

\* In whatever order requests add their rows: as soon as none of them has a row
\* about a record left to add, and no call has failed, the log holds an unbroken
\* trail from the record's creation to its status.
THEOREM AuditTrailIsComplete == Spec => []TrailLeadsToStatus
<1>1. TInv => TrailLeadsToStatus
  <2> SUFFICES ASSUME TInv, NEW x \in Records, Exists(x), failures = 0,
                      \A r \in Requests : At(r, "audit") => req[r].of # x,
                      NEW s \in StatusesOf(x)
               PROVE  Entered(x, s) = Left(x, s) + (IF s = row[x].status THEN 1 ELSE 0)
    BY DEF TrailLeadsToStatus
  <2>1. Trail(x, s)
    BY StatusTypes DEF TInv, Trails
  <2>2. Entering(x, s) = {} /\ Leaving(x, s) = {}
    BY DEF Entering, Leaving
  <2>3. /\ Entered(x, s) = Cardinality(EnteredRows(x, s))
        /\ Left(x, s) = Cardinality(LeftRows(x, s))
    BY DEF Entered, Left, Rows, EnteredRows, LeftRows
  <2>4. Cardinality(EnteredRows(x, s)) \in Nat /\ Cardinality(LeftRows(x, s)) \in Nat
    BY <2>1, FS_CardinalityType DEF Trail
  <2> QED
    BY <2>1, <2>2, <2>3, <2>4, FS_EmptySet DEF Trail
<1> QED
  BY <1>1, InitTrails, NextTrails, PTL DEF Spec

=============================================================================
