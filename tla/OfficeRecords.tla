---------------------------- MODULE OfficeRecords ----------------------------
(***************************************************************************)
(* Leads, tasks and quotes: LeadsService, TasksService and QuotesService.  *)
(* Their rows have one handler in common, read a row, check the move, and  *)
(* update where { id, version }, each call of its own with other requests  *)
(* in between, followed by a row of the audit log.  A quote is never       *)
(* edited: it is superseded by a new one.                                  *)
(*                                                                         *)
(* As in VehicleSales, `req` holds the requests in flight, a request that  *)
(* its first read rejects is a stuttering step, and the version a client   *)
(* sends is one it has read.  Owners, roles, prices and due dates decide   *)
(* only which requests are accepted and are left out: every request they   *)
(* would refuse is allowed here.                                           *)
(***************************************************************************)
EXTENDS Integers, Sequences, FiniteSets, RecordStatus

CONSTANTS
  Leads, Tasks, Quotes,  \* ids of rows, in use or not yet
  Requests,              \* slots for requests in flight
  NoRecord,              \* supersedesId: null, and what an idle request holds
  LeadTargets,           \* lead statuses that are asked for
  MaxVersion,            \* bound: highest version a client sends, per record
  MaxFailures            \* bound: database calls that fail

Records == Leads \cup Tasks \cup Quotes

ASSUME RecordsAssumption ==
  /\ Leads \cap Tasks = {} /\ Leads \cap Quotes = {} /\ Tasks \cap Quotes = {}
  /\ NoRecord \notin Records
ASSUME LeadTargetsAssumption == LeadTargets \subseteq LeadStatuses
ASSUME RecordBoundsAssumption ==
  MaxVersion \in [Records -> Nat] /\ MaxFailures \in Nat

VARIABLES
  row,       \* the tables leads, tasks and quotes
  audit,     \* rows of the audit log about a record, in the order of insertion
  req,       \* requests in flight
  failures   \* database calls that have failed so far

vars == <<row, audit, req, failures>>

-----------------------------------------------------------------------------
(* Rows and requests *)

\* Lead.lossReason; the other tables have no such column.
Reasons == {"null", "empty", "given"}
\* dto.lossReason: optional, a string, possibly null.
ReasonInputs == Reasons \cup {"omitted"}

NoRow == [status |-> "NONE", version |-> 0, reason |-> "null", supersedes |-> NoRecord]
Exists(x) == row[x].status # "NONE"
StatusesOf(x) == IF x \in Leads THEN LeadStatuses
                 ELSE IF x \in Tasks THEN TaskStatuses ELSE QuoteStatuses

\* The move passes the check of the record's own kind.
ValidMove(x, from, to, reason) ==
  \/ x \in Leads /\ ValidLeadTransition(from, to, reason = "given")
  \/ x \in Tasks /\ ValidTaskTransition(from, to)
  \/ x \in Quotes /\ ValidQuoteTransition(from, to)

Idle == [stage |-> "idle", of |-> NoRecord, old |-> "NONE", next |-> "NONE",
         ver |-> 0, reason |-> "null"]
\* Mutant: the "before" of the audit row is read after the update.
AuditingLate(x, old, new) ==
  [Idle EXCEPT !.stage = "audit", !.of = x, !.old = new, !.next = new]
Auditing(x, old, new) ==
  [Idle EXCEPT !.stage = "audit", !.of = x, !.old = old, !.next = new]

At(r, stage) == req[r].stage = stage
Become(r, entry) == req' = [req EXCEPT ![r] = entry]

\* Versions a client may have read of a row.
ReadableVersions(x) == {n \in 1..row[x].version : n <= MaxVersion[x]}

\* Bound: there is a quote id for every revision in flight and one more.
QuoteIdLeft == Cardinality({r \in Requests : At(r, "revise")})
                 < Cardinality({q \in Quotes : ~Exists(q)})

\* Mutant: the update filters on the id alone.
MatchesId(x, ver) == TRUE
\* where: { id, version }
Matches(x, ver) == row[x].version = ver

\* Mutant: version: { increment: 1 } is forgotten.
KeepVersion(n) == n
NextVersion(n) == n + 1

\* Mutant: the error leaves the request open.
LeaveOpen(entry) == [entry EXCEPT !.stage = "conflict"]
\* ConflictException ends the request.
AfterConflict(entry) == Idle

-----------------------------------------------------------------------------
(* create: one insert, then its audit row *)

\* What every insert does: the row with its defaults.
Insert(r, x, first, p) ==
  /\ ~Exists(x)
  /\ row' = [row EXCEPT ![x] = [status |-> first, version |-> 1,
                                reason |-> "null", supersedes |-> p]]
  /\ Become(r, Auditing(x, "NONE", first))
  /\ UNCHANGED <<audit, failures>>

CreateLead(r, x) == At(r, "idle") /\ x \in Leads /\ Insert(r, x, "NEW", NoRecord)
CreateTask(r, x) == At(r, "idle") /\ x \in Tasks /\ Insert(r, x, "OPEN", NoRecord)

\* A quote is for a lead, whatever the lead's status; leads are never deleted.
CreateQuote(r, x) ==
  /\ At(r, "idle") /\ x \in Quotes /\ QuoteIdLeft
  /\ \E l \in Leads : Exists(l)
  /\ Insert(r, x, "DRAFT", NoRecord)

-----------------------------------------------------------------------------
(* QuotesService.revise: the quote is read as open, then its successor inserted *)

ReadForRevise(r, q) ==
  /\ At(r, "idle") /\ QuoteIdLeft
  /\ q \in Quotes /\ row[q].status \in Revisable
  /\ Become(r, [Idle EXCEPT !.stage = "revise", !.of = q, !.old = row[q].status])
  /\ UNCHANGED <<row, audit, failures>>

Revise(r, x) == At(r, "revise") /\ x \in Quotes /\ Insert(r, x, "DRAFT", req[r].of)

-----------------------------------------------------------------------------
(* updateStatus *)

\* findOne, the check of the move, and what the update will be given.
ReadRecord(r, x, to, ver, reason) ==
  /\ At(r, "idle")
  /\ Exists(x) /\ ver \in ReadableVersions(x)
  /\ ValidMove(x, row[x].status, to, reason)
  /\ Become(r, [stage |-> "cas", of |-> x, old |-> row[x].status, next |-> to,
                ver |-> ver, reason |-> reason])
  /\ UNCHANGED <<row, audit, failures>>

\* A lead that is not set to LOST is given back the reason that was read.
ReadLead(r, x, to, ver) ==
  /\ x \in Leads
  /\ \/ to = "LOST" /\ \E reason \in ReasonInputs : ReadRecord(r, x, to, ver, reason)
     \/ to # "LOST" /\ ReadRecord(r, x, to, ver, row[x].reason)
ReadTask(r, x, to, ver) == x \in Tasks /\ ReadRecord(r, x, to, ver, "null")
ReadQuote(r, x, to, ver) == x \in Quotes /\ ReadRecord(r, x, to, ver, "null")

\* data: { status, lossReason, version: { increment: 1 } }
Updated(old, s, reason) ==
  [status |-> s, version |-> NextVersion(old.version), reason |-> reason,
   supersedes |-> old.supersedes]

\* updateMany with count = 1; the row is re-read only for the answer.
WriteRecord(r, reason) ==
  LET e == req[r] IN
  /\ At(r, "cas") /\ Matches(e.of, e.ver)
  /\ row' = [row EXCEPT ![e.of] = Updated(@, e.next, reason)]
  /\ Become(r, Auditing(e.of, e.old, e.next))
  /\ UNCHANGED <<audit, failures>>

\* lossReason: undefined leaves the column as it is, null and '' do not.
UpdateLead(r) ==
  /\ req[r].of \in Leads
  /\ WriteRecord(r, IF req[r].reason = "omitted" THEN row[req[r].of].reason
                    ELSE req[r].reason)
UpdateTask(r) == req[r].of \in Tasks /\ WriteRecord(r, "null")
UpdateQuote(r) == req[r].of \in Quotes /\ WriteRecord(r, "null")

\* count = 0.
Conflict(r) ==
  /\ At(r, "cas") /\ ~Matches(req[r].of, req[r].ver)
  /\ Become(r, AfterConflict(req[r]))
  /\ UNCHANGED <<row, audit, failures>>

\* auditLog.record, after the write and in a call of its own.
Audit(r) ==
  LET e == req[r] IN
  /\ At(r, "audit")
  /\ audit' = [audit EXCEPT ![e.of] = Append(@, [before |-> e.old, after |-> e.next])]
  /\ Become(r, Idle)
  /\ UNCHANGED <<row, failures>>

\* The next call fails, or the process stops: the request is gone.
Fail(r) ==
  /\ ~At(r, "idle") /\ failures < MaxFailures
  /\ Become(r, Idle)
  /\ failures' = failures + 1
  /\ UNCHANGED <<row, audit>>

-----------------------------------------------------------------------------
Init ==
  /\ row = [x \in Records |-> NoRow]
  /\ audit = [x \in Records |-> <<>>]
  /\ req = [r \in Requests |-> Idle]
  /\ failures = 0

CreateAny(r, x) == CreateLead(r, x) \/ CreateTask(r, x) \/ CreateQuote(r, x)
ReadAny(r, x) ==
  \E ver \in ReadableVersions(x) :
    \/ \E to \in LeadTargets : ReadLead(r, x, to, ver)
    \/ \E to \in TaskStatuses : ReadTask(r, x, to, ver)
    \/ \E to \in QuoteStatuses : ReadQuote(r, x, to, ver)

Next ==
  \E r \in Requests :
    \/ \E x \in Records : \/ CreateAny(r, x) \/ ReadAny(r, x)
                          \/ ReadForRevise(r, x) \/ Revise(r, x)
    \/ UpdateLead(r) \/ UpdateTask(r) \/ UpdateQuote(r)
    \/ Conflict(r) \/ Audit(r) \/ Fail(r)

Spec == Init /\ [][Next]_vars

-----------------------------------------------------------------------------
(* Properties *)

Request == [stage : {"idle", "revise", "cas", "audit"}, of : Records \cup {NoRecord},
            old : RecordStatuses \cup {"NONE"}, next : RecordStatuses \cup {"NONE"},
            ver : Nat, reason : ReasonInputs]

\* The tables, the log and the requests keep their shape; a row has a status
\* of its own kind and, exactly when it exists, a positive version; only a
\* quote supersedes, and what it supersedes exists.
TypeOK ==
  /\ row \in [Records -> [status : RecordStatuses \cup {"NONE"}, version : Nat,
                          reason : Reasons, supersedes : Quotes \cup {NoRecord}]]
  /\ \A x \in Records :
       /\ Exists(x) => row[x].status \in StatusesOf(x)
       /\ Exists(x) <=> row[x].version > 0
       /\ row[x].supersedes # NoRecord =>
            x \in Quotes /\ Exists(x) /\ Exists(row[x].supersedes)
  /\ audit \in [Records -> Seq([before : RecordStatuses \cup {"NONE"},
                                after : RecordStatuses])]
  /\ req \in [Requests -> Request]
  /\ failures \in Nat

\* updateStatus: a request that is about to update a row has either checked the
\* row as it is now, with the loss reason it is about to write back, or holds a
\* version that the row has left behind.
StaleReadIsRefused ==
  \A r \in Requests :
    At(r, "cas") =>
      LET e == req[r] IN
      \/ e.ver < row[e.of].version
      \/ /\ e.ver = row[e.of].version /\ e.old = row[e.of].status
         /\ e.next # "LOST" => e.reason = row[e.of].reason

\* leads.service.ts:104: every status change writes the loss reason, and still
\* a reason is only ever found on a lead that is lost.
ReasonOnlyOfLost ==
  \A x \in Records : row[x].reason # "null" => row[x].status = "LOST"

Rows(x, Test(_)) == Cardinality({i \in DOMAIN audit[x] : Test(audit[x][i])})
Entered(x, s) == Rows(x, LAMBDA entry : entry.after = s)
Left(x, s) == Rows(x, LAMBDA entry : entry.before = s)

\* The audit log of a record, which concurrent requests may fill in any order,
\* is still one unbroken trail from its creation to its present status as soon
\* as nobody has a row left to add: each status was left as often as it was
\* entered, but for the present one.
TrailLeadsToStatus ==
  \A x \in Records :
    (Exists(x) /\ failures = 0 /\ \A r \in Requests : At(r, "audit") => req[r].of # x)
      => \A s \in StatusesOf(x) :
           Entered(x, s) = Left(x, s) + (IF s = row[x].status THEN 1 ELSE 0)

\* The rows as the record book sees them.
BookOf == [x \in Records |-> [status |-> row[x].status, reason |-> row[x].reason,
                              supersedes |-> row[x].supersedes]]
Book == INSTANCE RecordBook WITH book <- BookOf

\* Whatever is read and however requests interleave, leads, tasks and quotes
\* behave as if each request were one indivisible step.
ImplementsRecordBook == Book!BookSpec

=============================================================================
