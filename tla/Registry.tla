------------------------------ MODULE Registry ------------------------------
(***************************************************************************)
(* The records that are only ever added: vehicles, expenses, customers,    *)
(* users, branches and documents, each by a request that makes its checks, *)
(* inserts one row and records it, every call of its own with other        *)
(* requests in between (VehiclesService.create and addExpense,             *)
(* CustomersService, UsersService, BranchesService, DocumentsService), and *)
(* the seed script, which may be run at any time and again.                *)
(*                                                                         *)
(* A document has a file beside its row.  FileStorageService writes it     *)
(* under a name nobody used before, and a write that is cut short leaves a *)
(* part of it.  Nothing in the code deletes a row or a file.  What decides *)
(* only whether a request is refused (roles, owners, the size and type of  *)
(* a file) is left out.                                                    *)
(***************************************************************************)
EXTENDS Integers, FiniteSets

CONSTANTS
  Ids,                    \* ids of rows, in use or not yet
  Files,                  \* names of stored files
  Requests,               \* slots for requests in flight
  Plates, Vins,           \* licensePlate and vin of a vehicle
  Phones, Emails,         \* phone of a customer, e-mail of a user
  OwnerEmail,             \* owner@demo.local
  Subjects,               \* the entities that documents are attached to
  Null,
  MaxFailures             \* bound: calls that fail

Keys == Plates \cup Vins \cup Phones \cup Emails

ASSUME RegistryAssumption ==
  /\ OwnerEmail \in Emails
  /\ Null \notin Ids \cup Files \cup Subjects
  /\ MaxFailures \in Nat

VARIABLES
  row,        \* the six tables
  disk,       \* the directory storage/documents
  seeded,     \* the organization and the branch of the seed script, by fixed id
  recorded,   \* what vehicle_events and audit_log hold about a row's creation
  req,        \* requests in flight
  failures    \* calls that have failed so far

vars == <<row, disk, seeded, recorded, req, failures>>

Tables == {"vehicle", "expense", "customer", "user", "branch", "document"}

\* parent: the vehicle of an expense, the document that a document supersedes.
RowOf(table, keys, parent, about, version) ==
  [table |-> table, keys |-> keys, parent |-> parent, about |-> about,
   version |-> version, file |-> Null]
NoRow == RowOf("none", {}, Null, Null, 0)
Exists(i) == row[i].table # "none"
In(i, table) == row[i].table = table

\* Mutant: the id that the insert returned is not kept.
DoingWithoutId(stage, new, i) == [stage |-> stage, new |-> new, id |-> Null]
\* A request holds the row it will insert, and then that row's id.
Doing(stage, new, i) == [stage |-> stage, new |-> new, id |-> i]
Idle == Doing("idle", NoRow, Null)
At(r, stage) == req[r].stage = stage
Become(r, entry) == req' = [req EXCEPT ![r] = entry]

\* Mutant: only the plate is compared.
TakenPlate(table, keys) == \E i \in Ids : In(i, table) /\ row[i].keys \cap keys \cap Plates # {}
\* findFirst / findUnique finds a row of the table with one of these keys.
Taken(table, keys) == \E i \in Ids : In(i, table) /\ row[i].keys \cap keys # {}

-----------------------------------------------------------------------------
(* The checks that come before a row is inserted *)

Inserting == {r \in Requests :
                req[r].stage \in {"insert", "save", "writing", "seed branch", "seed owner"}}
\* Bound: there is an id for every row, and a name for every file, that is asked for.
IdLeft == Cardinality(Inserting) < Cardinality({i \in Ids : ~Exists(i)})
FileLeft == Cardinality({r \in Requests : At(r, "save")})
              < Cardinality({f \in Files : disk[f] = "absent"})

\* What each of them does when nothing stands in the way.
Accept(r, stage, new) ==
  /\ IdLeft
  /\ Become(r, Doing(stage, new, Null))
  /\ UNCHANGED <<row, disk, seeded, recorded, failures>>

\* assertNoDuplicate: a vehicle may have neither a plate nor a VIN.
CheckVehicle(r, plate, vin) ==
  /\ At(r, "idle")
  /\ ~Taken("vehicle", plate \cup vin)
  /\ Accept(r, "insert", RowOf("vehicle", plate \cup vin, Null, Null, 0))

CheckCustomer(r, phone) ==
  /\ At(r, "idle")
  /\ ~Taken("customer", {phone})
  /\ Accept(r, "insert", RowOf("customer", {phone}, Null, Null, 0))

\* The password is hashed between this and the insert.
CheckUser(r, email) ==
  /\ At(r, "idle")
  /\ ~Taken("user", {email})
  /\ Accept(r, "insert", RowOf("user", {email}, Null, Null, 0))

FindVehicle(r, v) ==
  /\ At(r, "idle") /\ In(v, "vehicle")
  /\ Accept(r, "insert", RowOf("expense", {}, v, Null, 0))

\* getDefaultOrganizationId, without which no branch is created.
FindOrganization(r) ==
  /\ At(r, "idle") /\ "organization" \in seeded
  /\ Accept(r, "insert", RowOf("branch", {}, Null, Null, 0))

AcceptUpload(r, subject) ==
  /\ At(r, "idle") /\ FileLeft
  /\ Accept(r, "save", RowOf("document", {}, Null, subject, 1))

\* Mutant: a revision is attached to whatever the client names.
RevisionOfAny(d, subject) == RowOf("document", {}, d, subject, row[d].version + 1)
\* A revision belongs where its predecessor does.
RevisionOf(d, subject) == RowOf("document", {}, d, row[d].about, row[d].version + 1)

\* Any version may be revised, the latest or not.
AcceptRevision(r, d, subject) ==
  /\ At(r, "idle") /\ FileLeft /\ In(d, "document")
  /\ Accept(r, "save", RevisionOf(d, subject))

-----------------------------------------------------------------------------
(* FileStorageService *)

\* Mutant: the file keeps the name its user gave it.
AnyName(f) == TRUE
\* randomUUID
FreshName(f) == disk[f] = "absent"

\* Mutant: the row is not given the name of the file.
BeginUnnamedWrite(r, f) ==
  /\ At(r, "save") /\ FreshName(f)
  /\ disk' = [disk EXCEPT ![f] = "partial"]
  /\ Become(r, Doing("writing", req[r].new, Null))
  /\ UNCHANGED <<row, seeded, recorded, failures>>

\* save: writeFile opens the file, and some time later it is complete.
BeginWrite(r, f) ==
  /\ At(r, "save") /\ FreshName(f)
  /\ disk' = [disk EXCEPT ![f] = "partial"]
  /\ Become(r, Doing("writing", [req[r].new EXCEPT !.file = f], Null))
  /\ UNCHANGED <<row, seeded, recorded, failures>>

EndWrite(r) ==
  /\ At(r, "writing")
  /\ disk' = [disk EXCEPT ![req[r].new.file] = "whole"]
  /\ Become(r, Doing("insert", req[r].new, Null))
  /\ UNCHANGED <<row, seeded, recorded, failures>>

\* download: the row first, the file some time later.
FindDocument(r, d) ==
  /\ At(r, "idle") /\ In(d, "document")
  /\ Become(r, Doing("reading", row[d], d))
  /\ UNCHANGED <<row, disk, seeded, recorded, failures>>

ReadFile(r) ==
  /\ At(r, "reading") /\ disk[req[r].new.file] # "absent"
  /\ Become(r, Idle)
  /\ UNCHANGED <<row, disk, seeded, recorded, failures>>

-----------------------------------------------------------------------------
(* The insert and what is recorded after it *)

\* Mutant: the column has no unique index.
NoIndex(new) == FALSE
\* users.email is unique; no other key has an index.
BreaksIndex(new) == new.table = "user" /\ Taken("user", new.keys)

\* Mutant: a vehicle's creation goes to the audit log alone.
AuditOnly(new) == "audit"
AfterInsert(new) == IF new.table = "vehicle" THEN "event" ELSE "audit"

Insert(r, i) ==
  LET new == req[r].new IN
  /\ At(r, "insert") /\ ~Exists(i) /\ ~BreaksIndex(new)
  /\ row' = [row EXCEPT ![i] = new]
  /\ Become(r, Doing(AfterInsert(new), NoRow, i))
  /\ UNCHANGED <<disk, seeded, recorded, failures>>

\* The database refuses the row; nothing catches the error.
InsertRefused(r) ==
  /\ At(r, "insert") /\ BreaksIndex(req[r].new)
  /\ Become(r, Idle)
  /\ UNCHANGED <<row, disk, seeded, recorded, failures>>

\* vehicleEvent.create with eventType CREATED
RecordEvent(r) ==
  /\ At(r, "event")
  /\ recorded' = [recorded EXCEPT ![req[r].id] = @ \cup {"event"}]
  /\ Become(r, Doing("audit", NoRow, req[r].id))
  /\ UNCHANGED <<row, disk, seeded, failures>>

\* auditLog.record
RecordAudit(r) ==
  /\ At(r, "audit")
  /\ recorded' = [recorded EXCEPT ![req[r].id] = @ \cup {"audit"}]
  /\ Become(r, Idle)
  /\ UNCHANGED <<row, disk, seeded, failures>>

\* The next call fails, or the process stops: the request is gone.
Fail(r) ==
  /\ ~At(r, "idle") /\ failures < MaxFailures
  /\ failures' = failures + 1
  /\ Become(r, Idle)
  /\ UNCHANGED <<row, disk, seeded, recorded>>

-----------------------------------------------------------------------------
(* prisma/seed.ts: three upserts that change nothing of what is there *)

SeedOrganization(r) ==
  /\ At(r, "idle") /\ IdLeft
  /\ seeded' = seeded \cup {"organization"}
  /\ Become(r, Doing("seed branch", NoRow, Null))
  /\ UNCHANGED <<row, disk, recorded, failures>>

SeedBranch(r) ==
  /\ At(r, "seed branch")
  /\ seeded' = seeded \cup {"branch"}
  /\ Become(r, Doing("seed owner", RowOf("user", {OwnerEmail}, Null, Null, 0), Null))
  /\ UNCHANGED <<row, disk, recorded, failures>>

\* The script writes no audit row.
SeedOwner(r, i) ==
  LET new == req[r].new IN
  /\ At(r, "seed owner")
  /\ \/ BreaksIndex(new) /\ UNCHANGED row
     \/ ~BreaksIndex(new) /\ ~Exists(i) /\ row' = [row EXCEPT ![i] = new]
  /\ Become(r, Idle)
  /\ UNCHANGED <<disk, seeded, recorded, failures>>

-----------------------------------------------------------------------------
Init ==
  /\ row = [i \in Ids |-> NoRow]
  /\ disk = [f \in Files |-> "absent"]
  /\ seeded = {}
  /\ recorded = [i \in Ids |-> {}]
  /\ req = [r \in Requests |-> Idle]
  /\ failures = 0

\* A request that its first check refuses, and a list that is only read.
Unchanged(r) == At(r, "idle") /\ UNCHANGED vars

\* An optional value: none or one.
Optional(S) == {{}} \cup {{x} : x \in S}

Check(r) ==
  \/ \E plate \in Optional(Plates), vin \in Optional(Vins) : CheckVehicle(r, plate, vin)
  \/ \E phone \in Phones : CheckCustomer(r, phone)
  \/ \E email \in Emails : CheckUser(r, email)
  \/ \E subject \in Subjects : AcceptUpload(r, subject)
  \/ \E d \in Ids, subject \in Subjects : AcceptRevision(r, d, subject)
  \/ \E v \in Ids : FindVehicle(r, v)
  \/ FindOrganization(r)

Next ==
  \E r \in Requests :
    \/ Check(r)
    \/ \E f \in Files : BeginWrite(r, f)
    \/ \E i \in Ids : FindDocument(r, i) \/ Insert(r, i) \/ SeedOwner(r, i)
    \/ EndWrite(r) \/ ReadFile(r)
    \/ InsertRefused(r) \/ RecordEvent(r) \/ RecordAudit(r) \/ Fail(r)
    \/ SeedOrganization(r) \/ SeedBranch(r) \/ Unchanged(r)

Spec == Init /\ [][Next]_vars

-----------------------------------------------------------------------------
(* Properties *)

Row == [table : Tables \cup {"none"}, keys : SUBSET Keys, parent : Ids \cup {Null},
        about : Subjects \cup {Null}, version : Nat, file : Files \cup {Null}]
Stages == {"idle", "insert", "save", "writing", "reading", "event", "audit",
           "seed branch", "seed owner"}

\* Tables, files and requests keep their shape; a request that has inserted a
\* row, or reads a file, knows the row.
TypeOK ==
  /\ row \in [Ids -> Row]
  /\ disk \in [Files -> {"absent", "partial", "whole"}]
  /\ seeded \subseteq {"organization", "branch"}
  /\ recorded \in [Ids -> SUBSET {"event", "audit"}]
  /\ req \in [Requests -> [stage : Stages, new : Row, id : Ids \cup {Null}]]
  /\ \A r \in Requests : req[r].stage \in {"event", "audit", "reading"} => req[r].id \in Ids
  /\ failures \in Nat

\* users.service.ts:31: the check is made long before the insert, beside other
\* requests and the seed script, and an e-mail address still names one user.
EmailNamesOneUser ==
  \A i, j \in Ids :
    In(i, "user") /\ In(j, "user") /\ row[i].keys \cap row[j].keys # {} => i = j

Sharing(table, k) == {i \in Ids : In(i, table) /\ k \in row[i].keys}
\* vehicles.service.ts:213, customers.service.ts:31: a plate, a VIN or a phone
\* number is doubled only by requests that overlap, so that no more rows share
\* it than there were ever requests at once.
OnlyOverlapDoubles ==
  \A table \in {"vehicle", "customer"}, k \in Keys :
    Cardinality(Sharing(table, k)) <= Cardinality(Requests)

\* documents.service.ts:57-70, :119: whatever fails and whoever else uploads, the
\* row of a document has a file of its own, complete, and so does a download
\* that has read the row.
DocumentHasItsFile ==
  /\ \A i \in Ids : In(i, "document") => row[i].file # Null /\ disk[row[i].file] = "whole"
  /\ \A i, j \in Ids :
       In(i, "document") /\ In(j, "document") /\ row[i].file = row[j].file => i = j
  /\ \A r \in Requests : At(r, "reading") => disk[req[r].new.file] = "whole"

HeldByRow == {row[i].file : i \in Ids}
HeldByRequest == {req[r].new.file : r \in Requests}
Orphans == {f \in Files : disk[f] # "absent"} \ (HeldByRow \cup HeldByRequest)
\* documents.service.ts:59: the file comes before its row, and a failure between
\* the two leaves one file that nothing names; nothing else does.
OrphansComeFromFailures == Cardinality(Orphans) <= failures

\* documents.service.ts:100: two revisions of one document may have the same
\* number, but a version is always the length of the chain of documents it
\* supersedes, and the whole chain is about one entity.
VersionIsDepth ==
  \A i \in Ids :
    In(i, "document") =>
      \/ row[i].version = 1 /\ row[i].parent = Null
      \/ /\ row[i].parent \in Ids /\ In(row[i].parent, "document")
         /\ row[i].version = row[row[i].parent].version + 1
         /\ row[i].about = row[row[i].parent].about

Expected(table) == IF table = "vehicle" THEN {"event", "audit"} ELSE {"audit"}
Unrecorded == {i \in Ids : /\ Exists(i) /\ OwnerEmail \notin row[i].keys
                           /\ recorded[i] # Expected(row[i].table)
                           /\ \A r \in Requests : req[r].id # i}
\* A row's event and its audit row are calls of their own after the insert: a
\* row that lacks one of them, and that no request is still at work on, was
\* left by a failure.  The owner is exempt: the seed script records nothing.
UnrecordedComeFromFailures == Cardinality(Unrecorded) <= failures

-----------------------------------------------------------------------------
(* What the repository says and the code does not keep *)

\* schema.prisma:136, "A given license plate or VIN should not appear twice
\* among vehicles that are not soft-deleted", enforced in assertNoDuplicate.
VehicleListedOnce ==
  \A i, j \in Ids :
    In(i, "vehicle") /\ In(j, "vehicle") /\ row[i].keys \cap row[j].keys # {} => i = j

=============================================================================
