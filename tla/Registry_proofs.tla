--------------------------- MODULE Registry_proofs ---------------------------
(***************************************************************************)
(* Safety of Registry for any number of rows, files and requests in        *)
(* flight, and for any number of failed calls.                             *)
(***************************************************************************)
EXTENDS Registry, FiniteSetTheorems, TLAPS

\* VersionIsDepth, of one row that is there or is about to be.
InChain(new) ==
  \/ new.version = 1 /\ new.parent = Null
  \/ /\ new.parent \in Ids /\ In(new.parent, "document")
     /\ new.version = row[new.parent].version + 1
     /\ new.about = row[new.parent].about

\* The request has the name of a file for a row that is not there yet.
Holds(e) == e.stage = "writing" \/ (e.stage = "insert" /\ e.new.table = "document")

RequestOK(e) ==
  /\ e.stage = "save" \/ Holds(e) => e.new.table = "document" /\ InChain(e.new)
  /\ Holds(e) => e.new.file \in Files
  /\ e.stage = "insert" /\ Holds(e) => disk[e.new.file] = "whole"
  /\ Holds(e) => disk[e.new.file] # "absent"
  /\ e.stage = "seed owner" => e.new.table = "user"
  /\ e.stage = "reading" => e.new.file \in Files /\ disk[e.new.file] = "whole"

\* No file is between two requests, or a request and a row.
FilesApart ==
  \A r \in Requests : Holds(req[r]) =>
    /\ \A s \in Requests : Holds(req[s]) /\ req[s].new.file = req[r].new.file => s = r
    /\ \A i \in Ids : In(i, "document") => row[i].file # req[r].new.file

IInv == /\ TypeOK /\ EmailNamesOneUser /\ DocumentHasItsFile /\ VersionIsDepth
        /\ \A r \in Requests : RequestOK(req[r])
        /\ FilesApart

-----------------------------------------------------------------------------
(* Types *)

Entry == [stage : Stages, new : Row, id : Ids \cup {Null}]
Knows(e) == e.stage \in {"event", "audit", "reading"} => e.id \in Ids

LEMMA RowTypes ==
  ASSUME NEW table \in Tables \cup {"none"}, NEW keys \in SUBSET Keys,
         NEW parent \in Ids \cup {Null}, NEW about \in Subjects \cup {Null},
         NEW version \in Nat
  PROVE  RowOf(table, keys, parent, about, version) \in Row
BY DEF RowOf, Row

LEMMA IdleOK == NoRow \in Row /\ Idle \in Entry /\ Knows(Idle) /\ Idle.stage = "idle"
<1>1. NoRow \in Row
  BY RowTypes DEF NoRow
<1>2. QED
  BY <1>1 DEF Idle, Doing, Entry, Stages, Knows

LEMMA DoingOK ==
  ASSUME NEW stage \in Stages, NEW new \in Row, NEW i \in Ids \cup {Null},
         stage \in {"event", "audit", "reading"} => i \in Ids
  PROVE  Doing(stage, new, i) \in Entry /\ Knows(Doing(stage, new, i))
BY DEF Doing, Entry, Knows

\* A step that gives one request an entry of the right type, and rows, files and
\* records theirs.
LEMMA TypeOfStep ==
  ASSUME TypeOK, NEW r \in Requests, NEW entry \in Entry, Knows(entry), Become(r, entry),
         row' \in [Ids -> Row], disk' \in [Files -> {"absent", "partial", "whole"}],
         seeded' \subseteq {"organization", "branch"},
         recorded' \in [Ids -> SUBSET {"event", "audit"}], failures' \in Nat
  PROVE  TypeOK'
<1>1. req' \in [Requests -> Entry]
  BY DEF TypeOK, Become, Entry
<1>2. \A s \in Requests : req'[s].stage \in {"event", "audit", "reading"} => req'[s].id \in Ids
  BY DEF TypeOK, Become, Knows
<1>3. QED
  BY <1>1, <1>2 DEF TypeOK, Entry

\* A check that accepts leaves a request with the row it is going to insert.
LEMMA TypeOfCheck ==
  ASSUME TypeOK, NEW r \in Requests, Check(r)
  PROVE  TypeOK'
<1>1. SUFFICES ASSUME NEW stage \in {"insert", "save"}, NEW new \in Row, Accept(r, stage, new)
               PROVE  TypeOK'
  <2>1. /\ \A p \in Optional(Plates) : p \subseteq Keys
        /\ \A v \in Optional(Vins) : v \subseteq Keys
        /\ \A x \in Phones \cup Emails : {x} \subseteq Keys
    BY DEF Optional, Keys
  <2>2. {"vehicle", "customer", "user", "expense", "branch", "document"} \subseteq Tables
    BY DEF Tables
  <2>3. CASE \E plate \in Optional(Plates), vin \in Optional(Vins) : CheckVehicle(r, plate, vin)
    BY <1>1, <2>1, <2>2, <2>3, RowTypes DEF CheckVehicle
  <2>4. CASE \E phone \in Phones : CheckCustomer(r, phone)
    BY <1>1, <2>1, <2>2, <2>4, RowTypes DEF CheckCustomer
  <2>5. CASE \E email \in Emails : CheckUser(r, email)
    BY <1>1, <2>1, <2>2, <2>5, RowTypes DEF CheckUser
  <2>6. CASE \E subject \in Subjects : AcceptUpload(r, subject)
    BY <1>1, <2>2, <2>6, RowTypes DEF AcceptUpload
  <2>7. CASE \E d \in Ids, subject \in Subjects : AcceptRevision(r, d, subject)
    <3>1. PICK d \in Ids, subject \in Subjects : AcceptRevision(r, d, subject)
      BY <2>7
    <3>2. row[d].about \in Subjects \cup {Null} /\ row[d].version + 1 \in Nat
      BY DEF TypeOK, Row
    <3>3. RevisionOf(d, subject) \in Row
      BY <2>2, <3>2, RowTypes DEF RevisionOf
    <3>4. QED
      BY <1>1, <3>1, <3>3 DEF AcceptRevision
  <2>8. CASE \E v \in Ids : FindVehicle(r, v)
    BY <1>1, <2>2, <2>8, RowTypes DEF FindVehicle
  <2>9. CASE FindOrganization(r)
    BY <1>1, <2>2, <2>9, RowTypes DEF FindOrganization
  <2>10. QED
    BY <2>3, <2>4, <2>5, <2>6, <2>7, <2>8, <2>9 DEF Check
<1>2. Doing(stage, new, Null) \in Entry /\ Knows(Doing(stage, new, Null))
  BY DoingOK DEF Stages
<1>3. QED
  BY <1>1, <1>2, TypeOfStep DEF Accept, TypeOK

LEMMA TypeInit == Init => TypeOK
<1>1. SUFFICES ASSUME Init PROVE TypeOK
  OBVIOUS
<1>2. row \in [Ids -> Row]
  BY <1>1, IdleOK DEF Init
<1>3. req \in [Requests -> Entry] /\ \A r \in Requests : Knows(req[r])
  BY <1>1, IdleOK DEF Init
<1>4. QED
  BY <1>1, <1>2, <1>3 DEF Init, TypeOK, Entry, Knows

\* Next, one request at a time.
StepOf(r) ==
  \/ Check(r)
  \/ \E f \in Files : BeginWrite(r, f)
  \/ \E i \in Ids : FindDocument(r, i) \/ Insert(r, i) \/ SeedOwner(r, i)
  \/ EndWrite(r) \/ ReadFile(r)
  \/ InsertRefused(r) \/ RecordEvent(r) \/ RecordAudit(r) \/ Fail(r)
  \/ SeedOrganization(r) \/ SeedBranch(r) \/ Unchanged(r)

LEMMA NextIsStep == Next <=> \E r \in Requests : StepOf(r)
BY Zenon DEF Next, StepOf

LEMMA TypeStep == TypeOK /\ [Next]_vars => TypeOK'
<1>1. CASE UNCHANGED vars
  BY <1>1 DEF TypeOK, vars
<1>2. SUFFICES ASSUME TypeOK, NEW r \in Requests, StepOf(r) PROVE TypeOK'
  BY <1>1, NextIsStep
<1> DEFINE new == req[r].new
<1>3. /\ new \in Row /\ NoRow \in Row
      /\ req[r].id \in Ids \cup {Null}
      /\ req[r].stage \in {"event", "audit", "reading"} => req[r].id \in Ids
  BY <1>2, IdleOK DEF TypeOK
<1>4. CASE Check(r)
  BY <1>2, <1>4, TypeOfCheck
<1>5. CASE \E f \in Files : BeginWrite(r, f)
  <2>1. PICK f \in Files : BeginWrite(r, f)
    BY <1>5
  <2>2. [new EXCEPT !.file = f] \in Row
    BY <1>3 DEF Row
  <2>3. QED
    BY <1>2, <2>1, <2>2, DoingOK, TypeOfStep DEF BeginWrite, Stages, TypeOK
<1>6. CASE \E d \in Ids : FindDocument(r, d)
  <2>1. PICK d \in Ids : FindDocument(r, d)
    BY <1>6
  <2>2. row[d] \in Row
    BY <1>2 DEF TypeOK
  <2>3. QED
    BY <1>2, <2>1, <2>2, DoingOK, TypeOfStep DEF FindDocument, Stages, TypeOK
<1>7. CASE \E i \in Ids : Insert(r, i)
  <2>1. PICK i \in Ids : Insert(r, i)
    BY <1>7
  <2>2. AfterInsert(new) \in {"event", "audit"}
    BY DEF AfterInsert
  <2>3. Doing(AfterInsert(new), NoRow, i) \in Entry /\ Knows(Doing(AfterInsert(new), NoRow, i))
    BY <1>3, <2>2, DoingOK DEF Stages
  <2>4. row' \in [Ids -> Row]
    BY <1>2, <1>3, <2>1 DEF Insert, TypeOK
  <2>5. QED
    BY <1>2, <2>1, <2>3, <2>4, TypeOfStep DEF Insert, TypeOK
<1>8. CASE \E i \in Ids : SeedOwner(r, i)
  <2>1. PICK i \in Ids : SeedOwner(r, i)
    BY <1>8
  <2>2. row' \in [Ids -> Row]
    BY <1>2, <1>3, <2>1 DEF SeedOwner, TypeOK
  <2>3. QED
    BY <1>2, <2>1, <2>2, IdleOK, TypeOfStep DEF SeedOwner, TypeOK
<1>9. CASE EndWrite(r)
  <2>1. Doing("insert", new, Null) \in Entry /\ Knows(Doing("insert", new, Null))
    BY <1>3, DoingOK DEF Stages
  <2>2. disk' \in [Files -> {"absent", "partial", "whole"}]
    BY <1>2, <1>9 DEF EndWrite, TypeOK
  <2>3. QED
    BY <1>2, <1>9, <2>1, <2>2, TypeOfStep DEF EndWrite, TypeOK
<1>10. CASE ReadFile(r) \/ InsertRefused(r)
  BY <1>2, <1>10, IdleOK, TypeOfStep DEF ReadFile, InsertRefused, TypeOK
<1>11. CASE Fail(r)
  BY <1>2, <1>11, IdleOK, TypeOfStep DEF Fail, TypeOK
<1>12. CASE RecordEvent(r)
  <2>1. req[r].id \in Ids
    BY <1>3, <1>12 DEF RecordEvent, At
  <2>2. Doing("audit", NoRow, req[r].id) \in Entry /\ Knows(Doing("audit", NoRow, req[r].id))
    BY <1>3, <2>1, DoingOK DEF Stages
  <2>3. recorded' \in [Ids -> SUBSET {"event", "audit"}]
    BY <1>2, <1>12 DEF RecordEvent, TypeOK
  <2>4. QED
    BY <1>2, <1>12, <2>2, <2>3, TypeOfStep DEF RecordEvent, TypeOK
<1>13. CASE RecordAudit(r)
  <2>1. recorded' \in [Ids -> SUBSET {"event", "audit"}]
    BY <1>2, <1>13 DEF RecordAudit, TypeOK
  <2>2. QED
    BY <1>2, <1>13, <2>1, IdleOK, TypeOfStep DEF RecordAudit, TypeOK
<1>14. CASE SeedOrganization(r)
  <2>1. Doing("seed branch", NoRow, Null) \in Entry /\ Knows(Doing("seed branch", NoRow, Null))
    BY <1>3, DoingOK DEF Stages
  <2>2. QED
    BY <1>2, <1>14, <2>1, TypeOfStep DEF SeedOrganization, TypeOK
<1>15. CASE SeedBranch(r)
  <2>1. RowOf("user", {OwnerEmail}, Null, Null, 0) \in Row
    BY RegistryAssumption, RowTypes DEF Tables, Keys
  <2>2. /\ Doing("seed owner", RowOf("user", {OwnerEmail}, Null, Null, 0), Null) \in Entry
        /\ Knows(Doing("seed owner", RowOf("user", {OwnerEmail}, Null, Null, 0), Null))
    BY <2>1, DoingOK DEF Stages
  <2>3. QED
    BY <1>2, <1>15, <2>2, TypeOfStep DEF SeedBranch, TypeOK
<1>16. CASE Unchanged(r)
  BY <1>2, <1>16 DEF Unchanged, TypeOK, vars
<1>17. QED
  BY <1>2, <1>4, <1>5, <1>6, <1>7, <1>8, <1>9, <1>10, <1>11, <1>12, <1>13, <1>14, <1>15, <1>16
     DEF StepOf

\* Tables, files and requests keep their shape, for every value of the constants.
THEOREM TypeCorrect == Spec => []TypeOK
<1>1. Init => TypeOK
  BY TypeInit
<1>2. TypeOK /\ [Next]_vars => TypeOK'
  BY TypeStep
<1>3. QED
  BY <1>1, <1>2, PTL DEF Spec

-----------------------------------------------------------------------------
(* Steps that leave rows and files alone *)

\* A check accepts a row that is no document, or a document that extends a chain.
LEMMA Checked ==
  ASSUME TypeOK, NEW r \in Requests, Check(r)
  PROVE  \E stage, new : /\ Accept(r, stage, new)
                         /\ \/ stage = "insert" /\ new.table # "document"
                            \/ stage = "save" /\ new.table = "document" /\ InChain(new)
<1>1. CASE \E d \in Ids, subject \in Subjects : AcceptRevision(r, d, subject)
  <2>1. PICK d \in Ids, subject \in Subjects : AcceptRevision(r, d, subject)
    BY <1>1
  <2>2. RevisionOf(d, subject).table = "document" /\ InChain(RevisionOf(d, subject))
    BY <2>1 DEF AcceptRevision, RevisionOf, RowOf, InChain
  <2>3. Accept(r, "save", RevisionOf(d, subject))
    BY <2>1 DEF AcceptRevision
  <2>4. QED
    BY <2>2, <2>3
<1>2. CASE \E subject \in Subjects : AcceptUpload(r, subject)
  <2>1. PICK subject \in Subjects : AcceptUpload(r, subject)
    BY <1>2
  <2> DEFINE new == RowOf("document", {}, Null, subject, 1)
  <2>2. new.table = "document" /\ InChain(new)
    BY DEF RowOf, InChain
  <2>3. Accept(r, "save", new)
    BY <2>1 DEF AcceptUpload
  <2>4. QED
    BY <2>2, <2>3
<1>3. CASE \/ \E plate \in Optional(Plates), vin \in Optional(Vins) : CheckVehicle(r, plate, vin)
           \/ \E phone \in Phones : CheckCustomer(r, phone)
           \/ \E email \in Emails : CheckUser(r, email)
           \/ \E v \in Ids : FindVehicle(r, v)
           \/ FindOrganization(r)
  <2>1. \E new : Accept(r, "insert", new) /\ new.table # "document"
    <3>1. ASSUME NEW keys, NEW parent, NEW table \in Tables \ {"document"}
          PROVE  RowOf(table, keys, parent, Null, 0).table # "document"
      BY DEF RowOf
    <3>2. {"vehicle", "customer", "user", "expense", "branch"} \subseteq Tables \ {"document"}
      BY DEF Tables
    <3>3. CASE \E plate \in Optional(Plates), vin \in Optional(Vins) : CheckVehicle(r, plate, vin)
      BY <3>1, <3>2, <3>3 DEF CheckVehicle
    <3>4. CASE \E phone \in Phones : CheckCustomer(r, phone)
      BY <3>1, <3>2, <3>4 DEF CheckCustomer
    <3>5. CASE \E email \in Emails : CheckUser(r, email)
      BY <3>1, <3>2, <3>5 DEF CheckUser
    <3>6. CASE (\E v \in Ids : FindVehicle(r, v)) \/ FindOrganization(r)
      BY <3>1, <3>2, <3>6 DEF FindVehicle, FindOrganization
    <3>7. QED
      BY <1>3, <3>3, <3>4, <3>5, <3>6
  <2>2. QED
    BY <2>1
<1>4. QED
  BY <1>1, <1>2, <1>3 DEF Check

DocumentsStay == \A i \in Ids : In(i, "document") => row'[i] = row[i]
\* The file of a request stays as it is, or is completed.
FileStays(e) == e.stage = "reading" \/ Holds(e)
                  => disk'[e.new.file] = disk[e.new.file] \/ disk'[e.new.file] = "whole"

LEMMA ChainKept ==
  ASSUME NEW e, InChain(e), DocumentsStay
  PROVE  InChain(e)'
BY DEF InChain, DocumentsStay, In

LEMMA RequestKept ==
  ASSUME NEW e, RequestOK(e), DocumentsStay, FileStays(e)
  PROVE  RequestOK(e)'
<1>1. e.stage = "save" \/ Holds(e) => InChain(e.new)'
  <2>1. PICK new : new = e.new
    OBVIOUS
  <2>2. InChain(new) => InChain(new)'
    BY ChainKept
  <2>3. QED
    BY <2>1, <2>2 DEF RequestOK
<1>2. QED
  BY <1>1 DEF RequestOK, FileStays, Holds

\* The requests that a step does not touch.
LEMMA OthersKept ==
  ASSUME IInv, NEW r \in Requests, DocumentsStay,
         \A s \in Requests : s # r => req'[s] = req[s] /\ FileStays(req[s])
  PROVE  \A s \in Requests : s # r => RequestOK(req[s])'
<1>1. SUFFICES ASSUME NEW s \in Requests, s # r PROVE RequestOK(req[s])'
  OBVIOUS
<1>2. PICK e : e = req[s]
  OBVIOUS
<1>3. RequestOK(e) /\ FileStays(e) /\ req'[s] = e
  BY <1>1, <1>2 DEF IInv
<1>4. RequestOK(e)'
  BY <1>3, RequestKept
<1>5. QED
  BY <1>3, <1>4

\* A request that comes by no file, or gives one up, leaves the invariant alone.
LEMMA Quiet ==
  ASSUME IInv, TypeOK', NEW r \in Requests, NEW entry, Become(r, entry),
         UNCHANGED <<row, disk>>, RequestOK(entry), ~Holds(entry)
  PROVE  IInv'
<1>1. req'[r] = entry /\ \A s \in Requests : s # r => req'[s] = req[s]
  BY DEF IInv, TypeOK, Become
<1>2. (\A s \in Requests : RequestOK(req[s]))'
  <2>1. DocumentsStay /\ \A e : FileStays(e)
    BY DEF DocumentsStay, FileStays
  <2>2. RequestOK(entry)'
    BY <2>1, RequestKept
  <2>3. QED
    BY <1>1, <2>1, <2>2, OthersKept
<1>3. EmailNamesOneUser' /\ VersionIsDepth'
  BY DEF IInv, EmailNamesOneUser, VersionIsDepth, In
<1>4. DocumentHasItsFile'
  BY <1>2 DEF IInv, DocumentHasItsFile, In, At, RequestOK
<1>5. FilesApart'
  BY <1>1 DEF IInv, FilesApart, Holds, In
<1>6. QED
  BY <1>2, <1>3, <1>4, <1>5 DEF IInv

-----------------------------------------------------------------------------
(* Steps that touch a file or insert a row *)

LEMMA BeginWriteStep ==
  ASSUME IInv, TypeOK', NEW r \in Requests, NEW f \in Files, BeginWrite(r, f)
  PROVE  IInv'
<1>1. /\ req'[r].stage = "writing" /\ req'[r].new = [req[r].new EXCEPT !.file = f]
      /\ \A s \in Requests : s # r => req'[s] = req[s]
  BY DEF IInv, TypeOK, BeginWrite, Become, Doing
<1>2. req[r].stage = "save" /\ req[r].new \in Row
  BY DEF IInv, TypeOK, BeginWrite, At
<1>3. /\ req'[r].new.file = f /\ req'[r].new.table = req[r].new.table
      /\ req'[r].new.version = req[r].new.version /\ req'[r].new.parent = req[r].new.parent
      /\ req'[r].new.about = req[r].new.about
  BY <1>1, <1>2 DEF Row
<1>4. /\ row' = row /\ disk[f] = "absent" /\ disk'[f] = "partial"
      /\ \A g \in Files : g # f => disk'[g] = disk[g]
  BY DEF IInv, TypeOK, BeginWrite, FreshName
<1>5. (\A s \in Requests : RequestOK(req[s]))'
  <2>1. RequestOK(req[r])'
    <3>1. InChain(req[r].new) /\ req[r].new.table = "document"
      BY <1>2 DEF IInv, RequestOK
    <3>2. InChain(req[r].new)'
      BY <1>3, <1>4, <3>1 DEF InChain, In
    <3>3. QED
      BY <1>1, <1>3, <1>4, <3>1, <3>2 DEF RequestOK, Holds
  <2>2. DocumentsStay /\ \A s \in Requests : FileStays(req[s])
    BY <1>4 DEF DocumentsStay, FileStays, IInv, RequestOK
  <2>3. QED
    BY <1>1, <2>1, <2>2, OthersKept
<1>6. EmailNamesOneUser' /\ VersionIsDepth'
  BY <1>4 DEF IInv, EmailNamesOneUser, VersionIsDepth, In
<1>7. \A i \in Ids : In(i, "document") => row[i].file \in Files /\ row[i].file # f
  BY <1>4 DEF IInv, TypeOK, Row, DocumentHasItsFile
<1>8. DocumentHasItsFile'
  BY <1>4, <1>5, <1>7 DEF IInv, DocumentHasItsFile, In, At, RequestOK
<1>9. FilesApart'
  <2>1. ASSUME NEW s \in Requests, s # r, Holds(req[s]) PROVE req[s].new.file # f
    BY <1>4, <2>1 DEF IInv, RequestOK
  <2>2. QED
    <3>1. ASSUME NEW s \in Requests, Holds(req[s])'
          PROVE  /\ \A t \in Requests : Holds(req[t])' /\ req'[t].new.file = req'[s].new.file => t = s
                 /\ \A i \in Ids : In(i, "document")' => row'[i].file # req'[s].new.file
      <4>1. \A t \in Requests : t # r /\ Holds(req[t])' => Holds(req[t]) /\ req'[t] = req[t]
        BY <1>1 DEF Holds
      <4>2. CASE s = r
        BY <1>3, <1>4, <1>7, <2>1, <4>1, <4>2 DEF In
      <4>3. CASE s # r
        BY <1>3, <1>4, <2>1, <3>1, <4>1, <4>3 DEF IInv, FilesApart, In
      <4>4. QED
        BY <4>2, <4>3
    <3>2. QED
      BY <3>1 DEF FilesApart
<1>10. QED
  BY <1>5, <1>6, <1>8, <1>9 DEF IInv

LEMMA EndWriteStep ==
  ASSUME IInv, TypeOK', NEW r \in Requests, EndWrite(r)
  PROVE  IInv'
<1> DEFINE f == req[r].new.file
<1>1. /\ req'[r].stage = "insert" /\ req'[r].new = req[r].new
      /\ \A s \in Requests : s # r => req'[s] = req[s]
  BY DEF IInv, TypeOK, EndWrite, Become, Doing
<1>2. req[r].stage = "writing" /\ Holds(req[r]) /\ f \in Files
  BY DEF IInv, EndWrite, At, Holds, RequestOK
<1>3. /\ row' = row /\ disk'[f] = "whole"
      /\ \A g \in Files : g # f => disk'[g] = disk[g]
  BY <1>2 DEF IInv, TypeOK, EndWrite
<1>4. (\A s \in Requests : RequestOK(req[s]))'
  <2>1. RequestOK(req[r])'
    BY <1>1, <1>2, <1>3 DEF IInv, RequestOK, InChain, In, Holds
  <2>2. DocumentsStay /\ \A s \in Requests : FileStays(req[s])
    BY <1>2, <1>3 DEF DocumentsStay, FileStays, IInv, RequestOK
  <2>3. QED
    BY <1>1, <2>1, <2>2, OthersKept
<1>5. EmailNamesOneUser' /\ VersionIsDepth'
  BY <1>3 DEF IInv, EmailNamesOneUser, VersionIsDepth, In
<1>6. \A i \in Ids : In(i, "document") => row[i].file \in Files
  BY DEF IInv, TypeOK, Row, DocumentHasItsFile
<1>7. DocumentHasItsFile'
  BY <1>3, <1>4, <1>6 DEF IInv, DocumentHasItsFile, In, At, RequestOK
<1>8. FilesApart'
  BY <1>1, <1>2, <1>3 DEF IInv, FilesApart, Holds, In
<1>9. QED
  BY <1>4, <1>5, <1>7, <1>8 DEF IInv

\* Where a row is added, the others stay, and no chain of documents breaks.
LEMMA AddedStep ==
  ASSUME IInv, TypeOK', NEW r \in Requests, NEW i \in Ids, NEW new \in Row, NEW entry,
         ~Exists(i), row' = [row EXCEPT ![i] = new], disk' = disk, ~BreaksIndex(new),
         Become(r, entry), RequestOK(entry), ~Holds(entry), entry.stage # "save",
         new.table = "document" => new = req[r].new /\ req[r].stage = "insert"
  PROVE  IInv'
<1>1. req'[r] = entry /\ \A s \in Requests : s # r => req'[s] = req[s]
  BY DEF IInv, TypeOK, Become
<1>2. row'[i] = new /\ (\A j \in Ids : j # i => row'[j] = row[j]) /\ ~In(i, "document")
  BY DEF IInv, TypeOK, Exists, In
<1>3. DocumentsStay /\ \A e : FileStays(e)
  BY <1>2 DEF DocumentsStay, FileStays
<1>4. (\A s \in Requests : RequestOK(req[s]))'
  <2>1. RequestOK(entry)'
    BY <1>3, RequestKept
  <2>2. QED
    BY <1>1, <1>3, <2>1, OthersKept
<1>5. EmailNamesOneUser'
  <2>1. ASSUME NEW j \in Ids, j # i, In(j, "user"), new.table = "user"
        PROVE  row[j].keys \cap new.keys = {}
    BY <2>1 DEF BreaksIndex, Taken
  <2>2. QED
    BY <1>2, <2>1 DEF IInv, EmailNamesOneUser, In
<1>6. new.table = "document" =>
        /\ InChain(new) /\ new.file \in Files /\ disk[new.file] = "whole"
        /\ \A j \in Ids : In(j, "document") => row[j].file # new.file
        /\ \A s \in Requests : Holds(req[s]) /\ s # r => req[s].new.file # new.file
  BY DEF IInv, RequestOK, FilesApart, Holds
<1>7. VersionIsDepth'
  <2>1. ASSUME NEW j \in Ids, In(j, "document")'
        PROVE  InChain(row[j])'
    <3>1. PICK e : e = row'[j] /\ InChain(e)
      BY <1>2, <1>6, <2>1 DEF IInv, VersionIsDepth, InChain, In
    <3>2. QED
      BY <1>3, <3>1, ChainKept
  <2>2. QED
    BY <2>1 DEF VersionIsDepth, InChain, In
<1>8. DocumentHasItsFile'
  <2>1. \A j \in Ids : In(j, "document")' => row'[j].file # Null /\ disk'[row'[j].file] = "whole"
    BY <1>2, <1>6, RegistryAssumption DEF IInv, DocumentHasItsFile, In
  <2>2. \A j, k \in Ids :
          In(j, "document")' /\ In(k, "document")' /\ row'[j].file = row'[k].file => j = k
    BY <1>2, <1>6 DEF IInv, DocumentHasItsFile, In
  <2>3. \A s \in Requests : At(s, "reading")' => disk'[req'[s].new.file] = "whole"
    BY <1>4 DEF RequestOK, At
  <2>4. QED
    BY <2>1, <2>2, <2>3 DEF DocumentHasItsFile
<1>9. FilesApart'
  BY <1>1, <1>2, <1>6 DEF IInv, FilesApart, Holds, In
<1>10. QED
  BY <1>4, <1>5, <1>7, <1>8, <1>9 DEF IInv

-----------------------------------------------------------------------------
LEMMA InvInit == Init => IInv
<1>1. SUFFICES ASSUME Init PROVE IInv
  OBVIOUS
<1>2. \A i \in Ids, t \in Tables : ~In(i, t)
  BY <1>1 DEF Init, NoRow, RowOf, In, Tables
<1>3. \A r \in Requests : req[r] = Idle /\ ~At(r, "reading") /\ ~Holds(req[r]) /\ RequestOK(req[r])
  BY <1>1 DEF Init, Idle, Doing, At, Holds, RequestOK
<1>4. {"user", "document"} \subseteq Tables
  BY DEF Tables
<1>5. QED
  BY <1>1, <1>2, <1>3, <1>4, TypeInit
     DEF IInv, EmailNamesOneUser, DocumentHasItsFile, VersionIsDepth, FilesApart

LEMMA InvStep == IInv /\ [Next]_vars => IInv'
<1>1. ASSUME IInv, [Next]_vars PROVE TypeOK'
  BY <1>1, TypeStep DEF IInv
<1>2. ASSUME IInv, UNCHANGED vars PROVE IInv'
  <2>1. (\A s \in Requests : RequestOK(req[s]))'
    BY <1>2 DEF IInv, vars, RequestOK, Holds, InChain, In
  <2>2. FilesApart'
    BY <1>2 DEF IInv, vars, FilesApart, Holds, In
  <2>3. EmailNamesOneUser' /\ DocumentHasItsFile' /\ VersionIsDepth'
    BY <1>2 DEF IInv, vars, EmailNamesOneUser, DocumentHasItsFile, VersionIsDepth, In, At
  <2>4. QED
    BY <1>1, <1>2, <2>1, <2>2, <2>3 DEF IInv
<1>3. SUFFICES ASSUME IInv, TypeOK', NEW r \in Requests, StepOf(r) PROVE IInv'
  BY <1>1, <1>2, NextIsStep
<1>4. \A entry : entry.stage \notin {"save", "writing", "insert", "seed owner", "reading"}
                  => RequestOK(entry) /\ ~Holds(entry) /\ entry.stage # "save"
  BY DEF RequestOK, Holds
<1>5. \A stage, new, i : Doing(stage, new, i).stage = stage /\ Doing(stage, new, i).new = new
  BY DEF Doing
<1> Idle.stage = "idle"
  BY <1>5 DEF Idle
<1>6. CASE Check(r)
  <2>1. PICK stage, new : /\ Accept(r, stage, new)
                          /\ \/ stage = "insert" /\ new.table # "document"
                             \/ stage = "save" /\ new.table = "document" /\ InChain(new)
    BY <1>3, <1>6, Checked DEF IInv
  <2> DEFINE e == Doing(stage, new, Null)
  <2>2. e.stage = stage /\ e.new = new
    BY DEF Doing
  <2> HIDE DEF e
  <2>3. RequestOK(e) /\ ~Holds(e)
    BY <2>1, <2>2 DEF RequestOK, Holds
  <2>4. QED
    BY <1>3, <2>1, <2>3, Quiet DEF Accept, e
<1>7. CASE \E f \in Files : BeginWrite(r, f)
  BY <1>3, <1>7, BeginWriteStep
<1>8. CASE EndWrite(r)
  BY <1>3, <1>8, EndWriteStep
<1>9. CASE \E i \in Ids : Insert(r, i)
  <2>1. PICK i \in Ids : Insert(r, i)
    BY <1>9
  <2> DEFINE new == req[r].new
  <2>2. AfterInsert(new) \in {"event", "audit"} /\ new \in Row
    BY <1>3 DEF AfterInsert, IInv, TypeOK
  <2>3. /\ RequestOK(Doing(AfterInsert(new), NoRow, i))
        /\ ~Holds(Doing(AfterInsert(new), NoRow, i))
        /\ Doing(AfterInsert(new), NoRow, i).stage # "save"
    <3>1. Doing(AfterInsert(new), NoRow, i).stage = AfterInsert(new)
      BY DEF Doing
    <3>2. QED
      BY <1>4, <2>2, <3>1
  <2>4. QED
    BY <1>3, <2>1, <2>2, <2>3, AddedStep DEF Insert, At
<1>10. CASE \E i \in Ids : SeedOwner(r, i)
  <2>1. PICK i \in Ids : SeedOwner(r, i)
    BY <1>10
  <2> DEFINE new == req[r].new
  <2>2. new \in Row /\ new.table = "user"
    BY <1>3, <2>1 DEF SeedOwner, At, IInv, TypeOK, RequestOK
  <2>3. RequestOK(Idle) /\ ~Holds(Idle) /\ Idle.stage # "save"
    BY <1>4, <1>5
  <2>4. CASE UNCHANGED row
    BY <1>3, <2>1, <2>3, <2>4, Quiet DEF SeedOwner
  <2>5. CASE ~BreaksIndex(new) /\ ~Exists(i) /\ row' = [row EXCEPT ![i] = new]
    BY <1>3, <2>1, <2>2, <2>3, <2>5, AddedStep DEF SeedOwner
  <2>6. QED
    BY <2>1, <2>4, <2>5 DEF SeedOwner
<1>11. CASE \E d \in Ids : FindDocument(r, d)
  <2>1. PICK d \in Ids : FindDocument(r, d)
    BY <1>11
  <2>2. row[d].file \in Files /\ disk[row[d].file] = "whole"
    BY <1>3, <2>1 DEF FindDocument, IInv, DocumentHasItsFile, TypeOK, Row
  <2> DEFINE e == Doing("reading", row[d], d)
  <2>3. e.stage = "reading" /\ e.new = row[d]
    BY DEF Doing
  <2> HIDE DEF e
  <2>4. RequestOK(e) /\ ~Holds(e)
    BY <2>2, <2>3 DEF RequestOK, Holds
  <2>5. QED
    BY <1>3, <2>1, <2>4, Quiet DEF FindDocument, e
<1>12. CASE ReadFile(r) \/ InsertRefused(r) \/ RecordAudit(r) \/ Fail(r)
  <2>1. RequestOK(Idle) /\ ~Holds(Idle)
    BY <1>4, <1>5
  <2>2. Become(r, Idle) /\ UNCHANGED <<row, disk>>
    BY <1>12 DEF ReadFile, InsertRefused, RecordAudit, Fail
  <2>3. QED
    BY <1>3, <2>1, <2>2, Quiet
<1>13. CASE RecordEvent(r) \/ SeedOrganization(r)
  <2>0. PICK stage \in {"audit", "seed branch"} :
               \E i : Become(r, Doing(stage, NoRow, i)) /\ UNCHANGED <<row, disk>>
    BY <1>13 DEF RecordEvent, SeedOrganization
  <2>1. PICK i : Become(r, Doing(stage, NoRow, i)) /\ UNCHANGED <<row, disk>>
    BY <2>0
  <2>2. RequestOK(Doing(stage, NoRow, i)) /\ ~Holds(Doing(stage, NoRow, i))
    <3>1. Doing(stage, NoRow, i).stage = stage
      BY DEF Doing
    <3>2. QED
      BY <1>4, <2>1, <3>1
  <2>3. QED
    BY <1>3, <2>1, <2>2, Quiet
<1>14. CASE SeedBranch(r)
  <2> DEFINE e == Doing("seed owner", RowOf("user", {OwnerEmail}, Null, Null, 0), Null)
  <2>1. e.stage = "seed owner" /\ e.new.table = "user"
    BY DEF Doing, RowOf
  <2> HIDE DEF e
  <2>2. RequestOK(e) /\ ~Holds(e)
    BY <2>1 DEF RequestOK, Holds
  <2>3. QED
    BY <1>3, <1>14, <2>2, Quiet DEF SeedBranch, e
<1>15. CASE Unchanged(r)
  BY <1>2, <1>3, <1>15 DEF Unchanged
<1>16. QED
  BY <1>3, <1>6, <1>7, <1>8, <1>9, <1>10, <1>11, <1>12, <1>13, <1>14, <1>15 DEF StepOf

LEMMA Inductive == Spec => []IInv
<1>1. QED
  BY InvInit, InvStep, PTL DEF Spec

\* users.service.ts:31: an e-mail address names one user, however many requests
\* and runs of the seed script overlap; the database's index is what it rests on.
THEOREM OneUser == Spec => []EmailNamesOneUser
<1>1. IInv => EmailNamesOneUser
  BY DEF IInv
<1>2. QED
  BY <1>1, Inductive, PTL

\* documents.service.ts:57-70: the row of a document has a complete file of its
\* own, and so does a download under way, for any number of requests and failures.
THEOREM FilesComplete == Spec => []DocumentHasItsFile
<1>1. IInv => DocumentHasItsFile
  BY DEF IInv
<1>2. QED
  BY <1>1, Inductive, PTL

\* documents.service.ts:84-115: a version is the length of its chain of revisions.
THEOREM VersionsCount == Spec => []VersionIsDepth
<1>1. IInv => VersionIsDepth
  BY DEF IInv
<1>2. QED
  BY <1>1, Inductive, PTL

-----------------------------------------------------------------------------
(* Counting what failures leave behind *)

\* At most one more, and not more.
LEMMA OneMore ==
  ASSUME NEW S, NEW T, NEW x, NEW n \in Nat,
         IsFiniteSet(S), Cardinality(S) <= n, T \subseteq S \cup {x}
  PROVE  IsFiniteSet(T) /\ Cardinality(T) <= n + 1
<1>1. /\ IsFiniteSet(S \cup {x})
      /\ Cardinality(S \cup {x}) = Cardinality(S) \/ Cardinality(S \cup {x}) = Cardinality(S) + 1
  BY FS_AddElement
<1>2. IsFiniteSet(T) /\ Cardinality(T) <= Cardinality(S \cup {x})
  BY <1>1, FS_Subset
<1>3. Cardinality(S) \in Nat /\ Cardinality(T) \in Nat
  BY <1>2, FS_CardinalityType
<1> QED
  BY <1>1, <1>2, <1>3

LEMMA NotMore ==
  ASSUME NEW S, NEW T, NEW n \in Nat, IsFiniteSet(S), Cardinality(S) <= n, T \subseteq S
  PROVE  IsFiniteSet(T) /\ Cardinality(T) <= n
<1>1. IsFiniteSet(T) /\ Cardinality(T) <= Cardinality(S)
  BY FS_Subset
<1>2. Cardinality(S) \in Nat /\ Cardinality(T) \in Nat
  BY <1>1, FS_CardinalityType
<1> QED
  BY <1>1, <1>2

LEMMA OthersStay ==
  ASSUME TypeOK, NEW r \in Requests, NEW e, Become(r, e)
  PROVE  req'[r] = e /\ \A s \in Requests \ {r} : req'[s] = req[s]
BY DEF TypeOK, Become

-----------------------------------------------------------------------------
(* Files that nothing names *)

\* The file a request names is one it is writing, or the file of a row.
Named(e) == e.new.file = Null \/ Holds(e) \/ (e.stage = "reading" /\ e.new.file \in HeldByRow)
FilesNamed == /\ \A i \in Ids : ~Exists(i) => row[i].file = Null
              /\ \A r \in Requests : Named(req[r])
OInv == /\ IInv /\ FilesNamed
        /\ IsFiniteSet(Orphans) /\ Cardinality(Orphans) <= failures

\* A step that makes at most the file of its own request, and after which a row
\* or the request names what the request named, leaves nothing behind.
LEMMA NothingLeft ==
  ASSUME TypeOK, NEW r \in Requests, NEW e, Become(r, e),
         \A f \in Files : disk'[f] # "absent" => disk[f] # "absent" \/ f = e.new.file,
         HeldByRow \subseteq HeldByRow' \cup {Null},
         req[r].new.file \in {Null, e.new.file} \cup HeldByRow'
  PROVE  Orphans' \subseteq Orphans
<1> SUFFICES ASSUME NEW f \in Orphans' PROVE f \in Orphans
  OBVIOUS
<1>1. /\ f \in Files /\ disk'[f] # "absent" /\ f \notin HeldByRow'
      /\ \A s \in Requests : req'[s].new.file # f
  BY DEF Orphans, HeldByRequest
<1>2. f # e.new.file
  BY <1>1, OthersStay
<1>3. f # Null
  BY <1>1, RegistryAssumption
<1>4. \A s \in Requests : req[s].new.file # f
  BY <1>1, <1>2, <1>3, OthersStay
<1> QED
  BY <1>1, <1>2, <1>3, <1>4 DEF Orphans, HeldByRequest

LEMMA NamedStays ==
  ASSUME TypeOK, FilesNamed, NEW r \in Requests, NEW e, Become(r, e),
         e.new.file = Null \/ Holds(e) \/ (e.stage = "reading" /\ e.new.file \in HeldByRow'),
         HeldByRow \subseteq HeldByRow' \cup {Null},
         \A i \in Ids : row'[i].table = "none" => row'[i].file = Null
  PROVE  FilesNamed'
<1> SUFFICES ASSUME NEW s \in Requests PROVE Named(req[s])'
  BY DEF FilesNamed, Exists
<1>1. CASE s = r
  BY <1>1, OthersStay DEF Named, Holds
<1>2. CASE s # r
  <2>1. req'[s] = req[s] /\ Named(req[s])
    BY <1>2, OthersStay DEF FilesNamed
  <2> QED
    BY <2>1 DEF Named, Holds
<1> QED
  BY <1>1, <1>2

\* A step that touches no row and no file, and gives up none.
LEMMA OrphansRest ==
  ASSUME IInv, FilesNamed, NEW r \in Requests, NEW e, Become(r, e), Named(e),
         UNCHANGED <<row, disk>>
  PROVE  /\ FilesNamed'
         /\ req[r].new.file \in {Null} \cup HeldByRow => Orphans' \subseteq Orphans
<1>1. HeldByRow' = HeldByRow
  BY DEF HeldByRow
<1>2. \A i \in Ids : row'[i].table = "none" => row'[i].file = Null
  BY DEF FilesNamed, Exists
<1> QED
  BY <1>1, <1>2, NothingLeft, NamedStays DEF IInv, Named

\* The request gives its row, and with it the file, to the database.
LEMMA OrphansInserted ==
  ASSUME IInv, FilesNamed, NEW r \in Requests, NEW i \in Ids, ~Exists(i),
         NEW e, Become(r, e), e.new = NoRow, req[r].stage # "reading",
         row' = [row EXCEPT ![i] = req[r].new], UNCHANGED disk
  PROVE  Orphans' \subseteq Orphans /\ FilesNamed'
<1>1. e.new.file = Null
  BY DEF NoRow, RowOf
<1>2. \A j \in Ids : row'[j] = IF j = i THEN req[r].new ELSE row[j]
  BY DEF IInv, TypeOK
<1>3. HeldByRow \subseteq HeldByRow' \cup {Null} /\ req[r].new.file \in HeldByRow'
  <2>1. row[i].file = Null
    BY DEF FilesNamed
  <2> QED
    BY <1>2, <2>1 DEF HeldByRow
<1>4. req[r].new.table = "none" => req[r].new.file = Null
  BY DEF FilesNamed, Named, IInv, RequestOK
<1>5. \A j \in Ids : row'[j].table = "none" => row'[j].file = Null
  BY <1>2, <1>4 DEF FilesNamed, Exists
<1> QED
  BY <1>1, <1>3, <1>5, NothingLeft, NamedStays DEF IInv

\* What a check leaves the request with: a row of some table, without a file,
\* and no other vehicle or customer has its keys.
Sound(stage, new) ==
  /\ stage \in {"insert", "save"} /\ new.table # "none" /\ new.file = Null
  /\ new.table \in {"vehicle", "customer"} => ~Taken(new.table, new.keys)

LEMMA CheckIsSound ==
  ASSUME NEW r \in Requests, Check(r)
  PROVE  \E stage, new : At(r, "idle") /\ Accept(r, stage, new) /\ Sound(stage, new)
<1>1. ASSUME NEW table, NEW keys, NEW parent, NEW about, NEW version, NEW stage,
             stage \in {"insert", "save"}, table # "none",
             table \in {"vehicle", "customer"} => ~Taken(table, keys)
      PROVE  Sound(stage, RowOf(table, keys, parent, about, version))
  BY <1>1 DEF Sound, RowOf
<1> USE <1>1
<1>2. CASE \E plate \in Optional(Plates), vin \in Optional(Vins) : CheckVehicle(r, plate, vin)
  BY <1>2 DEF CheckVehicle
<1>3. CASE (\E phone \in Phones : CheckCustomer(r, phone)) \/ (\E email \in Emails : CheckUser(r, email))
  BY <1>3 DEF CheckCustomer, CheckUser
<1>4. CASE (\E v \in Ids : FindVehicle(r, v)) \/ FindOrganization(r)
  BY <1>4 DEF FindVehicle, FindOrganization
<1>5. CASE \E subject \in Subjects : AcceptUpload(r, subject)
  BY <1>5 DEF AcceptUpload
<1>6. CASE \E d \in Ids, subject \in Subjects : AcceptRevision(r, d, subject)
  BY <1>6 DEF AcceptRevision, RevisionOf
<1> QED
  BY <1>2, <1>3, <1>4, <1>5, <1>6 DEF Check

\* Nothing is left behind by a step that does not fail.
LEMMA OrphansStep ==
  ASSUME IInv, FilesNamed, NEW r \in Requests, StepOf(r)
  PROVE  /\ FilesNamed'
         /\ \/ Orphans' \subseteq Orphans /\ failures' = failures
            \/ Orphans' \subseteq Orphans \cup {req[r].new.file} /\ failures' = failures + 1
<1> DEFINE file == req[r].new.file
<1>1. Named(req[r]) /\ TypeOK
  BY DEF FilesNamed, IInv
<1>2. \A stage, new, i : Doing(stage, new, i).stage = stage /\ Doing(stage, new, i).new = new
  BY DEF Doing
<1>3. NoRow.file = Null /\ Idle.new = NoRow /\ Idle.stage = "idle"
  BY <1>2 DEF NoRow, RowOf, Idle
\* Only a request that writes, inserts a document or downloads names a file.
<1>4. \/ file = Null
      \/ At(r, "writing")
      \/ At(r, "insert") /\ req[r].new.table = "document"
      \/ At(r, "reading") /\ file \in HeldByRow
  BY <1>1 DEF Named, Holds, At
<1>5. CASE Check(r)
  <2>1. PICK stage, new : At(r, "idle") /\ Accept(r, stage, new) /\ new.file = Null
    BY <1>5, CheckIsSound DEF Sound
  <2>2. PICK e : e = Doing(stage, new, Null)
    OBVIOUS
  <2>3. Named(e) /\ Become(r, e) /\ UNCHANGED <<row, disk, failures>>
    BY <2>1, <2>2, <1>2 DEF Named, Accept
  <2>4. file = Null
    BY <1>4, <2>1 DEF At
  <2> QED
    BY <2>3, <2>4, OrphansRest
<1>6. CASE \E f \in Files : BeginWrite(r, f)
  <2>1. PICK f \in Files : BeginWrite(r, f)
    BY <1>6
  <2>2. PICK e : e = Doing("writing", [req[r].new EXCEPT !.file = f], Null)
    OBVIOUS
  <2>3. e.new.file = f /\ e.stage = "writing"
    BY <1>1, <1>2, <2>2 DEF TypeOK, Row
  <2>4. /\ Become(r, e) /\ disk' = [disk EXCEPT ![f] = "partial"]
        /\ UNCHANGED <<row, failures>>
    BY <2>1, <2>2 DEF BeginWrite
  <2>5. file = Null
    BY <1>4, <2>1 DEF At, BeginWrite
  <2>6. HeldByRow' = HeldByRow /\ \A i \in Ids : row'[i].table = "none" => row'[i].file = Null
    BY <2>4 DEF HeldByRow, FilesNamed, Exists
  <2>7. \A g \in Files : disk'[g] # "absent" => disk[g] # "absent" \/ g = e.new.file
    BY <1>1, <2>3, <2>4 DEF TypeOK
  <2>8. FilesNamed'
    BY <1>1, <2>3, <2>4, <2>6, NamedStays DEF Holds
  <2>9. Orphans' \subseteq Orphans
    BY <1>1, <2>4, <2>5, <2>6, <2>7, NothingLeft
  <2> QED
    BY <2>4, <2>8, <2>9
<1>7. CASE EndWrite(r)
  <2>1. PICK e : e = Doing("insert", req[r].new, Null)
    OBVIOUS
  <2>2. e.new = req[r].new /\ e.stage = "insert" /\ req[r].stage = "writing"
    BY <1>2, <1>7, <2>1 DEF EndWrite, At
  <2>3. /\ Become(r, e) /\ disk' = [disk EXCEPT ![file] = "whole"]
        /\ UNCHANGED <<row, failures>>
    BY <1>7, <2>1 DEF EndWrite
  <2>4. HeldByRow' = HeldByRow /\ \A i \in Ids : row'[i].table = "none" => row'[i].file = Null
    BY <2>3 DEF HeldByRow, FilesNamed, Exists
  <2>5. \A g \in Files : disk'[g] # "absent" => disk[g] # "absent" \/ g = e.new.file
    BY <1>1, <2>2, <2>3 DEF TypeOK
  <2>6. Holds(e)
    BY <2>2 DEF Holds, IInv, RequestOK
  <2>7. FilesNamed'
    BY <1>1, <2>3, <2>4, <2>6, NamedStays
  <2>8. Orphans' \subseteq Orphans
    BY <1>1, <2>2, <2>3, <2>4, <2>5, NothingLeft
  <2> QED
    BY <2>3, <2>7, <2>8
<1>8. CASE \E d \in Ids : FindDocument(r, d)
  <2>1. PICK d \in Ids : FindDocument(r, d)
    BY <1>8
  <2>2. PICK e : e = Doing("reading", row[d], d)
    OBVIOUS
  <2>3. Named(e)
    BY <1>2, <2>2 DEF Named, HeldByRow
  <2>4. Become(r, e) /\ UNCHANGED <<row, disk, failures>>
    BY <2>1, <2>2 DEF FindDocument
  <2>5. file = Null
    BY <1>4, <2>1 DEF At, FindDocument
  <2> QED
    BY <2>3, <2>4, <2>5, OrphansRest
<1>9. CASE \E i \in Ids : Insert(r, i)
  <2>1. PICK i \in Ids : Insert(r, i)
    BY <1>9
  <2>2. PICK e : e = Doing(AfterInsert(req[r].new), NoRow, i)
    OBVIOUS
  <2>3. /\ Become(r, e) /\ e.new = NoRow /\ ~Exists(i) /\ req[r].stage # "reading"
        /\ row' = [row EXCEPT ![i] = req[r].new] /\ UNCHANGED <<disk, failures>>
    BY <1>2, <2>1, <2>2 DEF Insert, At
  <2> QED
    BY <2>3, OrphansInserted
<1>10. CASE \E i \in Ids : SeedOwner(r, i)
  <2>1. PICK i \in Ids : SeedOwner(r, i)
    BY <1>10
  <2>2. /\ Become(r, Idle) /\ req[r].stage # "reading" /\ UNCHANGED <<disk, failures>>
        /\ file = Null
    BY <1>4, <2>1 DEF SeedOwner, At
  <2>3. CASE UNCHANGED row
    BY <1>3, <2>2, <2>3, OrphansRest DEF Named
  <2>4. CASE ~Exists(i) /\ row' = [row EXCEPT ![i] = req[r].new]
    BY <1>3, <2>2, <2>4, OrphansInserted
  <2> QED
    BY <2>1, <2>3, <2>4 DEF SeedOwner
\* A download ends; a row refused, or recorded, had no file.
<1>11. CASE ReadFile(r) \/ InsertRefused(r) \/ RecordAudit(r)
  <2>1. Become(r, Idle) /\ UNCHANGED <<row, disk, failures>>
    BY <1>11 DEF ReadFile, InsertRefused, RecordAudit
  <2>2. file \in {Null} \cup HeldByRow
    BY <1>4, <1>11 DEF ReadFile, InsertRefused, RecordAudit, At, BreaksIndex
  <2> QED
    BY <1>3, <2>1, <2>2, OrphansRest DEF Named
<1>12. CASE RecordEvent(r) \/ SeedOrganization(r) \/ SeedBranch(r)
  <2>1. PICK e : Become(r, e) /\ e.new.file = Null
    <3>1. ASSUME NEW stage, NEW new, NEW i, new.file = Null, Become(r, Doing(stage, new, i))
          PROVE  \E e : Become(r, e) /\ e.new.file = Null
      BY <1>2, <3>1
    <3>2. RowOf("user", {OwnerEmail}, Null, Null, 0).file = Null
      BY DEF RowOf
    <3> QED
      BY <1>3, <1>12, <3>1, <3>2 DEF RecordEvent, SeedOrganization, SeedBranch
  <2>2. UNCHANGED <<row, disk, failures>> /\ file = Null
    BY <1>4, <1>12 DEF RecordEvent, SeedOrganization, SeedBranch, At
  <2> QED
    BY <2>1, <2>2, OrphansRest DEF Named
<1>13. CASE Fail(r)
  <2>1. Become(r, Idle) /\ UNCHANGED <<row, disk>> /\ failures' = failures + 1
    BY <1>13 DEF Fail
  <2>2. FilesNamed'
    BY <1>3, <2>1, OrphansRest DEF Named
  <2>3. ASSUME NEW f \in Orphans', f # file PROVE f \in Orphans
    <3>1. \A s \in Requests : req[s].new.file # f
      BY <1>1, <2>1, <2>3, OthersStay DEF Orphans, HeldByRequest
    <3> QED
      BY <2>1, <3>1 DEF Orphans, HeldByRow, HeldByRequest
  <2> QED
    BY <2>1, <2>2, <2>3
<1>14. CASE Unchanged(r)
  BY <1>14 DEF Unchanged, vars, FilesNamed, Named, Holds, Exists, Orphans, HeldByRow, HeldByRequest
<1> QED
  BY <1>5, <1>6, <1>7, <1>8, <1>9, <1>10, <1>11, <1>12, <1>13, <1>14 DEF StepOf

\* documents.service.ts:59: every file that neither a row nor a request names
\* was left by a failed call of its own, for any number of uploads at once.
THEOREM OrphansCounted == Spec => []OrphansComeFromFailures
<1>1. Init => OInv
  <2> SUFFICES ASSUME Init PROVE OInv
    OBVIOUS
  <2>1. \A i \in Ids : row[i].file = Null
    BY DEF Init, NoRow, RowOf
  <2>2. \A r \in Requests : req[r].new.file = Null
    BY DEF Init, Idle, Doing, NoRow, RowOf
  <2>3. Orphans = {} /\ failures = 0
    BY DEF Init, Orphans
  <2>4. IsFiniteSet(Orphans) /\ Cardinality(Orphans) <= failures
    BY <2>3, FS_EmptySet
  <2> QED
    BY <2>1, <2>2, <2>4, InvInit DEF OInv, FilesNamed, Named
<1>2. OInv /\ [Next]_vars => OInv'
  <2> SUFFICES ASSUME OInv, [Next]_vars PROVE OInv'
    OBVIOUS
  <2>1. IInv'
    BY InvStep DEF OInv
  <2>2. CASE UNCHANGED vars
    BY <2>1, <2>2 DEF OInv, vars, FilesNamed, Named, Holds, Exists, Orphans, HeldByRow, HeldByRequest
  <2>3. CASE Next
    <3>1. failures \in Nat
      BY DEF OInv, IInv, TypeOK
    <3>2. PICK r \in Requests : StepOf(r)
      BY <2>3, NextIsStep
    <3>3. FilesNamed'
      BY <3>2, OrphansStep DEF OInv
    <3>4. CASE Orphans' \subseteq Orphans /\ failures' = failures
      BY <2>1, <3>1, <3>3, <3>4, NotMore DEF OInv
    <3>5. CASE Orphans' \subseteq Orphans \cup {req[r].new.file} /\ failures' = failures + 1
      BY <2>1, <3>1, <3>3, <3>5, OneMore DEF OInv
    <3> QED
      BY <3>2, <3>4, <3>5, OrphansStep DEF OInv
  <2> QED
    BY <2>2, <2>3
<1>3. OInv => OrphansComeFromFailures
  BY DEF OInv, OrphansComeFromFailures
<1> QED
  BY <1>1, <1>2, <1>3, PTL DEF Spec

-----------------------------------------------------------------------------
(* Rows whose creation is not recorded *)

Recording(e) == e.stage \in {"event", "audit"}
EntryOK(e) ==
  /\ e.stage \in {"insert", "save", "writing", "seed owner"} => e.new.table # "none"
  /\ e.stage = "seed owner" => OwnerEmail \in e.new.keys
  /\ Recording(e) => Exists(e.id)
  /\ e.stage = "event" => In(e.id, "vehicle") /\ recorded[e.id] = {}
  /\ e.stage = "audit" => recorded[e.id] = Expected(row[e.id].table) \ {"audit"}
\* Every row that is being recorded is recorded by one request.
RBase == /\ TypeOK
         /\ \A i \in Ids : ~Exists(i) => recorded[i] = {}
         /\ \A r \in Requests : EntryOK(req[r])
         /\ \A r, s \in Requests :
              Recording(req[r]) /\ Recording(req[s]) /\ req[r].id = req[s].id => r = s

Lacks(i) == /\ Exists(i) /\ OwnerEmail \notin row[i].keys
            /\ recorded[i] # Expected(row[i].table)
Waited(i) == \E r \in Requests : Recording(req[r]) /\ req[r].id = i
Lacking == {i \in Ids : Lacks(i) /\ ~Waited(i)}
RInv == RBase /\ IsFiniteSet(Lacking) /\ Cardinality(Lacking) <= failures

\* What a request knows of its row, when the step leaves that row alone.
LEMMA EntryKept ==
  ASSUME NEW e, EntryOK(e),
         Recording(e) => row'[e.id] = row[e.id] /\ recorded'[e.id] = recorded[e.id]
  PROVE  EntryOK(e)'
BY DEF EntryOK, Recording, Exists, In

\* A step that writes no row and records nothing; a request may give up.
LEMMA RecordingRests ==
  ASSUME RBase, TypeOK', NEW r \in Requests, NEW e, Become(r, e), EntryOK(e), ~Recording(e),
         UNCHANGED <<row, recorded>>
  PROVE  /\ RBase'
         /\ Lacking' \subseteq Lacking \cup {req[r].id}
         /\ ~Recording(req[r]) => Lacking' \subseteq Lacking
<1>1. req'[r] = e /\ \A s \in Requests \ {r} : req'[s] = req[s]
  BY OthersStay DEF RBase
<1>2. ASSUME NEW s \in Requests PROVE EntryOK(req[s])'
  <2>1. PICK d : d = req'[s] /\ EntryOK(d)
    BY <1>1 DEF RBase
  <2>2. EntryOK(d)'
    BY <2>1, EntryKept
  <2> QED
    BY <2>1, <2>2 DEF EntryOK, Recording
<1>3. RBase'
  BY <1>1, <1>2 DEF RBase, Recording, Exists
<1>4. \A i : Lacks(i)' => Lacks(i)
  BY DEF Lacks, Exists
<1>5. \A i : Waited(i) /\ ~Waited(i)' => Recording(req[r]) /\ i = req[r].id
  BY <1>1 DEF Waited, Recording
<1> QED
  BY <1>3, <1>4, <1>5 DEF Lacking

\* A row is added, which the request goes on to record or is the owner's.
LEMMA RowAdded ==
  ASSUME RBase, TypeOK', NEW r \in Requests, NEW i \in Ids, NEW e,
         ~Exists(i), ~Recording(req[r]), Become(r, e), req[r].new.table # "none",
         row' = [row EXCEPT ![i] = req[r].new], UNCHANGED recorded,
         \/ e.stage = AfterInsert(req[r].new) /\ e.id = i
         \/ e.stage = "idle" /\ OwnerEmail \in req[r].new.keys
  PROVE  RBase' /\ Lacking' \subseteq Lacking
<1>1. req'[r] = e /\ \A s \in Requests \ {r} : req'[s] = req[s]
  BY OthersStay DEF RBase
<1>2. row'[i] = req[r].new /\ \A j \in Ids \ {i} : row'[j] = row[j]
  BY DEF RBase, TypeOK
<1>3. ASSUME NEW s \in Requests \ {r} PROVE EntryOK(req[s])' /\ (Recording(req[s]) => req[s].id # i)
  <2>1. PICK d : d = req[s] /\ EntryOK(d) /\ req'[s] = d
    BY <1>1 DEF RBase
  <2>2. Recording(d) => d.id \in Ids \ {i}
    BY <2>1 DEF RBase, TypeOK, EntryOK, Recording
  <2>3. EntryOK(d)'
    BY <1>2, <2>1, <2>2, EntryKept
  <2> QED
    BY <2>1, <2>2, <2>3 DEF EntryOK, Recording
<1>4. EntryOK(req[r])'
  <2>1. recorded[i] = {}
    BY DEF RBase
  <2>2. CASE e.stage = AfterInsert(req[r].new) /\ e.id = i
    BY <1>1, <1>2, <2>1, <2>2 DEF EntryOK, Recording, AfterInsert, Expected, Exists, In
  <2>3. CASE e.stage = "idle"
    BY <1>1, <2>3 DEF EntryOK, Recording
  <2> QED
    BY <2>2, <2>3
<1>5. RBase'
  <2>1. \A j \in Ids : ~Exists(j)' => recorded'[j] = {}
    BY <1>2 DEF RBase, Exists
  <2>2. \A s \in Requests : EntryOK(req[s])'
    BY <1>3, <1>4
  <2>3. \A s, u \in Requests :
          Recording(req[s])' /\ Recording(req[u])' /\ req'[s].id = req'[u].id => s = u
    <3>1. \A s \in Requests \ {r} : Recording(req[s])' => Recording(req[s]) /\ req'[s].id # i
      BY <1>1, <1>3 DEF Recording
    <3>2. Recording(req[r])' => req'[r].id = i
      BY <1>1 DEF Recording
    <3> QED
      BY <1>1, <3>1, <3>2 DEF RBase
  <2> QED
    BY <2>1, <2>2, <2>3 DEF RBase
<1>6. ASSUME NEW j \in Lacking' PROVE j \in Lacking
  <2>1. j # i
    <3>1. CASE e.stage = AfterInsert(req[r].new) /\ e.id = i
      <4>1. Waited(i)'
        BY <1>1, <3>1 DEF Waited, Recording, AfterInsert
      <4> QED
        BY <4>1 DEF Lacking
    <3>2. CASE OwnerEmail \in req[r].new.keys
      BY <1>2, <3>2 DEF Lacking, Lacks
    <3> QED
      BY <3>1, <3>2
  <2>2. Lacks(j)
    BY <1>2, <2>1 DEF Lacking, Lacks, Exists
  <2>3. ~Waited(j)
    BY <1>1 DEF Lacking, Waited, Recording
  <2> QED
    BY <2>2, <2>3 DEF Lacking
<1> QED
  BY <1>5, <1>6

\* The event or the audit row of a new row is added.
LEMMA RecordAdded ==
  ASSUME RBase, TypeOK', NEW r \in Requests, RecordEvent(r) \/ RecordAudit(r)
  PROVE  RBase' /\ Lacking' \subseteq Lacking
<1>0. PICK i : i = req[r].id
  OBVIOUS
<1>1. /\ Recording(req[r]) /\ i \in Ids /\ EntryOK(req[r]) /\ row' = row
      /\ \A s \in Requests \ {r} : Recording(req[s]) => req[s].id # i
  BY <1>0 DEF RBase, TypeOK, RecordEvent, RecordAudit, Recording, At
<1>2. PICK e : /\ Become(r, e) /\ (Recording(e) => e.id = i)
               /\ \/ RecordEvent(r) /\ e.stage = "audit"
                  \/ RecordAudit(r) /\ e.stage = "idle"
  BY <1>0 DEF RecordEvent, RecordAudit, Doing, Idle, Recording
<1>3. req'[r] = e /\ \A s \in Requests \ {r} : req'[s] = req[s]
  BY <1>2, OthersStay DEF RBase
<1>4. \A j \in Ids \ {i} : recorded'[j] = recorded[j]
  BY <1>0 DEF RBase, TypeOK, RecordEvent, RecordAudit
<1>5. /\ RecordEvent(r) => In(i, "vehicle") /\ recorded'[i] = {"event"}
      /\ RecordAudit(r) => recorded'[i] = Expected(row[i].table)
  <2>1. \A table : "audit" \in Expected(table)
    BY DEF Expected
  <2>2. RecordEvent(r) => req[r].stage = "event" /\ recorded'[i] = recorded[i] \cup {"event"}
    BY <1>0, <1>1 DEF RBase, TypeOK, RecordEvent, At
  <2>3. RecordAudit(r) => req[r].stage = "audit" /\ recorded'[i] = recorded[i] \cup {"audit"}
    BY <1>0, <1>1 DEF RBase, TypeOK, RecordAudit, At
  <2>4. /\ req[r].stage = "event" => In(i, "vehicle") /\ recorded[i] = {}
        /\ req[r].stage = "audit" => recorded[i] = Expected(row[i].table) \ {"audit"}
    BY <1>0, <1>1 DEF EntryOK
  <2> QED
    BY <2>1, <2>2, <2>3, <2>4
<1>6. ASSUME NEW s \in Requests PROVE EntryOK(req[s])'
  <2>1. CASE s = r
    BY <1>0, <1>1, <1>2, <1>3, <1>5, <2>1 DEF EntryOK, Recording, Exists, In, Expected
  <2>2. CASE s # r
    <3>1. PICK d : d = req[s] /\ EntryOK(d) /\ req'[s] = d
      BY <1>3, <2>2 DEF RBase
    <3>2. Recording(d) => d.id \in Ids \ {i}
      BY <1>1, <2>2, <3>1 DEF RBase, TypeOK, Recording
    <3>3. EntryOK(d)'
      BY <1>1, <1>4, <3>1, <3>2, EntryKept
    <3> QED
      BY <3>1, <3>3 DEF EntryOK, Recording
  <2> QED
    BY <2>1, <2>2
<1>7. RBase'
  <2>1. \A j \in Ids : ~Exists(j)' => recorded'[j] = {}
    BY <1>0, <1>1, <1>4 DEF RBase, Exists, EntryOK
  <2>2. \A s, u \in Requests :
          Recording(req[s])' /\ Recording(req[u])' /\ req'[s].id = req'[u].id => s = u
    BY <1>1, <1>2, <1>3 DEF RBase, Recording
  <2> QED
    BY <1>6, <2>1, <2>2 DEF RBase
<1>8. ASSUME NEW j \in Lacking' PROVE j \in Lacking
  <2>1. j # i
    <3>1. CASE RecordEvent(r) /\ e.stage = "audit"
      <4>1. Waited(i)'
        BY <1>2, <1>3, <3>1 DEF Waited, Recording
      <4> QED
        BY <4>1 DEF Lacking
    <3>2. CASE RecordAudit(r)
      BY <1>1, <1>5, <3>2 DEF Lacking, Lacks
    <3> QED
      BY <1>2, <3>1, <3>2
  <2>2. Lacks(j)
    BY <1>1, <1>4, <2>1 DEF Lacking, Lacks, Exists
  <2>3. ~Waited(j)
    BY <1>0, <1>1, <1>3, <2>1 DEF Lacking, Waited, Recording
  <2> QED
    BY <2>2, <2>3 DEF Lacking
<1> QED
  BY <1>7, <1>8

LEMMA RecordingStep ==
  ASSUME RBase, TypeOK', NEW r \in Requests, StepOf(r)
  PROVE  /\ RBase'
         /\ \/ Lacking' \subseteq Lacking /\ failures' = failures
            \/ Lacking' \subseteq Lacking \cup {req[r].id} /\ failures' = failures + 1
<1>1. \A stage, new, i : /\ Doing(stage, new, i).stage = stage
                         /\ Doing(stage, new, i).new = new /\ Doing(stage, new, i).id = i
  BY DEF Doing
<1>2. EntryOK(Idle) /\ ~Recording(Idle) /\ Idle.stage = "idle"
  <2>1. Idle.stage = "idle"
    BY DEF Idle, Doing
  <2> QED
    BY <2>1 DEF EntryOK, Recording
<1>3. EntryOK(req[r]) /\ req[r].new \in Row /\ NoRow \in Row
  BY IdleOK DEF RBase, TypeOK
\* A step that begins nothing that is recorded.
<1>4. ASSUME NEW stage, NEW new, NEW i, Become(r, Doing(stage, new, i)),
             UNCHANGED <<row, recorded, failures>>, ~Recording(req[r]),
             stage \in {"insert", "save", "writing", "reading", "seed branch", "seed owner"},
             stage \in {"insert", "save", "writing", "seed owner"} => new.table # "none",
             stage = "seed owner" => OwnerEmail \in new.keys
      PROVE  RBase' /\ Lacking' \subseteq Lacking
  <2>1. PICK e : e = Doing(stage, new, i)
    OBVIOUS
  <2>2. EntryOK(e) /\ ~Recording(e)
    <3>1. e.stage = stage /\ e.new = new
      BY <1>1, <2>1
    <3> QED
      BY <1>4, <3>1 DEF EntryOK, Recording
  <2> QED
    BY <1>4, <2>1, <2>2, RecordingRests
<1>5. CASE Check(r)
  <2>1. PICK stage, new : At(r, "idle") /\ Accept(r, stage, new) /\ Sound(stage, new)
    BY <1>5, CheckIsSound
  <2>2. /\ Become(r, Doing(stage, new, Null)) /\ UNCHANGED <<row, recorded, failures>>
        /\ ~Recording(req[r]) /\ stage \in {"insert", "save"} /\ new.table # "none"
    BY <2>1 DEF Accept, At, Recording, Sound
  <2> QED
    BY <1>4, <2>2
<1>6. CASE \E f \in Files : BeginWrite(r, f)
  <2>1. PICK f \in Files : BeginWrite(r, f)
    BY <1>6
  <2> DEFINE new == [req[r].new EXCEPT !.file = f]
  <2>2. /\ Become(r, Doing("writing", new, Null)) /\ UNCHANGED <<row, recorded, failures>>
        /\ ~Recording(req[r]) /\ req[r].stage = "save"
    BY <2>1 DEF BeginWrite, At, Recording
  <2>3. new.table # "none"
    BY <1>3, <2>2 DEF EntryOK, Row
  <2> HIDE DEF new
  <2> QED
    BY <1>4, <2>2, <2>3
<1>7. CASE EndWrite(r)
  <2>1. /\ Become(r, Doing("insert", req[r].new, Null)) /\ UNCHANGED <<row, recorded, failures>>
        /\ ~Recording(req[r]) /\ req[r].new.table # "none"
    BY <1>3, <1>7 DEF EndWrite, At, Recording, EntryOK
  <2> QED
    BY <1>4, <2>1
<1>8. CASE \E d \in Ids : FindDocument(r, d)
  BY <1>4, <1>8 DEF FindDocument, At, Recording
<1>9. CASE SeedOrganization(r)
  BY <1>4, <1>9 DEF SeedOrganization, At, Recording
<1>10. CASE SeedBranch(r)
  <2> DEFINE new == RowOf("user", {OwnerEmail}, Null, Null, 0)
  <2>1. new.table # "none" /\ OwnerEmail \in new.keys
    BY DEF RowOf
  <2>2. Become(r, Doing("seed owner", new, Null)) /\ UNCHANGED <<row, recorded, failures>>
        /\ ~Recording(req[r])
    BY <1>10 DEF SeedBranch, At, Recording
  <2> HIDE DEF new
  <2> QED
    BY <1>4, <2>1, <2>2
<1>11. CASE ReadFile(r) \/ InsertRefused(r)
  <2>1. /\ Become(r, Idle) /\ UNCHANGED <<row, recorded, failures>> /\ ~Recording(req[r])
    BY <1>11 DEF ReadFile, InsertRefused, At, Recording
  <2> QED
    BY <1>2, <2>1, RecordingRests
<1>12. CASE \E i \in Ids : Insert(r, i)
  <2>1. PICK i \in Ids : Insert(r, i)
    BY <1>12
  <2>2. PICK e : e = Doing(AfterInsert(req[r].new), NoRow, i)
    OBVIOUS
  <2>3. /\ e.stage = AfterInsert(req[r].new) /\ e.id = i
        /\ Become(r, e) /\ ~Exists(i) /\ ~Recording(req[r]) /\ req[r].new.table # "none"
        /\ row' = [row EXCEPT ![i] = req[r].new] /\ UNCHANGED <<recorded, failures>>
    BY <1>1, <1>3, <2>1, <2>2 DEF Insert, At, Recording, EntryOK
  <2> QED
    BY <2>3, RowAdded
<1>13. CASE \E i \in Ids : SeedOwner(r, i)
  <2>1. PICK i \in Ids : SeedOwner(r, i)
    BY <1>13
  <2>2. /\ Become(r, Idle) /\ UNCHANGED <<recorded, failures>> /\ ~Recording(req[r])
        /\ req[r].new.table # "none" /\ OwnerEmail \in req[r].new.keys
    BY <1>3, <2>1 DEF SeedOwner, At, Recording, EntryOK
  <2>3. CASE UNCHANGED row
    BY <1>2, <2>2, <2>3, RecordingRests
  <2>4. CASE ~Exists(i) /\ row' = [row EXCEPT ![i] = req[r].new]
    BY <1>2, <2>2, <2>4, RowAdded
  <2> QED
    BY <2>1, <2>2, <2>3, <2>4 DEF SeedOwner
<1>14. CASE RecordEvent(r) \/ RecordAudit(r)
  BY <1>14, RecordAdded DEF RecordEvent, RecordAudit
<1>15. CASE Fail(r)
  BY <1>2, <1>15, RecordingRests DEF Fail
<1>16. CASE Unchanged(r)
  <2>1. row' = row /\ recorded' = recorded /\ req' = req /\ failures' = failures
    BY <1>16 DEF Unchanged, vars
  <2>2. \A s \in Requests : EntryOK(req[s])'
    BY <2>1 DEF RBase, EntryOK, Recording, Exists, In
  <2>3. RBase'
    BY <2>1, <2>2 DEF RBase, Recording, Exists
  <2>4. Lacking' = Lacking
    BY <2>1 DEF Lacking, Lacks, Waited, Recording, Exists
  <2> QED
    BY <2>1, <2>3, <2>4
<1> QED
  BY <1>5, <1>6, <1>7, <1>8, <1>9, <1>10, <1>11, <1>12, <1>13, <1>14, <1>15, <1>16
     DEF StepOf, BeginWrite, EndWrite, FindDocument, SeedOrganization, SeedBranch, Accept,
         ReadFile, InsertRefused, Insert, SeedOwner

\* vehicles.service.ts:60, audit-log.service.ts: the event and the audit row of a
\* creation follow the insert in calls of their own, and every row that lacks one
\* for good was left so by a failed call of its own.
THEOREM UnrecordedCounted == Spec => []UnrecordedComeFromFailures
<1>1. Init => RInv
  <2> SUFFICES ASSUME Init PROVE RInv
    OBVIOUS
  <2>1. \A r \in Requests : req[r].stage = "idle"
    BY DEF Init, Idle, Doing
  <2>2. \A i \in Ids : ~Exists(i) /\ recorded[i] = {}
    BY DEF Init, NoRow, RowOf, Exists
  <2>3. RBase
    BY <2>1, <2>2, TypeInit DEF RBase, EntryOK, Recording
  <2>4. Lacking = {} /\ failures = 0
    BY <2>2 DEF Init, Lacking, Lacks
  <2> QED
    BY <2>3, <2>4, FS_EmptySet DEF RInv
<1>2. RInv /\ [Next]_vars => RInv'
  <2> SUFFICES ASSUME RInv, [Next]_vars PROVE RInv'
    OBVIOUS
  <2>1. TypeOK'
    BY TypeStep DEF RInv, RBase
  <2>2. failures \in Nat
    BY DEF RInv, RBase, TypeOK
  <2>3. CASE UNCHANGED vars
    <3>1. row' = row /\ recorded' = recorded /\ req' = req /\ failures' = failures
      BY <2>3 DEF vars
    <3>2. \A s \in Requests : EntryOK(req[s])'
      BY <3>1 DEF RInv, RBase, EntryOK, Recording, Exists, In
    <3>3. RBase' /\ Lacking' = Lacking
      BY <2>1, <3>1, <3>2 DEF RInv, RBase, Recording, Exists, Lacking, Lacks, Waited
    <3> QED
      BY <3>1, <3>3 DEF RInv
  <2>4. CASE Next
    <3>1. PICK r \in Requests : StepOf(r)
      BY <2>4, NextIsStep
    <3>2. RBase'
      BY <2>1, <3>1, RecordingStep DEF RInv
    <3>3. CASE Lacking' \subseteq Lacking /\ failures' = failures
      BY <2>2, <3>2, <3>3, NotMore DEF RInv
    <3>4. CASE Lacking' \subseteq Lacking \cup {req[r].id} /\ failures' = failures + 1
      BY <2>2, <3>2, <3>4, OneMore DEF RInv
    <3> QED
      BY <2>1, <3>1, <3>3, <3>4, RecordingStep DEF RInv
  <2> QED
    BY <2>3, <2>4
<1>3. RInv => UnrecordedComeFromFailures
  <2> SUFFICES ASSUME RInv PROVE UnrecordedComeFromFailures
    OBVIOUS
  <2>1. Unrecorded \subseteq Lacking
    BY DEF Unrecorded, Lacking, Lacks, Waited
  <2>2. failures \in Nat
    BY DEF RInv, RBase, TypeOK
  <2> QED
    BY <2>1, <2>2, NotMore DEF RInv, UnrecordedComeFromFailures
<1> QED
  BY <1>1, <1>2, <1>3, PTL DEF Spec

-----------------------------------------------------------------------------
(* Keys without an index *)

\* Requests that have passed the check for a key and not yet inserted it.
Coming(table, k) ==
  {r \in Requests : At(r, "insert") /\ req[r].new.table = table /\ k \in req[r].new.keys}
\* A request that has passed the check has a place among those that may share.
Bounded(table, k) ==
  /\ IsFiniteSet(Sharing(table, k))
  /\ Cardinality(Sharing(table, k)) + Cardinality(Coming(table, k)) <= Cardinality(Requests)
DInv == IInv /\ \A table \in {"vehicle", "customer"}, k \in Keys : Bounded(table, k)

LEMMA ComingIsFinite ==
  ASSUME IsFiniteSet(Requests), NEW table, NEW k
  PROVE  /\ IsFiniteSet(Requests) /\ Cardinality(Requests) \in Nat
         /\ IsFiniteSet(Coming(table, k)) /\ Cardinality(Coming(table, k)) \in Nat
         /\ Cardinality(Coming(table, k)) <= Cardinality(Requests)
<1>1. Coming(table, k) \subseteq Requests
  BY DEF Coming
<1> QED
  BY <1>1, FS_Subset, FS_CardinalityType

\* Fewer requests on the way, and the rows as they were.
LEMMA BoundedRests ==
  ASSUME IsFiniteSet(Requests), NEW table, NEW k, Bounded(table, k),
         Sharing(table, k)' = Sharing(table, k), Coming(table, k)' \subseteq Coming(table, k)
  PROVE  Bounded(table, k)'
<1> DEFINE c == Cardinality(Coming(table, k))
           d == Cardinality(Coming(table, k)')
           n == Cardinality(Sharing(table, k))
<1>1. /\ IsFiniteSet(Coming(table, k)) /\ c \in Nat /\ Cardinality(Requests) \in Nat
      /\ IsFiniteSet(Sharing(table, k)) /\ n + c <= Cardinality(Requests) /\ n \in Nat
  BY ComingIsFinite, FS_CardinalityType DEF Bounded
<1>2. d <= c /\ d \in Nat
  BY <1>1, FS_Subset, FS_CardinalityType
<1>3. n + d <= Cardinality(Requests)
  <2> HIDE DEF c, d, n
  <2> QED
    BY <1>1, <1>2
<1> QED
  BY <1>1, <1>3 DEF Bounded

\* A check is passed: nobody has the key.
LEMMA BoundedChecked ==
  ASSUME IsFiniteSet(Requests), NEW table, NEW k, Sharing(table, k)' = {}
  PROVE  Bounded(table, k)'
<1> DEFINE d == Cardinality(Coming(table, k)')
<1>1. Coming(table, k)' \subseteq Requests
  BY DEF Coming
<1>2. d <= Cardinality(Requests) /\ d \in Nat
  BY <1>1, FS_Subset, FS_CardinalityType
<1>3. IsFiniteSet(Sharing(table, k)') /\ Cardinality(Sharing(table, k)') = 0
  BY FS_EmptySet
<1> QED
  BY <1>2, <1>3 DEF Bounded

\* One of the requests on the way becomes a row.
LEMMA BoundedInserted ==
  ASSUME IsFiniteSet(Requests), NEW table, NEW k, Bounded(table, k),
         NEW r \in Coming(table, k), NEW i, i \notin Sharing(table, k),
         Sharing(table, k)' = Sharing(table, k) \cup {i},
         Coming(table, k)' = Coming(table, k) \ {r}
  PROVE  Bounded(table, k)'
<1> DEFINE c == Cardinality(Coming(table, k))
           n == Cardinality(Sharing(table, k))
<1>1. /\ IsFiniteSet(Coming(table, k)) /\ c \in Nat /\ Cardinality(Requests) \in Nat
      /\ IsFiniteSet(Sharing(table, k)) /\ n + c <= Cardinality(Requests) /\ n \in Nat
  BY ComingIsFinite, FS_CardinalityType DEF Bounded
<1>2. Cardinality(Coming(table, k)') = c - 1
  BY <1>1, FS_RemoveElement
<1>3. IsFiniteSet(Sharing(table, k)') /\ Cardinality(Sharing(table, k)') = n + 1
  BY <1>1, FS_AddElement
<1>4. Cardinality(Sharing(table, k)') + Cardinality(Coming(table, k)') <= Cardinality(Requests)
  <2> HIDE DEF c, n
  <2> QED
    BY <1>1, <1>2, <1>3
<1> QED
  BY <1>3, <1>4 DEF Bounded

LEMMA BoundedStep ==
  ASSUME IsFiniteSet(Requests), IInv, NEW r \in Requests, StepOf(r),
         NEW table \in {"vehicle", "customer"}, NEW k \in Keys, Bounded(table, k)
  PROVE  Bounded(table, k)'
<1>1. \A stage, new, i : Doing(stage, new, i).stage = stage /\ Doing(stage, new, i).new = new
  BY DEF Doing
<1>2. TypeOK /\ RequestOK(req[r]) /\ req[r].new \in Row /\ Idle.stage = "idle"
  BY <1>1 DEF IInv, TypeOK, Idle
\* No row is added, and the request is not on its way with this key.
<1>3. ASSUME NEW e, Become(r, e), UNCHANGED row,
             e.stage = "insert" => e.new.table # table \/ k \notin e.new.keys
      PROVE  Bounded(table, k)'
  <2>1. Sharing(table, k)' = Sharing(table, k)
    BY <1>3 DEF Sharing, In
  <2>2. Coming(table, k)' \subseteq Coming(table, k)
    BY <1>2, <1>3, OthersStay DEF Coming, At
  <2> QED
    BY <2>1, <2>2, BoundedRests
\* A row is added, with the key or without.
<1>4. ASSUME NEW i \in Ids, NEW e, Become(r, e), ~Exists(i), e.stage # "insert",
             row' = [row EXCEPT ![i] = req[r].new],
             At(r, "insert") \/ req[r].new.table = "user"
      PROVE  Bounded(table, k)'
  <2>1. row'[i] = req[r].new /\ \A j \in Ids \ {i} : row'[j] = row[j]
    BY <1>2, <1>4 DEF TypeOK
  <2>2. i \notin Sharing(table, k)
    BY <1>4 DEF Sharing, In, Exists
  <2>3. Coming(table, k)' = Coming(table, k) \ {r}
    BY <1>2, <1>4, OthersStay DEF Coming, At
  <2>4. CASE r \in Coming(table, k)
    <3>1. Sharing(table, k)' = Sharing(table, k) \cup {i}
      BY <2>1, <2>4 DEF Sharing, In, Coming
    <3> QED
      BY <2>2, <2>3, <2>4, <3>1, BoundedInserted
  <2>5. CASE r \notin Coming(table, k)
    <3>1. req[r].new.table # table \/ k \notin req[r].new.keys
      BY <1>4, <2>5 DEF Coming
    <3>2. Sharing(table, k)' = Sharing(table, k)
      BY <2>1, <2>2, <3>1 DEF Sharing, In
    <3> QED
      BY <2>3, <3>2, BoundedRests
  <2> QED
    BY <2>4, <2>5
<1>5. CASE Check(r)
  <2>1. PICK stage, new : At(r, "idle") /\ Accept(r, stage, new) /\ Sound(stage, new)
    BY <1>5, CheckIsSound
  <2>2. PICK e : e = Doing(stage, new, Null)
    OBVIOUS
  <2>3. Become(r, e) /\ row' = row /\ e.new = new
    BY <1>1, <2>1, <2>2 DEF Accept
  <2>4. CASE new.table = table /\ k \in new.keys
    <3>1. Sharing(table, k)' = {}
      BY <2>1, <2>3, <2>4 DEF Sound, Taken, Sharing, In
    <3> QED
      BY <3>1, BoundedChecked
  <2>5. CASE new.table # table \/ k \notin new.keys
    BY <1>3, <2>3, <2>5
  <2> QED
    BY <2>4, <2>5
<1>6. CASE EndWrite(r)
  <2>1. PICK e : e = Doing("insert", req[r].new, Null)
    OBVIOUS
  <2>2. Become(r, e) /\ row' = row /\ e.new = req[r].new
    BY <1>1, <1>6, <2>1 DEF EndWrite
  <2>3. req[r].new.table = "document"
    BY <1>2, <1>6 DEF EndWrite, At, RequestOK, Holds
  <2> QED
    BY <1>3, <2>2, <2>3
<1>7. CASE \E i \in Ids : Insert(r, i)
  <2>1. PICK i \in Ids : Insert(r, i)
    BY <1>7
  <2>2. PICK e : e = Doing(AfterInsert(req[r].new), NoRow, i)
    OBVIOUS
  <2>3. /\ Become(r, e) /\ ~Exists(i) /\ At(r, "insert") /\ e.stage # "insert"
        /\ row' = [row EXCEPT ![i] = req[r].new]
    BY <1>1, <2>1, <2>2 DEF Insert, AfterInsert
  <2> QED
    BY <1>4, <2>3
<1>8. CASE \E i \in Ids : SeedOwner(r, i)
  <2>1. PICK i \in Ids : SeedOwner(r, i)
    BY <1>8
  <2>2. Become(r, Idle) /\ req[r].new.table = "user"
    BY <1>2, <2>1 DEF SeedOwner, At, RequestOK
  <2>3. CASE UNCHANGED row
    BY <1>2, <1>3, <2>2, <2>3
  <2>4. CASE ~Exists(i) /\ row' = [row EXCEPT ![i] = req[r].new]
    BY <1>2, <1>4, <2>2, <2>4
  <2> QED
    BY <2>1, <2>3, <2>4 DEF SeedOwner
\* The steps that neither check a key nor insert a row.
<1>9. ASSUME NEW stage, NEW new, NEW i, Become(r, Doing(stage, new, i)), UNCHANGED row,
             stage # "insert"
      PROVE  Bounded(table, k)'
  <2>1. PICK e : e = Doing(stage, new, i)
    OBVIOUS
  <2>2. e.stage # "insert"
    BY <1>1, <1>9, <2>1
  <2> QED
    BY <1>3, <1>9, <2>1, <2>2
<1>10. CASE \/ \E f \in Files : BeginWrite(r, f)
            \/ \E d \in Ids : FindDocument(r, d)
            \/ RecordEvent(r) \/ SeedOrganization(r) \/ SeedBranch(r)
  BY <1>9, <1>10 DEF BeginWrite, FindDocument, RecordEvent, SeedOrganization, SeedBranch
<1>11. CASE ReadFile(r) \/ InsertRefused(r) \/ RecordAudit(r) \/ Fail(r)
  BY <1>2, <1>3, <1>11 DEF ReadFile, InsertRefused, RecordAudit, Fail
<1>12. CASE Unchanged(r)
  BY <1>12 DEF Unchanged, vars, Bounded, Sharing, Coming, In, At
<1> QED
  BY <1>5, <1>6, <1>7, <1>8, <1>10, <1>11, <1>12 DEF StepOf

\* vehicles.service.ts:213, customers.service.ts:31: the check reads before the
\* insert and no index stands behind it, so that requests which overlap may
\* double a plate, a VIN or a phone number, but no more rows share it than
\* requests are ever in flight.
THEOREM OverlapBoundsDoubles ==
  ASSUME IsFiniteSet(Requests)
  PROVE  Spec => []OnlyOverlapDoubles
<1>1. Init => DInv
  <2> SUFFICES ASSUME Init PROVE DInv
    OBVIOUS
  <2>1. \A i \in Ids : row[i].table = "none"
    BY DEF Init, NoRow, RowOf
  <2>2. \A r \in Requests : req[r].stage = "idle"
    BY DEF Init, Idle, Doing
  <2>3. ASSUME NEW table \in {"vehicle", "customer"}, NEW k \in Keys PROVE Bounded(table, k)
    <3>1. Sharing(table, k) = {} /\ Coming(table, k) = {}
      BY <2>1, <2>2 DEF Sharing, In, Coming, At
    <3> QED
      BY <3>1, FS_EmptySet, FS_CardinalityType DEF Bounded
  <2> QED
    BY <2>3, InvInit DEF DInv
<1>2. DInv /\ [Next]_vars => DInv'
  <2> SUFFICES ASSUME DInv, [Next]_vars PROVE DInv'
    OBVIOUS
  <2>1. IInv'
    BY InvStep DEF DInv
  <2>2. CASE UNCHANGED vars
    BY <2>1, <2>2 DEF DInv, vars, Bounded, Sharing, Coming, In, At
  <2>3. CASE Next
    BY <2>1, <2>3, NextIsStep, BoundedStep DEF DInv
  <2> QED
    BY <2>2, <2>3
<1>3. DInv => OnlyOverlapDoubles
  <2> SUFFICES ASSUME DInv, NEW table \in {"vehicle", "customer"}, NEW k \in Keys
               PROVE  Cardinality(Sharing(table, k)) <= Cardinality(Requests)
    BY DEF OnlyOverlapDoubles
  <2>1. /\ Cardinality(Coming(table, k)) \in Nat /\ Cardinality(Requests) \in Nat
        /\ Cardinality(Sharing(table, k)) \in Nat
    BY ComingIsFinite, FS_CardinalityType DEF DInv, Bounded
  <2> QED
    BY <2>1 DEF DInv, Bounded
<1> QED
  BY <1>1, <1>2, <1>3, PTL DEF Spec
=============================================================================
