---------------------------- MODULE VehicleSales ----------------------------
(***************************************************************************)
(* Vehicles, deals, payments and their history: the part of the dealership *)
(* backend that decides who may sell which vehicle.  DealsService and      *)
(* VehiclesService are composed here because they write the same rows.     *)
(*                                                                         *)
(* Every handler is an asynchronous function; between two awaits of one    *)
(* request any other request may run.  A request in flight is an entry of  *)
(* `req` whose stage names the next database call it makes.  The database  *)
(* is PostgreSQL at READ COMMITTED: a statement sees what is committed     *)
(* when it runs, an UPDATE waits for the transaction that has written the  *)
(* row and then re-evaluates its WHERE.  The state variables hold          *)
(* committed rows; a transaction that is still open lives in `req`.        *)
(*                                                                         *)
(* A request that its first read already rejects changes nothing: it is a  *)
(* stuttering step.  The value a client sends as dto.version is one it has *)
(* read, so it is at most the version of the row.                          *)
(***************************************************************************)
EXTENDS Integers, FiniteSets, VehicleStatus, DealStatus

CONSTANTS
  Vehicles,           \* vehicle rows
  Quotes,             \* approved quotes; a deal is named by its quote
  Requests,           \* slots for requests in flight
  QuoteVehicle,       \* the vehicle a quote is for
  SalePrice,          \* quote.price - quote.discount
  Amounts,            \* amounts a payment may have
  Fleet,              \* "new" or "stocked": how each vehicle enters the model
  VehicleTargets,     \* statuses the vehicles page asks for
  Resend,             \* may a client re-send a deal's current status?
  NoQuote, NoVehicle, \* what a request that has no quote or vehicle holds
  MaxStaleness,       \* bound: how many versions old a client's read may be
  MaxDealVersion,     \* bound: highest deal version a client sends
  MaxVehicleVersion,  \* bound: highest vehicle version a client sends
  MaxPaid,            \* bound: payments of a deal add up to at most this
  MaxFailures         \* bound: database calls that fail

ASSUME QuoteVehicleAssumption == QuoteVehicle \in [Quotes -> Vehicles]
\* assertDiscountAllowed rejects discount >= price, so a sale price is positive.
ASSUME SalePriceAssumption == SalePrice \in [Quotes -> Nat \ {0}]
\* CreatePaymentDto: @IsPositive.
ASSUME AmountsAssumption == Amounts \subseteq Nat \ {0}
ASSUME FleetAssumption == Fleet \in [Vehicles -> {"new", "stocked"}]
ASSUME VehicleTargetsAssumption == VehicleTargets \subseteq VehicleStatuses
ASSUME NullAssumption == NoQuote \notin Quotes /\ NoVehicle \notin Vehicles
ASSUME BoundsAssumption ==
  /\ Resend \in BOOLEAN
  /\ {MaxStaleness, MaxDealVersion, MaxVehicleVersion, MaxPaid, MaxFailures}
       \subseteq Nat

VARIABLES
  vehicle,   \* vehicles table
  deal,      \* deals table; status "NONE" when the quote has no deal
  paid,      \* payments table: rows and sum of the amounts, per deal
  req,       \* requests in flight
  log,       \* number of VehicleEvent rows, and AuditLog rows by entity type
  failures   \* database calls that have failed so far

vars == <<vehicle, deal, paid, req, log, failures>>

-----------------------------------------------------------------------------
(* Rows and requests *)

Stages == {"idle", "createTx", "checkDeal", "casDeal", "syncRead", "syncWrite",
           "auditDeal", "auditPayment", "casVehicle", "casPrice",
           "eventVehicle", "auditVehicle"}

\* `old` is the status a handler read first, `was` the one syncVehicleStatus read.
Idle == [stage |-> "idle", quote |-> NoQuote, vehicle |-> NoVehicle,
         next |-> "-", ver |-> 0, old |-> "-", was |-> "-"]

\* A request after its last decision: only the row it still has to log.
Logging(stage, q, v) == [Idle EXCEPT !.stage = stage, !.quote = q, !.vehicle = v]

\* Versions a client may have read of a row: at most the current one.
ReadableVersions(row) == {n \in 1..row.version : n >= row.version - MaxStaleness}

Active(d) == d.status \notin {"NONE", "CANCELLED"}
Exists(d) == d.status # "NONE"
DealsOf(v) == {q \in Quotes : QuoteVehicle[q] = v}

At(r, stage) == req[r].stage = stage
Become(r, entry) == req' = [req EXCEPT ![r] = entry]
Advance(r, stage) == Become(r, [req[r] EXCEPT !.stage = stage])

\* Mutant: version: { increment: 1 } is forgotten.
WriteDealSameVersion(q, s) ==
  deal' = [deal EXCEPT ![q] = [status |-> s,
                               version |-> IF Exists(@) THEN @.version ELSE 1]]
WriteDeal(q, s) ==
  deal' = [deal EXCEPT ![q] = [status |-> s, version |-> @.version + 1]]
WriteVehicleStatus(v, s) ==
  vehicle' = [vehicle EXCEPT ![v].status = s, ![v].version = @ + 1]

\* Mutant: a history row is forgotten.
NoRow(kind, x) == log' = log
AddRow(kind, x) == log' = [log EXCEPT ![kind][x] = @ + 1]

\* Mutant: the update filters on the id alone.
MatchesId(row, ver) == TRUE
\* where: { id, version }
Matches(row, ver) == row.version = ver

\* Mutant: a conflict is answered by trying again with the same version.
TryAgain(entry) == entry
\* Mutant: the error leaves the request open.
LeaveOpen(entry) == [entry EXCEPT !.stage = "conflict"]
\* ConflictException and every other error end the request.
AfterConflict(entry) == Idle

\* Mutant: the update of the deal does not lock its row.
NeverLocked(q) == TRUE
\* No open transaction has updated the row of deal q.
DealRowFree(q) ==
  ~ \E r \in Requests : req[r].stage \in {"syncRead", "syncWrite"} /\ req[r].quote = q

\* Mutant: no partial unique index.
NoIndex(v) == TRUE
\* deals_one_active_per_vehicle accepts a new row for v.
VehicleIndexFree(v) == \A q \in DealsOf(v) : ~Active(deal[q])

-----------------------------------------------------------------------------
(* DealsService.create *)

\* The quote, its lead and the vehicle are read and the vehicle must be eligible.
ReadForCreate(r, q) ==
  LET v == QuoteVehicle[q] IN
  /\ At(r, "idle")
  /\ vehicle[v].status \in EligibleForDeal
  /\ Become(r, [stage |-> "createTx", quote |-> q, vehicle |-> v, next |-> "DRAFT",
                ver |-> vehicle[v].version, old |-> vehicle[v].status, was |-> "-"])
  /\ UNCHANGED <<vehicle, deal, paid, log, failures>>

\* The insert waits for a transaction that is updating an active deal of the
\* same vehicle: the index entry may be about to go away.
IndexSettled(v) == \A q \in DealsOf(v) : Active(deal[q]) => DealRowFree(q)

\* Both unique indexes accept the row and the vehicle is as it was read.
CreateSucceeds(e) ==
  /\ ~Exists(deal[e.quote])
  /\ VehicleIndexFree(e.vehicle)
  /\ Matches(vehicle[e.vehicle], e.ver)

\* The transaction: insert the deal, move the vehicle to IN_DEAL, record the
\* event.  Nothing it reads can change between its first and last statement,
\* because the index entry and the row lock keep rivals waiting: one step.
CreateDeal(r) ==
  LET e == req[r] IN
  /\ At(r, "createTx")
  /\ IndexSettled(e.vehicle)
  /\ CreateSucceeds(e)
  /\ WriteDeal(e.quote, "DRAFT")
  /\ WriteVehicleStatus(e.vehicle, "IN_DEAL")
  /\ AddRow("event", e.vehicle)
  /\ Become(r, Logging("auditDeal", e.quote, e.vehicle))
  /\ UNCHANGED <<paid, failures>>

\* A unique violation (P2002) or a vehicle that has changed: rolled back, 409.
CreateConflict(r) ==
  LET e == req[r] IN
  /\ At(r, "createTx")
  /\ IndexSettled(e.vehicle)
  /\ ~CreateSucceeds(e)
  /\ Become(r, AfterConflict(e))
  /\ UNCHANGED <<vehicle, deal, paid, log, failures>>

\* auditLog.record, outside the transaction; also the end of updateStatus.
AuditDeal(r) ==
  /\ At(r, "auditDeal")
  /\ AddRow("deal", req[r].quote)
  /\ Become(r, Idle)
  /\ UNCHANGED <<vehicle, deal, paid, failures>>

-----------------------------------------------------------------------------
(* DealsService.updateStatus *)

\* Resend = FALSE is the shipped client: it offers only moves of the table, so
\* it repeats a status only when its view of the deal is out of date.
Requestable(q, s, ver) == Resend \/ s # deal[q].status \/ ver < deal[q].version

ReadDeal(r, q, s, ver) ==
  /\ At(r, "idle")
  /\ Exists(deal[q])
  /\ ver \in ReadableVersions(deal[q])
  /\ Requestable(q, s, ver)
  /\ Become(r, [stage |-> "checkDeal", quote |-> q, vehicle |-> QuoteVehicle[q],
                next |-> s, ver |-> ver, old |-> deal[q].status, was |-> "-"])
  /\ UNCHANGED <<vehicle, deal, paid, log, failures>>

\* getTotalPaid and assertValidDealTransition, on the status read before it.
AcceptDealStatus(r) ==
  LET e == req[r] IN
  /\ At(r, "checkDeal")
  /\ ValidDealTransition(e.old, e.next, paid[e.quote].total, SalePrice[e.quote])
  /\ Advance(r, "casDeal")
  /\ UNCHANGED <<vehicle, deal, paid, log, failures>>

RejectDealStatus(r) ==
  LET e == req[r] IN
  /\ At(r, "checkDeal")
  /\ ~ValidDealTransition(e.old, e.next, paid[e.quote].total, SalePrice[e.quote])
  /\ Become(r, Idle)
  /\ UNCHANGED <<vehicle, deal, paid, log, failures>>

\* The transaction's updateMany, for a status that moves no vehicle: committed.
UpdateDeal(r) ==
  LET e == req[r] IN
  /\ At(r, "casDeal")
  /\ DealRowFree(e.quote)
  /\ Matches(deal[e.quote], e.ver)
  /\ e.next \notin SyncedDealStatuses
  /\ WriteDeal(e.quote, e.next)
  /\ Become(r, Logging("auditDeal", e.quote, e.vehicle))
  /\ UNCHANGED <<vehicle, paid, log, failures>>

\* The same for a status the vehicle follows: the row stays locked, its new
\* version is invisible to others, and syncVehicleStatus runs.
LockDeal(r) ==
  LET e == req[r] IN
  /\ At(r, "casDeal")
  /\ DealRowFree(e.quote)
  /\ Matches(deal[e.quote], e.ver)
  /\ e.next \in SyncedDealStatuses
  /\ Advance(r, "syncRead")
  /\ UNCHANGED <<vehicle, deal, paid, log, failures>>

\* count = 0: 409.
DealConflict(r) ==
  LET e == req[r] IN
  /\ At(r, "casDeal")
  /\ DealRowFree(e.quote)
  /\ ~Matches(deal[e.quote], e.ver)
  /\ Become(r, AfterConflict(e))
  /\ UNCHANGED <<vehicle, deal, paid, log, failures>>

\* The rest of syncVehicleStatus: it has seen the vehicle's status and goes on.
Following(e, status) == [e EXCEPT !.stage = "syncWrite", !.was = status]

\* syncVehicleStatus, the read and the check.  A move that is not listed is
\* skipped and the deal commits without it; a missing list price would roll the
\* whole transaction back.
SyncRead(r) ==
  LET e       == req[r]
      row     == vehicle[e.vehicle]
      target  == VehicleStatusFor(e.next)
      skips   == ~ListedVehicleMove(row.status, target)
      aborts  == ~skips /\ MissesListPrice(row.status, target, row.hasPrice)
  IN
  /\ At(r, "syncRead")
  /\ Become(r, IF skips THEN Logging("auditDeal", e.quote, e.vehicle)
               ELSE IF aborts THEN Idle
               ELSE Following(e, row.status))
  /\ IF skips THEN WriteDeal(e.quote, e.next) ELSE UNCHANGED deal
  /\ UNCHANGED <<vehicle, paid, log, failures>>

\* vehicle.update by id alone, the event with `was` as its old value, commit.
SyncWrite(r) ==
  LET e == req[r] IN
  /\ At(r, "syncWrite")
  /\ WriteVehicleStatus(e.vehicle, VehicleStatusFor(e.next))
  /\ WriteDeal(e.quote, e.next)
  /\ AddRow("event", e.vehicle)
  /\ Become(r, Logging("auditDeal", e.quote, e.vehicle))
  /\ UNCHANGED <<paid, failures>>

-----------------------------------------------------------------------------
(* DealsService.addPayment *)

\* The deal is read only to see that it exists, and deals are never deleted, so
\* the read and the insert are one step.
AddPayment(r, q, a) ==
  /\ At(r, "idle")
  /\ Exists(deal[q])
  /\ paid[q].total + a <= MaxPaid
  /\ paid' = [paid EXCEPT ![q] = [rows |-> @.rows + 1, total |-> @.total + a]]
  /\ Become(r, Logging("auditPayment", q, QuoteVehicle[q]))
  /\ UNCHANGED <<vehicle, deal, log, failures>>

AuditPayment(r) ==
  /\ At(r, "auditPayment")
  /\ AddRow("payment", req[r].quote)
  /\ Become(r, Idle)
  /\ UNCHANGED <<vehicle, deal, paid, failures>>

-----------------------------------------------------------------------------
(* VehiclesService.updateStatus and setListPrice *)

ReadVehicle(r, v, s, ver) ==
  /\ At(r, "idle")
  /\ ver \in ReadableVersions(vehicle[v])
  /\ ValidVehicleTransition(vehicle[v].status, s, vehicle[v].hasPrice)
  /\ Become(r, [stage |-> "casVehicle", quote |-> NoQuote, vehicle |-> v,
                next |-> s, ver |-> ver, old |-> vehicle[v].status, was |-> "-"])
  /\ UNCHANGED <<vehicle, deal, paid, log, failures>>

ReadVehicleForPrice(r, v, ver) ==
  /\ At(r, "idle")
  /\ ver \in ReadableVersions(vehicle[v])
  /\ Become(r, [stage |-> "casPrice", quote |-> NoQuote, vehicle |-> v,
                next |-> "-", ver |-> ver, old |-> "-", was |-> "-"])
  /\ UNCHANGED <<vehicle, deal, paid, log, failures>>

\* updateMany where id and version; the re-read that follows changes nothing.
UpdateVehicle(r) ==
  LET e == req[r] IN
  /\ At(r, "casVehicle")
  /\ Matches(vehicle[e.vehicle], e.ver)
  /\ WriteVehicleStatus(e.vehicle, e.next)
  /\ Become(r, Logging("eventVehicle", NoQuote, e.vehicle))
  /\ UNCHANGED <<deal, paid, log, failures>>

UpdatePrice(r) ==
  LET e == req[r] IN
  /\ At(r, "casPrice")
  /\ Matches(vehicle[e.vehicle], e.ver)
  /\ vehicle' = [vehicle EXCEPT ![e.vehicle].hasPrice = TRUE,
                                ![e.vehicle].version = @ + 1]
  /\ Become(r, Logging("eventVehicle", NoQuote, e.vehicle))
  /\ UNCHANGED <<deal, paid, log, failures>>

VehicleConflict(r) ==
  LET e == req[r] IN
  /\ e.stage \in {"casVehicle", "casPrice"}
  /\ ~Matches(vehicle[e.vehicle], e.ver)
  /\ Become(r, AfterConflict(e))
  /\ UNCHANGED <<vehicle, deal, paid, log, failures>>

RecordEvent(r) ==
  LET e == req[r] IN
  /\ At(r, "eventVehicle")
  /\ AddRow("event", e.vehicle)
  /\ Become(r, Logging("auditVehicle", NoQuote, e.vehicle))
  /\ UNCHANGED <<vehicle, deal, paid, failures>>

AuditVehicle(r) ==
  /\ At(r, "auditVehicle")
  /\ AddRow("vehicle", req[r].vehicle)
  /\ Become(r, Idle)
  /\ UNCHANGED <<vehicle, deal, paid, failures>>

-----------------------------------------------------------------------------
(* Failures, and the specification *)

\* The next database call of a request fails (or the process stops): the handler
\* throws, an open transaction is rolled back, what was committed stays.
Fail(r) ==
  /\ ~At(r, "idle")
  /\ failures < MaxFailures
  /\ failures' = failures + 1
  /\ Become(r, Idle)
  /\ UNCHANGED <<vehicle, deal, paid, log>>

\* A stocked vehicle has been through INTAKE, RECONDITIONING, a list price and
\* AVAILABLE: four writes after its creation, each with its history.
InitialVehicle(v) ==
  IF Fleet[v] = "new"
    THEN [status |-> "CANDIDATE", version |-> 1, hasPrice |-> FALSE]
    ELSE [status |-> "AVAILABLE", version |-> 5, hasPrice |-> TRUE]

Init ==
  /\ vehicle = [v \in Vehicles |-> InitialVehicle(v)]
  /\ deal = [q \in Quotes |-> [status |-> "NONE", version |-> 0]]
  /\ paid = [q \in Quotes |-> [rows |-> 0, total |-> 0]]
  /\ req = [r \in Requests |-> Idle]
  /\ log = [event   |-> [v \in Vehicles |-> InitialVehicle(v).version],
            vehicle |-> [v \in Vehicles |-> InitialVehicle(v).version],
            deal    |-> [q \in Quotes |-> 0],
            payment |-> [q \in Quotes |-> 0]]
  /\ failures = 0

\* A request arrives: its inputs are chosen and its first read is made.
Start(r) ==
  \/ \E q \in Quotes : ReadForCreate(r, q)
  \/ \E q \in Quotes, s \in DealStatuses, ver \in 1..MaxDealVersion : ReadDeal(r, q, s, ver)
  \/ \E q \in Quotes, a \in Amounts : AddPayment(r, q, a)
  \/ \E v \in Vehicles, s \in VehicleTargets, ver \in 1..MaxVehicleVersion :
       ReadVehicle(r, v, s, ver)
  \/ \E v \in Vehicles, ver \in 1..MaxVehicleVersion : ReadVehicleForPrice(r, v, ver)

\* The next database call of a request in flight.
Step(r) ==
  \/ CreateDeal(r) \/ CreateConflict(r) \/ AuditDeal(r)
  \/ AcceptDealStatus(r) \/ RejectDealStatus(r)
  \/ UpdateDeal(r) \/ LockDeal(r) \/ DealConflict(r)
  \/ SyncRead(r) \/ SyncWrite(r)
  \/ AuditPayment(r)
  \/ UpdateVehicle(r) \/ UpdatePrice(r) \/ VehicleConflict(r)
  \/ RecordEvent(r) \/ AuditVehicle(r)

Next == \E r \in Requests : Start(r) \/ Step(r) \/ Fail(r)

Spec == Init /\ [][Next]_vars

\* The event loop runs every continuation, and PostgreSQL grants a row lock in
\* the order it was asked for, so a call that can run again and again is made.
Fairness == \A r \in Requests : SF_vars(Step(r))
FairSpec == Spec /\ Fairness

-----------------------------------------------------------------------------
(* Type invariant *)

Rows(status) == [status : status, version : Nat]

RequestType ==
  [stage : Stages, quote : Quotes \cup {NoQuote}, vehicle : Vehicles \cup {NoVehicle},
   next : DealStatuses \cup VehicleStatuses \cup {"-"}, ver : Nat,
   old : DealStatuses \cup VehicleStatuses \cup {"-"},
   was : VehicleStatuses \cup {"-"}]

\* Every variable has the shape of its table: a deal row that exists has a
\* version, a request in flight names the row it works on.
TypeOK ==
  /\ vehicle \in [Vehicles -> [status : VehicleStatuses, version : Nat, hasPrice : BOOLEAN]]
  /\ deal \in [Quotes -> [status : DealStatuses \cup {"NONE"}, version : Nat]]
  /\ paid \in [Quotes -> [rows : Nat, total : Nat]]
  /\ req \in [Requests -> RequestType]
  /\ log \in [event : [Vehicles -> Nat], vehicle : [Vehicles -> Nat],
              deal : [Quotes -> Nat], payment : [Quotes -> Nat]]
  /\ failures \in 0..MaxFailures

-----------------------------------------------------------------------------
(* Safety *)

\* Two deals that are not cancelled are never for the same vehicle, whatever the
\* vehicle's status says meanwhile (deals_one_active_per_vehicle).
NoDoubleSale ==
  \A p, q \in Quotes :
    Active(deal[p]) /\ Active(deal[q]) /\ QuoteVehicle[p] = QuoteVehicle[q] => p = q

\* A deal is DELIVERED only if its payments cover the sale price, although the
\* payments are summed before the transaction that writes the status
\* (assertValidDealTransition).
DeliveredIsPaid ==
  \A q \in Quotes : deal[q].status = "DELIVERED" => paid[q].total >= SalePrice[q]

\* What a request in flight has read of the row it will write is still true, or
\* the version it will write against has been overtaken and the write will be
\* refused.  This is what makes check-then-write safe without a transaction.
ReadIsTrueOrOvertaken(row, e) ==
  /\ e.ver <= row.version
  /\ e.ver = row.version => e.old = row.status
StaleReadIsRefused ==
  \A r \in Requests :
    /\ req[r].stage \in {"checkDeal", "casDeal", "syncRead", "syncWrite"} =>
         ReadIsTrueOrOvertaken(deal[req[r].quote], req[r])
    /\ req[r].stage \in {"createTx", "casVehicle"} =>
         ReadIsTrueOrOvertaken(vehicle[req[r].vehicle], req[r])

\* Between taking the lock on a deal row and committing, the row is still the
\* one the client's version named, the status checked is its status, and no
\* other transaction has the row (updateStatus).
LockedRowIsAsChecked ==
  \A r \in Requests : req[r].stage \in {"syncRead", "syncWrite"} =>
    /\ deal[req[r].quote].version = req[r].ver
    /\ deal[req[r].quote].status = req[r].old
    /\ \A s \in Requests \ {r} :
         req[s].stage \in {"syncRead", "syncWrite"} => req[s].quote # req[r].quote

\* From AVAILABLE on a vehicle has a list price, so cancelling a deal is never
\* rolled back by MissingListPriceError inside its transaction.
StockIsPriced ==
  \A v \in Vehicles :
    vehicle[v].status \in {"AVAILABLE", "RESERVED", "IN_DEAL", "SOLD", "DELIVERED"}
      => vehicle[v].hasPrice

\* Requests that have still to write a row of one kind about x.
PendingDealAudits(q) ==
  Cardinality({r \in Requests : At(r, "auditDeal") /\ req[r].quote = q})
PendingEvents(v) ==
  Cardinality({r \in Requests : At(r, "eventVehicle") /\ req[r].vehicle = v})

\* Each committed write of a deal is, or is about to be, one audit row: nothing
\* is logged twice or for a write that was rolled back, and a missing row is
\* accounted for by a failed call (the audit is outside the transaction).
DealAuditBalance ==
  \A q \in Quotes :
    LET accounted == log.deal[q] + PendingDealAudits(q) IN
    /\ accounted <= deal[q].version
    /\ deal[q].version <= accounted + failures

\* The same for vehicle writes and VehicleEvent rows, whichever of the three
\* services' paths made the write.
VehicleEventBalance ==
  \A v \in Vehicles :
    LET accounted == log.event[v] + PendingEvents(v) IN
    /\ accounted <= vehicle[v].version
    /\ vehicle[v].version <= accounted + failures

\* Without the vehicles page the vehicle mirrors its active deal, in every
\* committed state: the two are written by one transaction (syncVehicleStatus,
\* create).
MirrorOf(dealStatus) ==
  CASE dealStatus \in {"DRAFT", "PENDING_APPROVAL", "SIGNED"} -> {"IN_DEAL"}
    [] dealStatus \in {"PAID", "READY_FOR_DELIVERY"} -> {"SOLD"}
    [] dealStatus = "DELIVERED" -> {"DELIVERED"}
VehicleMirrorsDeal ==
  \A v \in Vehicles :
    /\ \A q \in DealsOf(v) : Active(deal[q]) => vehicle[v].status \in MirrorOf(deal[q].status)
    /\ (\A q \in DealsOf(v) : ~Active(deal[q])) => vehicle[v].status \in EligibleForDeal

-----------------------------------------------------------------------------
(* What a step may do *)

\* A deal only moves along ALLOWED_TRANSITIONS and starts as a DRAFT, although
\* the status checked may be several commits old when the row is written.
DealMovesListed ==
  [][\A q \in Quotes :
       deal'[q].status # deal[q].status =>
         IF Exists(deal[q]) THEN <<deal[q].status, deal'[q].status>> \in DealTransitions
                            ELSE deal'[q].status = "DRAFT"]_vars

\* A row that is written against a version is logged with its true status before:
\* the one the handler read first, several awaits earlier.  These are the deal in
\* updateStatus, and the vehicle in create and on the vehicles page; the vehicle
\* that follows its deal is written by id and has EventBeforeIsTrue.
WritesDeal(r) ==
  req[r].stage \in {"casDeal", "syncRead", "syncWrite"} /\ req'[r].stage = "auditDeal"
WritesVehicle(r) ==
  \/ At(r, "casVehicle") /\ req'[r].stage = "eventVehicle"
  \/ At(r, "createTx") /\ req'[r].stage = "auditDeal"
VersionedBeforeIsTrue ==
  [][\A r \in Requests :
       /\ WritesDeal(r) => deal[req[r].quote].status = req[r].old
       /\ WritesVehicle(r) => vehicle[req[r].vehicle].status = req[r].old]_vars

\* The event of a vehicle that follows its deal names the status it really left:
\* nothing has moved the vehicle between the read and the write of
\* syncVehicleStatus.  The write does not check it; that holds only as far as the
\* deal keeps the vehicle to itself.
EventBeforeIsTrue ==
  [][\A r \in Requests : At(r, "syncWrite") /\ req'[r].stage = "auditDeal" =>
       vehicle[req[r].vehicle].status = req[r].was]_vars

-----------------------------------------------------------------------------
(* Liveness *)

\* Every request is answered: none waits for ever on a row another holds.
EveryRequestEnds == \A r \in Requests : ~At(r, "idle") ~> At(r, "idle")

=============================================================================
