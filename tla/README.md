# A formal model of the car-lot management system

This directory models the dealership system of this repository in TLA+. TLC
checks the models on small instances; TLAPS proves their safety properties
for every number of vehicles, quotes and concurrent requests. Nothing here is
PlusCal and nothing is taken on trust: every stated theorem has a proof.

Paths below are relative to the repository root; `backend/src/` is shortened to
`b/`.

## 1. The system and its parts

A NestJS backend (TypeScript, Prisma, PostgreSQL) serves a React frontend. It
keeps all of its state in the database; the process itself only holds requests
in flight. A handler is an `async` function, so between two `await`s of one
request any other request may run: almost all that is hard in this code comes
from that.

| part | state | operations | talks to | what makes it correct |
|---|---|---|---|---|
| Vehicle inventory (`b/vehicles`) | vehicles, expenses, vehicle events | create, updateStatus, setListPrice, addExpense | audit log | status follows a graph; no vehicle for sale without a list price; one history row per change; no plate or VIN twice |
| Deals and payments (`b/deals`) | deals, payments | create, updateStatus (with `syncVehicleStatus`), addPayment | quotes and leads (reads), vehicles (writes), audit log | no double sale; no unpaid delivery; deal follows a graph; vehicle follows its deal |
| Quotes (`b/quotes`) | quotes, each may supersede one | create, revise, updateStatus | leads, audit log | linear status; closed quotes are not revised; large discounts need a manager |
| Leads (`b/leads`) | leads | create, updateStatus | audit log | a decided lead stays decided; a lost one has a reason |
| Tasks (`b/tasks`) | tasks | create, updateStatus | audit log | a closed task stays closed |
| Customers (`b/customers`), users (`b/users`) | customers; users and roles | create | audit log | no phone number, no e-mail address twice |
| Documents (`b/documents`) | document rows; files on disk | upload, revise, download | leads and deals (access), audit log | every row has its file; versions of a document form a chain |
| Matching (`b/matching`) | matches | recomputeForLead | leads, vehicles | a match is the score of an offer that was really made, in 0..100, and its lines explain it |
| Reports (`b/reports`) | none | four read-only reports | vehicles, deals, leads | the parts of one report disagree by no more than was written meanwhile |
| Login and access (`b/auth`, `b/common/guards`) | none (roles travel in the token) | login, guard, row-level checks | users | a caller sees what its role and ownership allow |
| Audit log (`b/audit-log`) | audit rows | record | every service | one true row per sensitive action |
| Frontend (`frontend/src`) | query state, stored token and user | useApiQuery, login, logout, forms | the API | what is shown belongs to what is selected; what is sent is a move that was shown and offered; one wish is one row |
| Branches, organizations, seed script (`b/branches`, `b/organizations`, `prisma/seed.ts`) | rows without a life cycle | create, upsert | audit log, users | the seed may be run at any time and again |
| Health check, bootstrap, error filter, validation messages | none | | | |

Interaction is by direct calls between services and by shared rows: `DealsService`
writes vehicle rows as well as `VehiclesService`, and the two do it by different
rules. There are no queues, timers or messages in the backend.

What is hard, in one list (each at its line under `hazards` in `PROJECT.json`):

- check-then-write across awaits, with and without a version in the `WHERE`;
- a transaction that holds one row while it reads and writes another;
- guarantees that rest on an index (double sale) or on nothing (plates, phones);
- history that is written after the change, outside its transaction;
- repeated requests: a repeated status is accepted before any other check, and
  a repeated payment is a second payment;
- an insert in several calls: check, file, row, event, audit row;
- rows that are computed from rows that others go on writing (matches, reports);
- answers that reach the frontend out of order, late, in another session, or not
  at all.

## 2. Modules

| module | what it is | source |
|---|---|---|
| `VehicleStatus` | the vehicle status graph and its check | `b/vehicles/vehicle-status.ts` |
| `DealStatus` | the deal status graph, the payment rule, the vehicle status that follows a deal status | `b/deals/deal-status.ts`, top of `b/deals/deals.service.ts` |
| `VehicleSales` | **the core**: vehicles, deals, payments, history, and the requests in flight on them | `b/deals/deals.service.ts`, `b/vehicles/vehicles.service.ts`, migration `add_deals_payments` |
| `SalesLedger` | abstract specification: what the sales side promises, with no requests, versions, locks or failures | |
| `VehicleSalesRefinement` | the refinement mapping from `VehicleSales` to `SalesLedger` | |
| `VehicleSalesClaims` | statements of the repository that the code does not keep | quoted under `findings` |
| `RecordStatus` | the life cycles of leads, tasks and quotes and their checks | `b/leads/lead-status.ts`, `b/tasks/task-status.ts`, `b/quotes/quote-status.ts` |
| `OfficeRecords` | leads, tasks, quotes and their audit log, and the requests in flight on them | `b/leads/leads.service.ts`, `b/tasks/tasks.service.ts`, `b/quotes/quotes.service.ts`, `b/audit-log/audit-log.service.ts` |
| `RecordBook` | abstract specification: what leads, tasks and quotes promise, every request one step | |
| `Registry` | the rows that are only added, with the files of documents, the history rows and the seed script | `create` of vehicles, customers, users and branches, `addExpense`, `b/documents/*`, `prisma/seed.ts` |
| `MatchScore` | the score of a vehicle for a lead, as operators | `b/matching/match-score.ts` |
| `Insights` | recomputing matches and reporting, beside the writers of the rows they read | `b/matching/matches.service.ts`, `b/reports/*` |
| `Screen` | one tab of the frontend, the calls it makes and the server behind them | `frontend/src/lib/*`, `frontend/src/pages/*`, `frontend/src/components/*` |
| `MC*` | instances for TLC | |
| `VehicleSales_proofs`, `VehicleStock_proofs`, `VehicleHistory_proofs`, `VehicleMirror_proofs` | theorems about `VehicleSales`: locking and refinement, list prices, history, the mirror of deal and vehicle | |
| `OfficeRecords_proofs`, `Registry_proofs`, `Insights_proofs`, `Screen_proofs` | theorems about the module each is named after | |

The modules are stacked by what they take for granted. `VehicleSales`,
`OfficeRecords` and `Registry` run the handlers of the services call by call. The
first two are shown to implement `SalesLedger` and `RecordBook`, where a request is one step;
`Insights` and `Screen` rely on that and let a writer, or a server, make one step per request.

### How `VehicleSales` corresponds to the code

`vehicle`, `deal` and `paid` are the committed rows of the tables `vehicles`,
`deals` and `payments` (of a payment only the deal and the amount matter, so
`paid` keeps the number of rows and their sum). `log` counts `vehicle_events`
and `audit_logs` rows per entity. `req` holds the requests in flight: `stage` is the
next database call, the other fields are the handler's locals that are still
used. `failures` counts failed calls.

One action is one database call, or a run of calls nothing can come between:

| handler | actions, in order |
|---|---|
| `DealsService.create` | `ReadForCreate`, then `CreateDeal` or `CreateConflict`, then `AuditDeal` |
| `DealsService.updateStatus` | `ReadDeal`, `AcceptDealStatus` or `RejectDealStatus`, then `UpdateDeal` (status that moves no vehicle) or `LockDeal`, `SyncRead`, `SyncWrite` (status that does) or `DealConflict`, then `AuditDeal` |
| `DealsService.addPayment` | `AddPayment`, `AuditPayment` |
| `VehiclesService.updateStatus` | `ReadVehicle`, `UpdateVehicle` or `VehicleConflict`, `RecordEvent`, `AuditVehicle` |
| `VehiclesService.setListPrice` | `ReadVehicleForPrice`, `UpdatePrice` or `VehicleConflict`, `RecordEvent`, `AuditVehicle` |
| `VehiclesService.create` | `InitialVehicle`: a new vehicle is a CANDIDATE with version 1, one event, one audit row |
| any handler | `Fail`: its next call fails or the process stops; an open transaction is rolled back |

The database is PostgreSQL at its default READ COMMITTED:

- `create` is one step. Its insert claims the index entry of the vehicle and its
  update the vehicle's row, so no rival can commit anything it depends on
  between its statements; a rival that holds an active deal's row makes the
  insert wait (`IndexSettled`), because that deal may be about to leave the
  partial index.
- `updateStatus` of a deal is split, because its transaction reads the vehicle
  *without* locking it: between `SyncRead` and `SyncWrite` other requests may
  write the vehicle. Until it commits, its new deal version exists only in
  `req`, and `DealRowFree` keeps other updates of that deal waiting.
- `addPayment` reads the deal only to see that it exists, and deals are never
  deleted: read and insert are one step. The re-read after a vehicle update
  changes nothing and is part of the update's step.

Choices that a reader should know:

- A request that its first read already rejects changes nothing; it is a
  stuttering step. The choice of inputs is part of the first read.
- A client sends a version it has read (`ReadableVersions`). The proofs never
  use `MaxStaleness`: they hold for any version up to the current one.
- `Resend` tells two clients apart. FALSE is the shipped frontend, which offers
  only the listed next statuses, so it repeats a status only when its view is
  out of date. TRUE is a client that may also repeat a status, with any version it has
  read; a version above the current one, which no row ever had, is refused like any
  other that does not match, and is not among the inputs.
- `Fleet` says how a vehicle enters: `new` as created, `stocked` as it is after
  INTAKE, RECONDITIONING, a list price and AVAILABLE by hand, with four more
  versions and their history; the `intake` run contains that very path.
- Quotes are approved ones (a final status), with `discount < price`.
- Roles and ownership are left out: they only forbid requests, so every
  behaviour of the system is one of the model.
- The branch of `SyncRead` that rolls back for a missing list price is in the
  model and is never taken: that is `StockIsPriced`.

### How `OfficeRecords` corresponds to the code

`row` holds the rows of the tables `leads`, `tasks` and `quotes`: status, version, a
lead's `lossReason` and a quote's `supersedesId`. `audit` holds the audit rows
about each record, with their before and after, in the order they were inserted.
`req` and `failures` are as in `VehicleSales`.

| handler | actions, in order |
|---|---|
| `LeadsService.create`, `TasksService.create`, `QuotesService.create` | `CreateLead`, `CreateTask`, `CreateQuote`, then `Audit` |
| `QuotesService.revise` | `ReadForRevise`, `Revise`, `Audit` |
| `updateStatus` of the three services | `ReadLead`, `ReadTask` or `ReadQuote`; `UpdateLead`, `UpdateTask` or `UpdateQuote`, or `Conflict`; `Audit` |
| any handler | `Fail` |

A loss reason is `null`, empty or given; as an input it may also be omitted,
which Prisma takes for "leave the column as it is". Owners, roles, prices and
dates are left out: they only refuse requests. The two modules meet at the quote:
`VehicleSales` takes an approved quote as given, and that APPROVED is final is
part of `RecordBook`.

### How `Registry` corresponds to the code

`row` holds the rows of six tables; of a row the keys that are compared matter
(plate, VIN, phone, e-mail), its parent (the vehicle of an expense, the document that a
document supersedes), the entity a document is about, version and file. `disk` is the
directory of stored files, `recorded` says which history rows the creation of
a row has. A request holds the row it will insert (`new`), then that row's id.

| handler | actions, in order |
|---|---|
| `VehiclesService.create` | `CheckVehicle` (`assertNoDuplicate`), `Insert`, `RecordEvent`, `RecordAudit` |
| `CustomersService.create`, `UsersService.create` | `CheckCustomer` or `CheckUser`, `Insert` or `InsertRefused` (unique index), `RecordAudit` |
| `VehiclesService.addExpense`, `BranchesService.create` | `FindVehicle` or `FindOrganization`, `Insert`, `RecordAudit` |
| `DocumentsService.upload`, `revise` | `AcceptUpload` or `AcceptRevision`, `BeginWrite`, `EndWrite`, `Insert`, `RecordAudit` |
| `DocumentsService.download` | `FindDocument`, `ReadFile` |
| `prisma/seed.ts` | `SeedOrganization`, `SeedBranch`, `SeedOwner` |
| any handler | `Fail` |

`ReadFile` has no branch for a file that is not there: TLC checks for deadlock and
`DocumentHasItsFile` says that it is never needed. A name drawn by `randomUUID` is one
that no file has. A check that refuses is a stuttering step.

### How `Insights` corresponds to the code

`vehicle`, `lead` and `deal` are what matching and reports read; their writers are one step
each; they move leads to a few statuses in a run, to any of the eleven in the proofs. `ReadStock` is the two reads of `recomputeForLead` (a lead's preferences
never change), `Upsert` one of the upserts that run side by side, `AnswerMatches` the end
of `Promise.all`. A report is its first query and its last (`QueryVehicles` and so
on, `AnswerReport`); what it says of leads adds up the rows of all eleven statuses. `offered` is a history variable: every list price that a vehicle had
while AVAILABLE. `MatchScore` keeps the program's operators under
their names; `Math.round` is rounding half up, ratios are exact. What it does for a
negative limit follows the code too, and one lead of the run has one, because
`create-lead.dto.ts` asks for an integer and no more. A negative limit can make a line of
the explanation as large as it likes, which the clamping of the score hides: such a lead is exempt
from `MatchExplainsItself` and `NearerPriceFitsNoWorse`, by a condition in the properties (`NotNegative`).

### How `Screen` corresponds to the code

`page` is a page or tab; `query` is the state of its `useApiQuery`, `form` that of
its form or modal, `busy` the rows whose control waits. `token` is what localStorage has, `user`
what `AuthProvider` has; the two part when a 401 clears the token. `calls` are the
requests in flight, with the token they were sent with.

| code | actions |
|---|---|
| `useApiQuery` (load, deps, refetch) | `Mount`, `Select`, `Retry`, `Refetch` start a load; `GetAnswered` ends it |
| status controls and buttons of all pages | `Patch`, `PatchAnswered` |
| forms and modals of all pages | `Press`, `PostAnswered`, `ReopenForm` |
| leaving a page, collapsing a deal, reloading the document | `Remount`, `Collapse`, `Reload` |
| `auth.tsx`, `LoginPage` | `Login`, `LoginAnswered`, `Logout`, `Expire` |
| the server | `Unauthorized`, `ServeGet`, `ServePatch`, `ServePost`, `ServeLogin`; `Fail`: an error, before the write or after it; `OtherWrites` is another user |
| the network | `Lose`: a call, or only its answer, never arrives |

A list page puts its spinner where everything below was, so a reload throws away
controls and an open modal; a detail page keeps them. A `wish` is what a user wants to create
once; he presses again unless he saw it done, and `unseen` counts the calls
whose outcome he was not told: the network failed, the form was left, or the server answered with an
error. An error does not mean that nothing was created: `addPayment`, `LeadsService.create` and the others insert
their row and then await `auditLog.record`, in no common transaction, and `Fail` may come between the two. A
refusal (a field, a role, a missing row, a duplicate) comes before the insert and may come at any time. Left out: the button that opens a deal from an approved quote
(its server side is `VehicleSales.ReadForCreate`), the download button, the lists that
only fill a select, deselecting an entity, a second tab (which shares the token, so a logout in
one leaves the other with a user and no token).

## 3. What TLC checks

`sale`, `intake` and `delivery` are runs of `MCVehicleSales` with one vehicle. Two vehicles would add only
products of independent behaviours: no statement touches two vehicles, and a
request works on one. Two concurrent requests are enough for every pairwise race;
that no property needs a third actor is what the proofs, which are for any set
of requests, establish for the safety properties they cover.

| run | instance | properties | what it shows |
|---|---|---|---|
| `sale` | 2 quotes, 2 requests, repeats allowed, reserve and release by hand | `TypeOK`, `NoDoubleSale`, `StaleReadIsRefused`, `LockedRowIsAsChecked`, `DealMovesListed`, `VersionedBeforeIsTrue` | the optimistic locking and the index do their work under every interleaving, and what is logged as the value before a checked write is the value it replaced |
| `intake` | new vehicle, all statuses by hand, 1 quote, no payments, 1 failed call, fairness | `StockIsPriced`, `DealAuditBalance`, `VehicleEventBalance`, `EveryRequestEnds` | stock for sale has a list price, so a cancellation is never rolled back for lack of one; history is never ahead of the rows and lags only by failed calls; no request waits for ever, not even when the transaction it waits for crashes |
| `delivery` | 2 quotes, up to DELIVERED, payment in two parts, only RESERVED by hand, shipped frontend | `DeliveredIsPaid`, `VehicleMirrorsDeal`, `EventBeforeIsTrue`, `ImplementsLedger` | no unpaid delivery; as long as nobody takes a vehicle out of its deal by hand, the two statuses agree in every committed state, and the event of a vehicle that follows its deal names the status it left; refinement of the ledger |
| `records` | 1 lead, 1 task or 2 quotes, 2 requests, 1 failed call | `TypeOK`, `StaleReadIsRefused`, `ReasonOnlyOfLost`, `TrailLeadsToStatus`, `ImplementsRecordBook` | updates act on what they read; only a lost lead has a reason; the audit log is one unbroken trail; refinement of the record book |
| `registry` | 3 rows, 2 files, 2 requests or seeds, 2 failed calls | `TypeOK`, `EmailNamesOneUser`, `OnlyOverlapDoubles`, `DocumentHasItsFile`, `OrphansComeFromFailures`, `VersionIsDepth`, `UnrecordedComeFromFailures` | the unique index keeps e-mail addresses apart, plates, VINs and phones double only by requests that overlap; a document has a complete file of its own and a version that counts its chain; files without a row and rows without their history come from failures alone |
| `insights` | 2 vehicles, 1 lead, 1 deal, 2 requests, 3 commits of writers | `TypeOK`, `MatchExplainsItself`, `MatchesAreOfOffers`, `RecomputeIsNotLost`, `NearerPriceFitsNoWorse`, `ReportSkewIsBounded` | a match is the score of an offer that was made; a recompute alone with its lead leaves what it read; a nearer price never scores lower; the parts of a report differ by no more than the writes between them |
| `screen` | 2 rows, 2 calls in flight, 2 sessions, 1 call that the network or the server fails, 1 wish, fairness of answers | `TypeOK`, `MovesFromWhatWasShown`, `OfferStands`, `OneRowPerPress`, `ShownIsSelected`, `TokenIsUsers`, `OnlyOldCallsEndASession`, `SpinnerEnds` | a status that the user was not shown is never overwritten; what a page offers the server accepts; one wish is one row but for outcomes the user was not told; rows shown belong to the selection unless two loads overlapped; only an old session's call ends a good session; every spinner ends |

Bounds of the sales runs. `MaxDealVersion` and `MaxVehicleVersion` bound the versions a client
sends: 2 lets a deal be opened, moved once and be raced for with both versions;
in `delivery` 6 is the version of a delivered deal, so that a request on it is
still answered; the vehicle's is chosen so that it can be reserved and released
(or, in `intake`, taken from CANDIDATE to AVAILABLE and beyond). A deal itself
may move a vehicle past its bound. `MaxStaleness` = 1: any older version fails
the same test; it is 0 in `delivery`, where a row may still move between the
read and the write and `sale` covers the clients that begin with an old version.
`MaxPaid` is the sale price, reached in two parts in `delivery`; `MaxFailures` = 1
lets the event, the audit row or an open transaction be lost at any point.
The largest run (`delivery`) has about 0.9 million distinct states. `intake` checks liveness, so it is run
without symmetry, and the payments, which wait for no row, are left out of it.

In `records` the highest version a client sends is per record: 2 for leads and tasks, so
that a record is moved, moved again and raced for with both versions; 3 for the
first quote, which takes it to APPROVED, and 1 for the second, its revision or a new one. Leads, tasks and quotes
share no row, so `StaysOneKind` lets only one kind exist at a time (a quote needs a lead
to be there, and a new one that nobody works on will do; quotes are checked without failures). The lead
statuses asked for are CONTACTED and LOST: the open ones differ in nothing but their name, and so
do the decided ones but for the reason.

In `registry` three rows are a chain of two revisions, or a vehicle with its double and an
expense, or an owner that the seed and a request want at once; two failures are an orphan
and a row without its history. In `insights` one lead states a budget from 20 to 30, one a budget and a
mileage of 0, one a negative budget, one nothing; leads are open, won or lost; prices lie below, just above and farther above that budget; three commits let a
vehicle be sold, repriced and sold again while it is scored. In `screen` a state starts on a
page with what is interesting about it: two sessions where the session is
the question, one failed call, rows of two statuses where another user writes; two calls in flight are
what it takes for answers to pass each other.

Fairness. `FairSpec` of `VehicleSales` adds strong fairness of each request's next database call.
Node runs every continuation whose promise is settled, and PostgreSQL queues
those who wait for a row, so a call that is possible again and again is made
even when others take the row in between: weak fairness would not say that.
Starting a request and failing are not fair. In `Screen` weak fairness of serving and of
delivering an answer is enough, because a call in flight stays possible until it is made; users
need do nothing. `SpinnerEnds` allows for a user who for ever leaves, selects and retries.

### Where the code and the repository's own statements part

Each is a run of its own that finds the violation (`findings` in `PROJECT.json`
quotes the statement).

| run | what the code does |
|---|---|
| `terminal_vehicle` | `syncVehicleStatus` writes the vehicle by id alone: a cancellation undoes a return to the supplier that was committed between its read and its write. The event of that write (`b/deals/deals.service.ts:294`) says that the vehicle left IN_DEAL, the status read at line 264, although it left another: `EventBeforeIsTrue` fails at the same step, and passes only in `delivery`, where nobody can come between |
| `cancelled_deal` | CANCELLED sent again for a cancelled deal makes AVAILABLE a vehicle that another active deal holds |
| `sent_again` | a payment or a document is inserted, its audit row fails, the user reads an error and sends it again: there are two, and no Idempotency-Key that would tell |
| `duplicate_vehicle` | plate and VIN are looked for and inserted in two calls with no index: two requests that overlap both insert the vehicle |
| `wrong_lead` | the form of a quote keeps the lead it was mounted with; after another lead is selected the quote goes to the first |

Noted without a run of their own: a vehicle that follows its deal gets an event and no audit row
(`b/deals/deals.service.ts:284`), where `docs/data-model.md:59-60` says that a status move is recorded
in both; a vehicle released by hand stays on sale when its deal is
delivered, because `syncVehicleStatus` skips an unlisted move silently
(`b/deals/deals.service.ts:279`); LOST sent again for a lost lead is not asked for a
reason, and an empty or null one overwrites the one it has (`b/leads/lead-status.ts:41`, against the
comment at its line 7); the revision of a quote is inserted without a condition on the quote, so
one that is closed meanwhile is superseded all the same (`b/quotes/quotes.service.ts:88`); a
401 clears whatever token is stored, so a late answer to a call of an old session ends a new one
(`frontend/src/lib/api.ts:54`, the exception that `OnlyOldCallsEndASession` states), and leaves the user in
place, on a page that only shows errors; two revisions of one document take the same version
number (`b/documents/documents.service.ts:100`; `VersionIsDepth` admits them); a match stays when its vehicle is sold or
repriced, until its lead is recomputed;
`create` moves a vehicle from AVAILABLE to IN_DEAL, which the graph of
`vehicle-status.ts` does not list (`b/deals/deals.service.ts:127`); the vehicle's
event is written after the vehicle in a call of its own, so a failure loses it
(`b/vehicles/vehicles.service.ts:110`; the balances in `intake` count it); the vehicles
endpoint can deliver a vehicle that is in no deal (`b/vehicles/vehicles.service.ts:92`).

## 4. What is proved

Every safety property that a passing run checks, invariant or action property, is stated by a
theorem for every value of the constants, and both refinements are theorems too. There is no bound
on vehicles, leads, tasks, quotes, rows, files, requests, calls, versions or failures, and `Fail` and
`Lose` steps are included. The constants that bound a run (`MaxFailures`, `MaxVersion`, `MaxWrites` and the like) may be
any natural number. What the theorems assume:

- the named `ASSUME`s of `VehicleSales`, `OfficeRecords`, `Registry`, `Insights` and `Screen`: the
  constants have their types, a sale price is positive, payments are positive, the null values
  are not rows, leads, tasks and quotes are disjoint, the states a page starts in have rows of its table;
- that sets which are counted are finite, where a statement counts them: `Requests` in
  `OverlapBoundsDoubles`, `Calls` in `RowsPerWish`, the tables in `ReportsAgree` and in the `TypeCorrect` of `Insights`;
- `OnlyDealsMove` in `DealsCarryTheirVehicles` and `EventsTellTheTruth`, explained below.

`MatchExplainsItself` and `NearerPriceFitsNoWorse` carry their condition on the lead's limits in their
own text.

Of `VehicleSales` (the four modules of proofs are `VehicleSales_proofs` and, where named,
`VehicleStock_proofs`, `VehicleHistory_proofs` and `VehicleMirror_proofs`):

| theorem | states |
|---|---|
| `TypeCorrect` | `Spec => []TypeOK` |
| `DoubleSaleExcluded` | `Spec => []NoDoubleSale` |
| `DeliveryIsPaid` | `Spec => []DeliveredIsPaid` |
| `OptimisticLockingIsSafe` | `Spec => []StaleReadIsRefused` |
| `LockedRowIsStable` | `Spec => []LockedRowIsAsChecked` |
| `HistoryIsTrue` | `Spec => VersionedBeforeIsTrue` |
| `DealsFollowGraph` | `Spec => DealMovesListed` |
| `Refinement` | `Spec => ImplementsLedger` |
| `StockHasListPrice` (`VehicleStock_proofs`) | `Spec => []StockIsPriced` |
| `DealHistoryBalances` (`VehicleHistory_proofs`) | `Spec => []DealAuditBalance` |
| `VehicleHistoryBalances` (`VehicleHistory_proofs`) | `Spec => []VehicleEventBalance` |
| `DealsCarryTheirVehicles` (`VehicleMirror_proofs`) | `OnlyDealsMove` implies `Spec => []VehicleMirrorsDeal` |
| `EventsTellTheTruth` (`VehicleMirror_proofs`) | `OnlyDealsMove` implies `Spec => EventBeforeIsTrue` |

Of `OfficeRecords`:

| theorem | states |
|---|---|
| `TypeCorrect` | `Spec => []TypeOK` |
| `OptimisticLockingIsSafe` | `Spec => []StaleReadIsRefused` |
| `ReasonBelongsToLoss` | `Spec => []ReasonOnlyOfLost` |
| `Refinement` | `Spec => ImplementsRecordBook` |
| `AuditTrailIsComplete` | `Spec => []TrailLeadsToStatus` |

Of `Registry`:

| theorem | states |
|---|---|
| `TypeCorrect` | `Spec => []TypeOK` |
| `OneUser` | `Spec => []EmailNamesOneUser` |
| `FilesComplete` | `Spec => []DocumentHasItsFile` |
| `VersionsCount` | `Spec => []VersionIsDepth` |
| `OrphansCounted` | `Spec => []OrphansComeFromFailures` |
| `UnrecordedCounted` | `Spec => []UnrecordedComeFromFailures` |
| `OverlapBoundsDoubles` | `Spec => []OnlyOverlapDoubles` |

Of `Insights`:

| theorem | states |
|---|---|
| `TypeCorrect` | `Spec => []TypeOK` |
| `MatchesGrounded` | `Spec => []MatchesAreOfOffers` |
| `RecomputeKeepsItsWord` | `Spec => RecomputeIsNotLost` |
| `MatchesExplained` | `Spec => []MatchExplainsItself`, which exempts leads with a negative limit |
| `NearerFitsNoWorse` | `Spec => NearerPriceFitsNoWorse`, which exempts leads with a negative limit or a minimum above the maximum |
| `ReportsAgree` | finite tables imply `Spec => ReportSkewIsBounded` |

Of `Screen`:

| theorem | states |
|---|---|
| `TypeCorrect` | `Spec => []TypeOK` |
| `NobodyOverwritesUnseen` | `Spec => []MovesFromWhatWasShown` |
| `OffersHold` | `Spec => []OfferStands` |
| `TokenOfUser` | `Spec => []TokenIsUsers` |
| `SessionsEndForAReason` | `Spec => OnlyOldCallsEndASession` |
| `RowsOfSelection` | `Spec => []ShownIsSelected` |
| `RowsPerWish` | finite `Calls` imply `Spec => []OneRowPerPress` |

### Sales

The argument is by rely and guarantee. Every step of one request *guarantees*
that each row keeps its content or gets a higher version, that payments only
grow, and that the row of a deal another transaction has locked stays as it is. Each
request *relies* on that of the others: what it has read of a row is therefore still
true, or the version it will write against has been overtaken. The inductive invariant

    IInv == TypeOK /\ RequestsOK /\ StaleReadIsRefused /\ LockedRowIsAsChecked
            /\ NoDoubleSale /\ DeliveredIsPaid

needs `RequestsOK` because the other parts say nothing of what a request knows
once it has made its check: that the move it will write was listed, that the
sale was paid for when it asks for DELIVERED (and payments only grow), that a
transaction in its second half has a status the vehicle follows. `NoDoubleSale` and
`DeliveredIsPaid` are not inductive without it. The refinement and the two
action properties are consequences: in a state with `IInv` the write of a deal
is exactly the move that was checked, so it is a step of the ledger.

`VehicleStock_proofs` adds which requests can bring a vehicle into AVAILABLE, and that those have
seen a list price, which is never removed.

`VehicleHistory_proofs` adds `HInv`: for each deal and each vehicle, rows logged plus requests that
still have to log never exceed the versions committed, and fall short of them by no more than `failures`. It is
inductive because it keeps books: every step either commits once and leaves one more request to
log, or commits and logs at once, or logs and leaves one fewer, or fails and may leave one fewer without a row.

`VehicleMirror_proofs` proves `VehicleMirrorsDeal` where `OnlyDealsMove` holds: a client that does not repeat
the status it sees, a vehicles page that only reserves, a fleet that is in stock (the `delivery` run is such an
instance). Without these the statement is false of the code, and what then goes wrong is what the runs
`terminal_vehicle` and `cancelled_deal` and the notes after them show. `MInv` adds that a deal's move in
flight is a real move or its version is overtaken, and that a reservation in flight
began with a vehicle that no active deal had. A deal's listed move then always finds its vehicle where the vehicle
graph lists the move that follows, which is why `syncVehicleStatus` never skips one in silence.

`EventsTellTheTruth` is about a write that checks nothing: `syncVehicleStatus` reads the vehicle, writes it by
id and logs what it had read. It stands only because, under `OnlyDealsMove`, nobody else can come between.
While a transaction holds the row of an active deal, that deal is the vehicle's only active one (`FollowedIsActive`,
`FollowedAlone`), so that no creation commits, no second transaction follows the same vehicle and every
reservation by hand names a version that has been overtaken; the status that was read is the vehicle's to the end
(`FollowersSawTruth`). Of the general system it is false, as the trace of `terminal_vehicle` shows. Before-values of checked writes
need no such condition (`HistoryIsTrue`): there the version that the write compares stands for the status.

### Leads, tasks and quotes

`OfficeRecords_proofs` follows the same plan with three kinds of step: an insert, an
update, and a step that touches no row. Its invariant adds to `StaleReadIsRefused`
that an update in flight is a move that was checked; an update that is not
refused therefore makes that move on the row as it is (`WriteIsChecked`), which
gives both `ReasonOnlyOfLost` and the refinement.

`AuditTrailIsComplete` is about rows in an order nobody controls. Its invariant counts, for each
record and status, the audit rows that enter the status and those that leave it, the rows requests have still
to add included: as long as no call has failed, they balance but for the status that the
record has now. Once nothing is left to add, that is what makes the rows one trail.

### Files, uniqueness and history rows

`Registry_proofs` adds to the properties what a request in flight knows (`RequestOK`: the
file it writes is partial, the file it will insert is complete, the document it supersedes is
there with the version it has read; rows and files are never taken away, so this stays true) and that no two
of all rows and requests name one file (`FilesApart`), which is why a fresh name, drawn while others write, makes
`DocumentHasItsFile` inductive.

Three more invariants count. `OInv`: the orphaned files are at most as many as the failures; only `Fail` leaves one,
and at most one (`NothingLeft`). `RInv`: the same for rows that lack a history row and that no request
will give one. `DInv`: rows that share a key, and requests that have found it free and will insert it, are together
at most as many as there are requests: while one row has the key no further request finds it free, and an insert turns a
request that comes into a row.

### Matching and reports

The first invariant of `Insights_proofs` never looks into a score: it says that every price a recompute has
still to write was an offer, that offers are never forgotten, and that a recompute marked alone is
the only one of its lead (`AloneIsAlone`), so that what it has written stays written
(`RecomputeOK`). `MatchesGrounded` and `RecomputeKeepsItsWord` hold for every definition of `computeMatchScore`.

The others do look. Each line of a score is a natural number for all preferences and cars, so that the clamped sum is a
percentage (`TypeCorrect`), and is at most its weight if no limit is negative, so that the weights, which add up to
100, leave nothing to clamp (`MatchesExplained`). For the budget line, `proportionalFalloff` is shown to fall with
the distance from the limit in spite of rounding: a floor of a quotient is compared by the products that
define it. All other lines do not depend on the price. Nothing in the API refuses a negative limit, so
`NotNegative` is a condition on the data and not a guarantee of the code.

`ReportsAgree` keeps for every report under way that the count it has taken and the count it would take now differ by no
more than the writes since (`SkewOK`): a write changes one row, and one row changes a count by at most one. A
lead of whatever status is in one row of the first answer and stays in one row of the last, since leads are only added.
Its only hypothesis is that the tables are finite, without which nothing can be counted.

### The frontend

All steps of `Screen` do one of three things to a call: it goes on, it *fades* (nobody, or no form, listens to
it any more) or it is replaced by one other call (`OneReplaced`, `NoneReplaced`). `IInv` says that what was read of a row is the row or an earlier version
of it (`PastRows`), that a call which changes a status was offered by the tables for the row as it once was (`PatchOK`),
that a call a page waits for belongs to its session (`SessionOK`), that only an expired token is refused (`RefusalOK`) and
that at most one login is under way (`OneLogin`). With the version that the server compares, `PatchOK` is `MovesFromWhatWasShown`; with
the two copies of the tables, `OfferStands`; `RefusalOK` leaves an old call as the only reason for
`OnlyOldCallsEndASession`.

`LInv` adds that all loads are of the selection unless two overlapped, which on a list page they never do.
`FInv` bounds, for each wish, the rows created and the calls still on their way to create one by the outcomes
the user was not told, plus one if a form waits for its answer or the wish was seen fulfilled. Every press spends that one, and
it comes back only with a refusal (or a 401), which comes before anything is written, or with one more outcome that the user was not
told: a lost call, a form that was left, an error of the server after which the row may be there or not.

### Only model-checked

`EveryRequestEnds` and `SpinnerEnds`: liveness under fairness, which needs `ENABLED` and is out of the
provers' reach. The statements of `VehicleSalesClaims` and the other `violation` runs are refuted, not proved.

## 5. What is left

Not modelled, and why:

- Roles and row-level access: guards and ownership checks only refuse requests and write
  nothing, and nothing in the repository changes the roles of a user.
- The audit row of a login, passwords, the contents and type of a file.
- Sums and averages of money in reports, the age of stock, and the personal report, whose two
  queries count different tables and have no relation to keep.
- A cycle of locks between transactions: the write of a vehicle and the commit are one step of `VehicleSales`.
  The statements exclude one. An update of a deal locks the deal's row, then writes its vehicle; a creation inserts a
  deal of its own, then writes the vehicle; a vehicles request writes one row in a statement of its own. Whoever
  has the vehicle's row has all it needs and commits; before that, a creation can wait for the index entry of a deal that an
  update holds, but no update waits for the row of a deal that is only being created.
- The order of the events of one vehicle: `VehicleSales` counts them.
- In the frontend: labels, fields, sorting, downloads, a second tab.
- Health check, bootstrap, validation wording, error filter: no state.

Worth doing next: the order in which the events of one vehicle are recorded, which the sequences of
`OfficeRecords` would express for `VehicleSales` too; a second tab of the frontend, which shares the token.

## 6. Running it

    tlc -config sale.cfg MCVehicleSales      # any run, by its cfg
    tlapm VehicleSales_proofs.tla            # any module of proofs
