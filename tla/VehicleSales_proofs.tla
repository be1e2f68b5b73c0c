------------------------ MODULE VehicleSales_proofs ------------------------
(***************************************************************************)
(* Safety of VehicleSales for any fleet, any quotes and any number of      *)
(* requests in flight.                                                     *)
(***************************************************************************)
EXTENDS VehicleSalesRefinement, TLAPS

Locking == {"syncRead", "syncWrite"}
Updating == {"checkDeal", "casDeal"} \cup Locking
OnQuote == Updating \cup {"createTx", "auditDeal", "auditPayment"}
OnVehicle == {"casVehicle", "casPrice", "eventVehicle", "auditVehicle"}

\* What assertValidDealTransition has established for a request past its check.
Checked(e) ==
  \/ e.old = e.next
  \/ /\ <<e.old, e.next>> \in DealTransitions
     /\ e.next = "DELIVERED" => paid[e.quote].total >= SalePrice[e.quote]

\* A request names the rows its stage is about, and carries what it was told.
RequestOK(e) ==
  /\ e.stage \in OnQuote => e.quote \in Quotes /\ e.vehicle = QuoteVehicle[e.quote]
  /\ e.stage \in OnVehicle => e.vehicle \in Vehicles
  /\ e.stage \in Updating => e.next \in DealStatuses /\ Exists(deal[e.quote])
  /\ e.stage \in Updating \ {"checkDeal"} => Checked(e)
  /\ e.stage \in Locking => e.next \in SyncedDealStatuses
  /\ e.stage = "casVehicle" => e.next \in VehicleStatuses
RequestsOK == \A r \in Requests : RequestOK(req[r])

IInv == /\ TypeOK
        /\ RequestsOK
        /\ StaleReadIsRefused
        /\ LockedRowIsAsChecked
        /\ NoDoubleSale
        /\ DeliveredIsPaid

-----------------------------------------------------------------------------

LEMMA IdleType == Idle \in RequestType /\ Idle.stage = "idle"
BY DEF Idle, RequestType, Stages

LEMMA LoggingType ==
  ASSUME NEW stage \in Stages, NEW q \in Quotes \cup {NoQuote},
         NEW v \in Vehicles \cup {NoVehicle}
  PROVE  /\ Logging(stage, q, v) \in RequestType
         /\ Logging(stage, q, v).stage = stage
         /\ Logging(stage, q, v).quote = q
         /\ Logging(stage, q, v).vehicle = v
BY DEF Logging, Idle, RequestType, Stages

LEMMA VehicleStatusForType ==
  ASSUME NEW s \in SyncedDealStatuses
  PROVE  VehicleStatusFor(s) \in VehicleStatuses
BY DEF SyncedDealStatuses, VehicleStatusFor, VehicleStatuses

LEMMA InitInv == Init => IInv
<1> SUFFICES ASSUME Init PROVE IInv
  OBVIOUS
<1> USE QuoteVehicleAssumption, FleetAssumption
<1>0. \A v \in Vehicles : InitialVehicle(v) \in
        [status : VehicleStatuses, version : Nat, hasPrice : BOOLEAN]
  BY DEF InitialVehicle, VehicleStatuses
<1>1. TypeOK
  BY <1>0, IdleType, BoundsAssumption DEF TypeOK, Init
<1>2. \A r \in Requests : req[r].stage = "idle"
  BY IdleType DEF Init
<1>3. RequestsOK
  BY <1>2 DEF RequestsOK, RequestOK, OnQuote, OnVehicle, Updating, Locking
<1>4. StaleReadIsRefused /\ LockedRowIsAsChecked
  BY <1>2 DEF StaleReadIsRefused, LockedRowIsAsChecked
<1>5. NoDoubleSale /\ DeliveredIsPaid
  BY DEF Init, NoDoubleSale, DeliveredIsPaid, Active
<1> QED
  BY <1>1, <1>3, <1>4, <1>5 DEF IInv

-----------------------------------------------------------------------------
(* What the building blocks of the actions do *)

DealRows == [Quotes -> [status : DealStatuses \cup {"NONE"}, version : Nat]]
VehicleRows == [Vehicles -> [status : VehicleStatuses, version : Nat, hasPrice : BOOLEAN]]
PaidRows == [Quotes -> [rows : Nat, total : Nat]]
LogRows == [event : [Vehicles -> Nat], vehicle : [Vehicles -> Nat],
            deal : [Quotes -> Nat], payment : [Quotes -> Nat]]

LEMMA TypeParts ==
  TypeOK <=> /\ vehicle \in VehicleRows /\ deal \in DealRows /\ paid \in PaidRows
             /\ req \in [Requests -> RequestType] /\ log \in LogRows
             /\ failures \in 0..MaxFailures
BY DEF TypeOK, DealRows, VehicleRows, PaidRows, LogRows

LEMMA WriteDealEffect ==
  ASSUME TypeOK, NEW q \in Quotes, NEW s \in DealStatuses, WriteDeal(q, s)
  PROVE  /\ deal' \in DealRows
         /\ deal'[q].status = s
         /\ deal'[q].version = deal[q].version + 1
         /\ \A p \in Quotes \ {q} : deal'[p] = deal[p]
BY TypeParts DEF WriteDeal, DealRows

LEMMA WriteVehicleEffect ==
  ASSUME TypeOK, NEW v \in Vehicles, NEW s \in VehicleStatuses, WriteVehicleStatus(v, s)
  PROVE  /\ vehicle' \in VehicleRows
         /\ vehicle'[v].version = vehicle[v].version + 1
         /\ \A w \in Vehicles \ {v} : vehicle'[w] = vehicle[w]
BY TypeParts DEF WriteVehicleStatus, VehicleRows

LEMMA BecomeEffect ==
  ASSUME TypeOK, NEW r \in Requests, NEW e \in RequestType, Become(r, e)
  PROVE  /\ req' \in [Requests -> RequestType]
         /\ req'[r] = e
         /\ \A s \in Requests \ {r} : req'[s] = req[s]
BY TypeParts DEF Become

LEMMA AddVehicleRow ==
  ASSUME TypeOK, NEW v \in Vehicles, NEW kind \in {"event", "vehicle"}, AddRow(kind, v)
  PROVE  log' \in LogRows
<1>1. CASE kind = "event"
  BY <1>1, TypeParts DEF AddRow, LogRows
<1>2. CASE kind = "vehicle"
  BY <1>2, TypeParts DEF AddRow, LogRows
<1> QED
  BY <1>1, <1>2

LEMMA AddDealRow ==
  ASSUME TypeOK, NEW q \in Quotes, NEW kind \in {"deal", "payment"}, AddRow(kind, q)
  PROVE  log' \in LogRows
<1>1. CASE kind = "deal"
  BY <1>1, TypeParts DEF AddRow, LogRows
<1>2. CASE kind = "payment"
  BY <1>2, TypeParts DEF AddRow, LogRows
<1> QED
  BY <1>1, <1>2

-----------------------------------------------------------------------------
(* Each request relies on the others for Guarantee *)

\* The two invariants about reads and locks, one request at a time.
Knows(r) ==
  /\ req[r].stage \in Updating => ReadIsTrueOrOvertaken(deal[req[r].quote], req[r])
  /\ req[r].stage \in {"createTx", "casVehicle"} =>
       ReadIsTrueOrOvertaken(vehicle[req[r].vehicle], req[r])
Holds(r) ==
  req[r].stage \in Locking =>
    /\ deal[req[r].quote].version = req[r].ver
    /\ deal[req[r].quote].status = req[r].old
    /\ \A s \in Requests \ {r} : req[s].stage \in Locking => req[s].quote # req[r].quote
Entry(r) == RequestOK(req[r]) /\ Knows(r) /\ Holds(r)

\* What a step of r does to the others: a row keeps its content or gets a higher
\* version, a deal stays in the table, payments only add up, the rows another
\* transaction has locked stay as they are.
Guarantee(r) ==
  /\ \A q \in Quotes : \/ deal'[q] = deal[q]
                       \/ /\ deal'[q].version > deal[q].version
                          /\ Exists(deal'[q])
                          /\ \A s \in Requests \ {r} :
                               req[s].stage \in Locking => req[s].quote # q
  /\ \A v \in Vehicles : vehicle'[v] = vehicle[v] \/ vehicle'[v].version > vehicle[v].version
  /\ \A q \in Quotes : paid'[q].total >= paid[q].total
  /\ \A s \in Requests \ {r} : req'[s] = req[s]

LEMMA Rely ==
  ASSUME IInv, TypeOK', NEW r \in Requests, Guarantee(r), Entry(r)',
         NoDoubleSale', DeliveredIsPaid'
  PROVE  IInv'
<1> USE DEF Entry
<1>1. \A s \in Requests : RequestOK(req[s]) /\ Knows(s) /\ Holds(s)
  BY DEF IInv, RequestsOK, StaleReadIsRefused, LockedRowIsAsChecked, Knows, Holds,
         Updating, Locking
<1>2. ASSUME NEW s \in Requests \ {r} PROVE RequestOK(req[s])'
  <2>1. req'[s] = req[s] /\ req[s] \in RequestType
    BY TypeParts DEF Guarantee, IInv
  <2>2. ASSUME req[s].stage \in Updating PROVE Exists(deal'[req[s].quote])
    BY <1>1, <2>2 DEF RequestOK, Guarantee, OnQuote
  <2>3. ASSUME req[s].stage \in Updating, Checked(req[s]) PROVE Checked(req[s])'
    <3>1. req[s].quote \in Quotes
      BY <1>1, <2>3 DEF RequestOK, OnQuote
    <3>2. paid'[req[s].quote].total >= paid[req[s].quote].total
      BY <3>1 DEF Guarantee
    <3>3. paid[req[s].quote].total \in Nat /\ paid'[req[s].quote].total \in Nat
      BY <3>1, TypeParts DEF IInv, TypeOK
    <3>4. SalePrice[req[s].quote] \in Nat
      BY <3>1, SalePriceAssumption
    <3> QED
      BY <2>1, <2>3, <3>2, <3>3, <3>4 DEF Checked
  <2> QED
    BY <1>1, <2>1, <2>2, <2>3 DEF RequestOK, Updating
<1>3. ASSUME NEW s \in Requests \ {r} PROVE Knows(s)'
  <2>1. req'[s] = req[s] /\ req[s] \in RequestType
    BY TypeParts DEF Guarantee, IInv
  <2>2. CASE req[s].stage \in Updating
    <3>1. req[s].quote \in Quotes
      BY <1>1, <2>2 DEF RequestOK, OnQuote
    <3>2. deal[req[s].quote].version \in Nat /\ deal'[req[s].quote].version \in Nat
          /\ req[s].ver \in Nat
      BY <2>1, <3>1 DEF IInv, TypeOK, RequestType
    <3>3. ReadIsTrueOrOvertaken(deal[req[s].quote], req[s])
      BY <1>1, <2>2 DEF Knows
    <3>4. deal'[req[s].quote] = deal[req[s].quote]
            \/ deal'[req[s].quote].version > deal[req[s].quote].version
      BY <3>1 DEF Guarantee
    <3>5. ReadIsTrueOrOvertaken(deal'[req[s].quote], req[s])
      BY <3>2, <3>3, <3>4 DEF ReadIsTrueOrOvertaken
    <3> QED
      BY <2>1, <2>2, <3>5 DEF Knows, Updating, Locking
  <2>3. CASE req[s].stage \in {"createTx", "casVehicle"}
    <3>1. req[s].vehicle \in Vehicles
      BY <1>1, <2>3, QuoteVehicleAssumption DEF RequestOK, OnQuote, OnVehicle
    <3>2. vehicle[req[s].vehicle].version \in Nat /\ vehicle'[req[s].vehicle].version \in Nat
          /\ req[s].ver \in Nat
      BY <2>1, <3>1 DEF IInv, TypeOK, RequestType
    <3>3. ReadIsTrueOrOvertaken(vehicle[req[s].vehicle], req[s])
      BY <1>1, <2>3 DEF Knows
    <3>4. vehicle'[req[s].vehicle] = vehicle[req[s].vehicle]
            \/ vehicle'[req[s].vehicle].version > vehicle[req[s].vehicle].version
      BY <3>1 DEF Guarantee
    <3>5. ReadIsTrueOrOvertaken(vehicle'[req[s].vehicle], req[s])
      BY <3>2, <3>3, <3>4 DEF ReadIsTrueOrOvertaken
    <3> QED
      BY <2>1, <2>3, <3>5 DEF Knows, Updating, Locking
  <2> QED
    BY <2>1, <2>2, <2>3 DEF Knows
<1>4. ASSUME NEW s \in Requests \ {r} PROVE Holds(s)'
  <2> SUFFICES ASSUME req'[s].stage \in Locking PROVE Holds(s)'
    BY DEF Holds
  <2>1. req'[s] = req[s]
    BY DEF Guarantee
  <2>2. req[s].quote \in Quotes
    BY <1>1, <2>1 DEF RequestOK, OnQuote, Updating
  <2>3. deal'[req[s].quote] = deal[req[s].quote]
    BY <2>1, <2>2 DEF Guarantee
  <2>4. ASSUME NEW t \in Requests \ {s}, req'[t].stage \in Locking
        PROVE  req'[t].quote # req'[s].quote
    <3>1. CASE t = r
      BY <2>4, <3>1 DEF Holds
    <3>2. CASE t # r
      BY <1>1, <2>1, <2>4, <3>2 DEF Holds, Guarantee
    <3> QED
      BY <3>1, <3>2
  <2> QED
    BY <1>1, <2>1, <2>3, <2>4 DEF Holds
<1>5. \A s \in Requests : (RequestOK(req[s]) /\ Knows(s) /\ Holds(s))'
  BY <1>2, <1>3, <1>4
<1>6. RequestsOK' /\ StaleReadIsRefused' /\ LockedRowIsAsChecked'
  BY <1>5 DEF RequestsOK, StaleReadIsRefused, LockedRowIsAsChecked, Knows, Holds,
              Updating, Locking
<1> QED
  BY <1>6 DEF IInv

\* An entry of a stage that only logs, or of an idle slot, relies on nothing.
Quiet(e) ==
  \/ e.stage = "idle"
  \/ e.stage \in {"auditDeal", "auditPayment"} /\ e.quote \in Quotes
       /\ e.vehicle = QuoteVehicle[e.quote]
  \/ e.stage \in {"eventVehicle", "auditVehicle"} /\ e.vehicle \in Vehicles

LEMMA QuietEntry ==
  ASSUME NEW r \in Requests, Quiet(req[r])
  PROVE  Entry(r)
BY DEF Quiet, Entry, RequestOK, Knows, Holds, OnQuote, OnVehicle, Updating, Locking

\* A step that writes no vehicle, deal or payment only has to justify its entry.
LEMMA ReadStep ==
  ASSUME IInv, NEW r \in Requests, NEW e \in RequestType, Become(r, e),
         UNCHANGED <<vehicle, deal, paid>>, log' \in LogRows,
         failures' \in 0..MaxFailures, Entry(r)'
  PROVE  IInv'
<1>1. TypeOK
  BY DEF IInv
<1>2. TypeOK'
  BY <1>1, TypeParts, BecomeEffect DEF TypeOK, DealRows, VehicleRows, PaidRows, LogRows
<1>3. Guarantee(r)
  <2>1. \A q \in Quotes : paid[q].total \in Nat
    BY <1>1 DEF TypeOK
  <2> QED
    BY <1>1, <2>1, BecomeEffect DEF Guarantee
<1>4. NoDoubleSale' /\ DeliveredIsPaid'
  BY DEF IInv, NoDoubleSale, DeliveredIsPaid, Active
<1> QED
  BY <1>2, <1>3, <1>4, Rely

-----------------------------------------------------------------------------
(* One lemma per action *)

LEMMA InvReadForCreate ==
  ASSUME IInv, NEW r \in Requests, NEW q \in Quotes, ReadForCreate(r, q)
  PROVE  IInv'
<1> DEFINE v == QuoteVehicle[q]
           e == [stage |-> "createTx", quote |-> q, vehicle |-> v, next |-> "DRAFT",
                 ver |-> vehicle[v].version, old |-> vehicle[v].status, was |-> "-"]
<1>1. TypeOK /\ v \in Vehicles
  BY QuoteVehicleAssumption DEF IInv
<1>2. e \in RequestType
  BY <1>1 DEF TypeOK, RequestType, Stages, DealStatuses
<1>3. Become(r, e) /\ UNCHANGED <<vehicle, deal, paid, log, failures>>
  BY DEF ReadForCreate
<1>4. req'[r] = e
  BY <1>1, <1>2, <1>3, BecomeEffect
<1>5. Entry(r)'
  BY <1>1, <1>3, <1>4 DEF Entry, RequestOK, Knows, Holds, OnQuote, OnVehicle, Updating,
     Locking, ReadIsTrueOrOvertaken, TypeOK
<1> QED
  BY <1>1, <1>2, <1>3, <1>5, ReadStep, TypeParts

LEMMA InvReadDeal ==
  ASSUME IInv, NEW r \in Requests, NEW q \in Quotes, NEW s \in DealStatuses,
         NEW ver \in 1..MaxDealVersion, ReadDeal(r, q, s, ver)
  PROVE  IInv'
<1> DEFINE e == [stage |-> "checkDeal", quote |-> q, vehicle |-> QuoteVehicle[q],
                 next |-> s, ver |-> ver, old |-> deal[q].status, was |-> "-"]
<1>1. TypeOK /\ QuoteVehicle[q] \in Vehicles /\ ver \in Nat
  BY QuoteVehicleAssumption, BoundsAssumption DEF IInv
<1>2. Exists(deal[q]) /\ ver <= deal[q].version
  BY <1>1 DEF ReadDeal, ReadableVersions, TypeOK
<1>3. e \in RequestType
  BY <1>1, <1>2 DEF TypeOK, RequestType, Stages, Exists
<1>4. Become(r, e) /\ UNCHANGED <<vehicle, deal, paid, log, failures>>
  BY DEF ReadDeal
<1>5. req'[r] = e
  BY <1>1, <1>3, <1>4, BecomeEffect
<1>6. Entry(r)'
  BY <1>1, <1>2, <1>4, <1>5 DEF Entry, RequestOK, Knows, Holds, OnQuote, OnVehicle, Updating,
     Locking, ReadIsTrueOrOvertaken, TypeOK
<1> QED
  BY <1>1, <1>3, <1>4, <1>6, ReadStep, TypeParts

LEMMA InvReadVehicle ==
  ASSUME IInv, NEW r \in Requests, NEW v \in Vehicles, NEW s \in VehicleTargets,
         NEW ver \in 1..MaxVehicleVersion, ReadVehicle(r, v, s, ver)
  PROVE  IInv'
<1> DEFINE e == [stage |-> "casVehicle", quote |-> NoQuote, vehicle |-> v,
                 next |-> s, ver |-> ver, old |-> vehicle[v].status, was |-> "-"]
<1>1. TypeOK /\ ver \in Nat /\ s \in VehicleStatuses
  BY VehicleTargetsAssumption, BoundsAssumption DEF IInv
<1>2. ver <= vehicle[v].version
  BY <1>1 DEF ReadVehicle, ReadableVersions, TypeOK
<1>3. e \in RequestType
  BY <1>1 DEF TypeOK, RequestType, Stages
<1>4. Become(r, e) /\ UNCHANGED <<vehicle, deal, paid, log, failures>>
  BY DEF ReadVehicle
<1>5. req'[r] = e
  BY <1>1, <1>3, <1>4, BecomeEffect
<1>6. Entry(r)'
  BY <1>1, <1>2, <1>4, <1>5 DEF Entry, RequestOK, Knows, Holds, OnQuote, OnVehicle, Updating,
     Locking, ReadIsTrueOrOvertaken
<1> QED
  BY <1>1, <1>3, <1>4, <1>6, ReadStep, TypeParts

LEMMA InvReadVehicleForPrice ==
  ASSUME IInv, NEW r \in Requests, NEW v \in Vehicles,
         NEW ver \in 1..MaxVehicleVersion, ReadVehicleForPrice(r, v, ver)
  PROVE  IInv'
<1> DEFINE e == [stage |-> "casPrice", quote |-> NoQuote, vehicle |-> v,
                 next |-> "-", ver |-> ver, old |-> "-", was |-> "-"]
<1>1. TypeOK /\ ver \in Nat
  BY BoundsAssumption DEF IInv
<1>2. e \in RequestType
  BY <1>1 DEF RequestType, Stages
<1>3. Become(r, e) /\ UNCHANGED <<vehicle, deal, paid, log, failures>>
  BY DEF ReadVehicleForPrice
<1>4. req'[r] = e
  BY <1>1, <1>2, <1>3, BecomeEffect
<1>5. Entry(r)'
  BY <1>4 DEF Entry, RequestOK, Knows, Holds, OnQuote, OnVehicle, Updating, Locking
<1> QED
  BY <1>1, <1>2, <1>3, <1>5, ReadStep, TypeParts

\* The steps after which the request has nothing left to rely on.
LEMMA InvEnd ==
  ASSUME IInv, NEW r \in Requests,
         CreateConflict(r) \/ RejectDealStatus(r) \/ DealConflict(r) \/ VehicleConflict(r)
           \/ Fail(r)
  PROVE  IInv'
<1>1. TypeOK
  BY DEF IInv
<1>2. Become(r, Idle) /\ UNCHANGED <<vehicle, deal, paid, log>>
  BY DEF CreateConflict, RejectDealStatus, DealConflict, VehicleConflict, Fail, AfterConflict
<1>3. failures' \in 0..MaxFailures
  BY <1>1, BoundsAssumption DEF CreateConflict, RejectDealStatus, DealConflict,
     VehicleConflict, Fail, TypeOK
<1>4. Entry(r)'
  <2>1. Quiet(req'[r])
    BY <1>1, <1>2, IdleType, BecomeEffect DEF Quiet
  <2> QED
    BY <2>1 DEF Quiet, Entry, RequestOK, Knows, Holds, OnQuote, OnVehicle, Updating, Locking
<1> QED
  BY <1>1, <1>2, <1>3, <1>4, IdleType, ReadStep, TypeParts

LEMMA InvAudit ==
  ASSUME IInv, NEW r \in Requests, AuditDeal(r) \/ AuditPayment(r) \/ AuditVehicle(r)
  PROVE  IInv'
<1>1. TypeOK /\ RequestOK(req[r])
  BY DEF IInv, RequestsOK
<1>2. Become(r, Idle) /\ UNCHANGED <<vehicle, deal, paid, failures>>
  BY DEF AuditDeal, AuditPayment, AuditVehicle
<1>3. log' \in LogRows
  <2>1. CASE AuditDeal(r)
    BY <1>1, <2>1, AddDealRow DEF AuditDeal, At, RequestOK, OnQuote
  <2>2. CASE AuditPayment(r)
    BY <1>1, <2>2, AddDealRow DEF AuditPayment, At, RequestOK, OnQuote
  <2>3. CASE AuditVehicle(r)
    BY <1>1, <2>3, AddVehicleRow DEF AuditVehicle, At, RequestOK, OnVehicle
  <2> QED
    BY <2>1, <2>2, <2>3
<1>4. Quiet(req'[r])
  BY <1>1, <1>2, IdleType, BecomeEffect DEF Quiet
<1>5. Entry(r)'
  BY <1>4 DEF Quiet, Entry, RequestOK, Knows, Holds, OnQuote, OnVehicle, Updating, Locking
<1> QED
  BY <1>1, <1>2, <1>3, <1>5, IdleType, ReadStep, TypeParts

LEMMA InvRecordEvent ==
  ASSUME IInv, NEW r \in Requests, RecordEvent(r)
  PROVE  IInv'
<1> DEFINE e == Logging("auditVehicle", NoQuote, req[r].vehicle)
<1>1. TypeOK /\ req[r].vehicle \in Vehicles
  BY DEF IInv, RequestsOK, RequestOK, OnVehicle, RecordEvent, At
<1>2. Become(r, e) /\ UNCHANGED <<vehicle, deal, paid, failures>>
  BY DEF RecordEvent
<1>3. e \in RequestType /\ e.stage = "auditVehicle" /\ e.vehicle = req[r].vehicle
  BY <1>1, LoggingType DEF Stages
<1>4. log' \in LogRows
  BY <1>1, AddVehicleRow DEF RecordEvent
<1>5. Quiet(req'[r])
  BY <1>1, <1>2, <1>3, BecomeEffect DEF Quiet
<1>6. Entry(r)'
  BY <1>5 DEF Quiet, Entry, RequestOK, Knows, Holds, OnQuote, OnVehicle, Updating, Locking
<1> HIDE DEF e
<1> QED
  BY <1>1, <1>2, <1>3, <1>4, <1>6, ReadStep, TypeParts

LEMMA InvAcceptDealStatus ==
  ASSUME IInv, NEW r \in Requests, AcceptDealStatus(r)
  PROVE  IInv'
<1> DEFINE e == [req[r] EXCEPT !.stage = "casDeal"]
<1>1. /\ TypeOK /\ RequestOK(req[r]) /\ req[r].stage = "checkDeal"
      /\ ReadIsTrueOrOvertaken(deal[req[r].quote], req[r])
  BY DEF IInv, RequestsOK, StaleReadIsRefused, AcceptDealStatus, At
<1>2. Become(r, e) /\ UNCHANGED <<vehicle, deal, paid, log, failures>>
  BY DEF AcceptDealStatus, Advance
<1>3. /\ e \in RequestType /\ e.stage = "casDeal" /\ e.quote = req[r].quote
      /\ e.vehicle = req[r].vehicle /\ e.next = req[r].next /\ e.ver = req[r].ver
      /\ e.old = req[r].old
  BY <1>1 DEF TypeOK, RequestType, Stages
<1>4. Checked(e)
  BY <1>3 DEF Checked, AcceptDealStatus, ValidDealTransition, PaidInFull
<1> HIDE DEF e
<1>5. req'[r] = e
  BY <1>1, <1>2, <1>3, BecomeEffect
<1>6. Entry(r)'
  <2>1. RequestOK(req'[r])
    BY <1>1, <1>3, <1>4, <1>5 DEF RequestOK, OnQuote, OnVehicle, Updating, Locking
  <2>2. ReadIsTrueOrOvertaken(deal[e.quote], e)
    BY <1>1, <1>3 DEF ReadIsTrueOrOvertaken
  <2>3. RequestOK(req[r])'
    BY <1>2, <2>1 DEF RequestOK, Checked
  <2>4. Knows(r)' /\ Holds(r)'
    BY <1>2, <1>3, <1>5, <2>2 DEF Knows, Holds, Locking
  <2> QED
    BY <2>3, <2>4 DEF Entry
<1> QED
  BY <1>1, <1>2, <1>3, <1>6, ReadStep, TypeParts

LEMMA InvLockDeal ==
  ASSUME IInv, NEW r \in Requests, LockDeal(r)
  PROVE  IInv'
<1> DEFINE e == [req[r] EXCEPT !.stage = "syncRead"]
<1>1. /\ TypeOK /\ RequestOK(req[r]) /\ req[r].stage = "casDeal"
      /\ ReadIsTrueOrOvertaken(deal[req[r].quote], req[r])
      /\ deal[req[r].quote].version = req[r].ver
      /\ req[r].next \in SyncedDealStatuses
  BY DEF IInv, RequestsOK, StaleReadIsRefused, LockDeal, At, Matches
<1>2. Become(r, e) /\ UNCHANGED <<vehicle, deal, paid, log, failures>>
  BY DEF LockDeal, Advance
<1>3. /\ e \in RequestType /\ e.stage = "syncRead" /\ e.quote = req[r].quote
      /\ e.vehicle = req[r].vehicle /\ e.next = req[r].next /\ e.ver = req[r].ver
      /\ e.old = req[r].old
  BY <1>1 DEF TypeOK, RequestType, Stages
<1> HIDE DEF e
<1>4. req'[r] = e /\ \A s \in Requests \ {r} : req'[s] = req[s]
  BY <1>1, <1>2, <1>3, BecomeEffect
<1>5. Entry(r)'
  <2>1. RequestOK(req'[r])
    BY <1>1, <1>3, <1>4 DEF RequestOK, OnQuote, OnVehicle, Updating, Locking, Checked
  <2>2. RequestOK(req[r])'
    BY <1>2, <2>1 DEF RequestOK, Checked
  <2>3. Knows(r)'
    BY <1>1, <1>2, <1>3, <1>4 DEF Knows, ReadIsTrueOrOvertaken
  <2>4. \A s \in Requests \ {r} : req[s].stage \in Locking => req[s].quote # e.quote
    BY <1>3 DEF LockDeal, DealRowFree, Locking
  <2>5. Holds(r)'
    BY <1>1, <1>2, <1>3, <1>4, <2>4 DEF Holds, ReadIsTrueOrOvertaken
  <2> QED
    BY <2>2, <2>3, <2>5 DEF Entry
<1> QED
  BY <1>1, <1>2, <1>3, <1>5, ReadStep, TypeParts

\* A step that writes deal q, or pays it, or writes vehicle v, and leaves the
\* request only with its log to write.
LEMMA WriteStep ==
  ASSUME IInv, TypeOK', NEW r \in Requests, Quiet(req'[r]), Guarantee(r),
         NoDoubleSale', DeliveredIsPaid'
  PROVE  IInv'
<1>1. Entry(r)'
  BY DEF Quiet, Entry, RequestOK, Knows, Holds, OnQuote, OnVehicle, Updating, Locking
<1> QED
  BY <1>1, Rely

\* Committing a checked status keeps both promises about deals: the status
\* checked is the status replaced, so an inactive deal does not become active and
\* a delivery is backed by payments.
LEMMA CommitDeal ==
  ASSUME IInv, NEW q \in Quotes, NEW old, NEW s \in DealStatuses, WriteDeal(q, s),
         UNCHANGED paid, Exists(deal[q]), deal[q].status = old,
         \/ old = s
         \/ <<old, s>> \in DealTransitions /\ (s = "DELIVERED" => paid[q].total >= SalePrice[q])
  PROVE  NoDoubleSale' /\ DeliveredIsPaid' /\ Exists(deal'[q])
<1>1. /\ deal'[q].status = s
      /\ \A p \in Quotes \ {q} : deal'[p] = deal[p]
  BY WriteDealEffect DEF IInv
<1>2. Active(deal'[q]) => Active(deal[q])
  BY <1>1 DEF Active, Exists, DealTransitions, OpenDealStatuses, DealStatuses
<1>3. NoDoubleSale'
  BY <1>1, <1>2 DEF IInv, NoDoubleSale
<1>4. DeliveredIsPaid'
  BY <1>1 DEF IInv, DeliveredIsPaid
<1> QED
  BY <1>1, <1>3, <1>4 DEF Exists, DealStatuses

\* What a transaction finds when it is about to write the deal it checked.
LEMMA CheckedIsCurrent ==
  ASSUME IInv, NEW r \in Requests, req[r].stage \in Updating \ {"checkDeal"},
         deal[req[r].quote].version = req[r].ver
  PROVE  /\ req[r].quote \in Quotes /\ req[r].next \in DealStatuses
         /\ req[r].vehicle = QuoteVehicle[req[r].quote]
         /\ Exists(deal[req[r].quote])
         /\ deal[req[r].quote].status = req[r].old
         /\ Checked(req[r])
BY DEF IInv, RequestsOK, RequestOK, StaleReadIsRefused, ReadIsTrueOrOvertaken,
       OnQuote, Updating, Locking

LEMMA InvUpdateDeal ==
  ASSUME IInv, NEW r \in Requests, UpdateDeal(r)
  PROVE  IInv'
<1> DEFINE q == req[r].quote
           e == Logging("auditDeal", q, req[r].vehicle)
<1>1. TypeOK /\ req[r].stage = "casDeal" /\ deal[q].version = req[r].ver
  BY DEF IInv, UpdateDeal, At, Matches
<1>2. /\ q \in Quotes /\ req[r].next \in DealStatuses /\ req[r].vehicle = QuoteVehicle[q]
      /\ Exists(deal[q]) /\ deal[q].status = req[r].old /\ Checked(req[r])
  BY <1>1, CheckedIsCurrent DEF Updating
<1>3. WriteDeal(q, req[r].next) /\ Become(r, e) /\ UNCHANGED <<vehicle, paid, log, failures>>
  BY DEF UpdateDeal
<1>4. /\ e \in RequestType /\ e.stage = "auditDeal" /\ e.quote = q
      /\ e.vehicle = QuoteVehicle[q]
  BY <1>2, LoggingType, QuoteVehicleAssumption DEF Stages
<1> HIDE DEF e
<1>5. /\ deal' \in DealRows
      /\ deal'[q].version = deal[q].version + 1
      /\ \A p \in Quotes \ {q} : deal'[p] = deal[p]
  BY <1>1, <1>2, <1>3, WriteDealEffect
<1>6. NoDoubleSale' /\ DeliveredIsPaid' /\ Exists(deal'[q])
  BY <1>2, <1>3, CommitDeal DEF Checked
<1>7. /\ req' \in [Requests -> RequestType] /\ req'[r] = e
      /\ \A s \in Requests \ {r} : req'[s] = req[s]
  BY <1>1, <1>3, <1>4, BecomeEffect
<1>8. TypeOK'
  BY <1>1, <1>3, <1>5, <1>7 DEF TypeOK, DealRows
<1>9. \A s \in Requests \ {r} : req[s].stage \in Locking => req[s].quote # q
  BY DEF UpdateDeal, DealRowFree, Locking
<1>10. Guarantee(r)
  BY <1>1, <1>2, <1>3, <1>5, <1>6, <1>7, <1>9 DEF Guarantee, TypeOK
<1> QED
  BY <1>2, <1>4, <1>6, <1>7, <1>8, <1>10, WriteStep DEF Quiet

\* The commit of a transaction that holds the row of its deal, with or without a
\* write of the vehicle.
LEMMA LockedCommit ==
  ASSUME IInv, NEW r \in Requests, req[r].stage \in Locking,
         WriteDeal(req[r].quote, req[r].next),
         vehicle' \in VehicleRows,
         \A v \in Vehicles : vehicle'[v] = vehicle[v] \/ vehicle'[v].version > vehicle[v].version,
         Become(r, Logging("auditDeal", req[r].quote, req[r].vehicle)),
         log' \in LogRows, UNCHANGED <<paid, failures>>
  PROVE  IInv'
<1> DEFINE q == req[r].quote
           e == Logging("auditDeal", q, req[r].vehicle)
<1>1. /\ TypeOK /\ deal[q].version = req[r].ver
      /\ \A s \in Requests \ {r} : req[s].stage \in Locking => req[s].quote # q
  BY DEF IInv, LockedRowIsAsChecked, Locking
<1>2. /\ q \in Quotes /\ req[r].next \in DealStatuses /\ req[r].vehicle = QuoteVehicle[q]
      /\ Exists(deal[q]) /\ deal[q].status = req[r].old /\ Checked(req[r])
  BY <1>1, CheckedIsCurrent DEF Updating, Locking
<1>3. /\ e \in RequestType /\ e.stage = "auditDeal" /\ e.quote = q
      /\ e.vehicle = QuoteVehicle[q]
  BY <1>2, LoggingType, QuoteVehicleAssumption DEF Stages
<1>4. Become(r, e)
  OBVIOUS
<1> HIDE DEF e
<1>5. /\ deal' \in DealRows
      /\ deal'[q].version = deal[q].version + 1
      /\ \A p \in Quotes \ {q} : deal'[p] = deal[p]
  BY <1>1, <1>2, WriteDealEffect
<1>6. NoDoubleSale' /\ DeliveredIsPaid' /\ Exists(deal'[q])
  BY <1>2, CommitDeal DEF Checked
<1>7. /\ req' \in [Requests -> RequestType] /\ req'[r] = e
      /\ \A s \in Requests \ {r} : req'[s] = req[s]
  BY <1>1, <1>3, <1>4, BecomeEffect
<1>8. TypeOK'
  BY <1>1, <1>5, <1>7 DEF TypeOK, DealRows, VehicleRows, LogRows
<1>9. Guarantee(r)
  BY <1>1, <1>2, <1>5, <1>6, <1>7 DEF Guarantee, TypeOK
<1> QED
  BY <1>2, <1>3, <1>6, <1>7, <1>8, <1>9, WriteStep DEF Quiet

LEMMA InvSyncRead ==
  ASSUME IInv, NEW r \in Requests, SyncRead(r)
  PROVE  IInv'
<1> DEFINE row == vehicle[req[r].vehicle]
           target == VehicleStatusFor(req[r].next)
           skips == ~ListedVehicleMove(row.status, target)
           aborts == ~skips /\ MissesListPrice(row.status, target, row.hasPrice)
           e == Following(req[r], row.status)
<1>1. /\ TypeOK /\ RequestOK(req[r]) /\ req[r].stage = "syncRead"
      /\ ReadIsTrueOrOvertaken(deal[req[r].quote], req[r])
      /\ Holds(r)
  BY DEF IInv, RequestsOK, StaleReadIsRefused, LockedRowIsAsChecked, SyncRead, At, Holds,
         Locking
<1>2. UNCHANGED <<vehicle, paid, log, failures>>
  BY DEF SyncRead
<1>3. CASE skips
  <2>1. /\ Become(r, Logging("auditDeal", req[r].quote, req[r].vehicle))
        /\ WriteDeal(req[r].quote, req[r].next)
    BY <1>3 DEF SyncRead
  <2> QED
    BY <1>1, <1>2, <2>1, LockedCommit, TypeParts DEF Locking
<1>4. CASE ~skips /\ aborts
  <2>1. Become(r, Idle) /\ UNCHANGED deal
    BY <1>4 DEF SyncRead
  <2>2. Quiet(req'[r])
    BY <1>1, <2>1, IdleType, BecomeEffect DEF Quiet
  <2>3. Entry(r)'
    BY <2>2 DEF Quiet, Entry, RequestOK, Knows, Holds, OnQuote, OnVehicle, Updating, Locking
  <2> QED
    BY <1>1, <1>2, <2>1, <2>3, IdleType, ReadStep, TypeParts
<1>5. CASE ~skips /\ ~aborts
  <2>1. Become(r, e) /\ UNCHANGED deal
    BY <1>5 DEF SyncRead
  <2>2. /\ e \in RequestType /\ e.stage = "syncWrite" /\ e.quote = req[r].quote
        /\ e.vehicle = req[r].vehicle /\ e.next = req[r].next /\ e.ver = req[r].ver
        /\ e.old = req[r].old
    <3>1. row.status \in VehicleStatuses
      BY <1>1, QuoteVehicleAssumption DEF TypeOK, RequestOK, OnQuote, Updating, Locking
    <3>2. req[r] \in RequestType
      BY <1>1 DEF TypeOK
    <3> HIDE DEF row
    <3> QED
      BY <1>1, <3>1, <3>2 DEF RequestType, Stages, Following
  <2> HIDE DEF e
  <2>3. req'[r] = e /\ \A s \in Requests \ {r} : req'[s] = req[s]
    BY <1>1, <2>1, <2>2, BecomeEffect
  <2>4. RequestOK(req[r])'
    BY <1>1, <1>2, <2>1, <2>2, <2>3
       DEF RequestOK, OnQuote, OnVehicle, Updating, Locking, Checked
  <2>5. Knows(r)' /\ Holds(r)'
    BY <1>1, <1>2, <2>1, <2>2, <2>3
       DEF Knows, Holds, Locking, ReadIsTrueOrOvertaken
  <2> QED
    BY <1>1, <1>2, <2>1, <2>2, <2>4, <2>5, ReadStep, TypeParts DEF Entry
<1> QED
  BY <1>3, <1>4, <1>5

LEMMA InvSyncWrite ==
  ASSUME IInv, NEW r \in Requests, SyncWrite(r)
  PROVE  IInv'
<1>1. /\ TypeOK /\ req[r].stage = "syncWrite" /\ RequestOK(req[r])
      /\ req[r].vehicle \in Vehicles
  BY QuoteVehicleAssumption
     DEF IInv, SyncWrite, At, RequestsOK, RequestOK, OnQuote, Updating, Locking
<1>2. VehicleStatusFor(req[r].next) \in VehicleStatuses
  BY <1>1, VehicleStatusForType DEF RequestOK, Locking
<1>3. /\ vehicle' \in VehicleRows
      /\ \A v \in Vehicles : vehicle'[v] = vehicle[v] \/ vehicle'[v].version > vehicle[v].version
  BY <1>1, <1>2, WriteVehicleEffect DEF SyncWrite, TypeOK
<1>4. log' \in LogRows
  BY <1>1, AddVehicleRow DEF SyncWrite
<1> QED
  BY <1>1, <1>3, <1>4, LockedCommit DEF SyncWrite, Locking

LEMMA InvCreateDeal ==
  ASSUME IInv, NEW r \in Requests, CreateDeal(r)
  PROVE  IInv'
<1> DEFINE q == req[r].quote
           v == req[r].vehicle
           e == Logging("auditDeal", q, v)
<1>1. TypeOK /\ q \in Quotes /\ v = QuoteVehicle[q] /\ v \in Vehicles
  BY QuoteVehicleAssumption DEF IInv, RequestsOK, RequestOK, OnQuote, CreateDeal, At
<1>2. ~Exists(deal[q]) /\ VehicleIndexFree(v)
  BY DEF CreateDeal, CreateSucceeds
<1>3. /\ WriteDeal(q, "DRAFT") /\ WriteVehicleStatus(v, "IN_DEAL") /\ AddRow("event", v)
      /\ Become(r, e) /\ UNCHANGED <<paid, failures>>
  BY DEF CreateDeal
<1>4. /\ e \in RequestType /\ e.stage = "auditDeal" /\ e.quote = q /\ e.vehicle = v
  BY <1>1, LoggingType DEF Stages
<1> HIDE DEF e
<1>5. /\ deal' \in DealRows /\ deal'[q].status = "DRAFT"
      /\ deal'[q].version = deal[q].version + 1
      /\ \A p \in Quotes \ {q} : deal'[p] = deal[p]
  BY <1>1, <1>3, WriteDealEffect DEF DealStatuses
<1>6. /\ vehicle' \in VehicleRows
      /\ vehicle'[v].version = vehicle[v].version + 1
      /\ \A w \in Vehicles \ {v} : vehicle'[w] = vehicle[w]
  BY <1>1, <1>3, WriteVehicleEffect DEF VehicleStatuses
<1>7. /\ req' \in [Requests -> RequestType] /\ req'[r] = e
      /\ \A s \in Requests \ {r} : req'[s] = req[s]
  BY <1>1, <1>3, <1>4, BecomeEffect
<1>8. TypeOK'
  BY <1>1, <1>3, <1>5, <1>6, <1>7, AddVehicleRow DEF TypeOK, DealRows, VehicleRows, LogRows
<1>9. NoDoubleSale'
  BY <1>1, <1>2, <1>5 DEF IInv, NoDoubleSale, VehicleIndexFree, DealsOf
<1>10. DeliveredIsPaid'
  BY <1>3, <1>5 DEF IInv, DeliveredIsPaid
<1>11. \A s \in Requests \ {r} : req[s].stage \in Locking => req[s].quote # q
  BY <1>2 DEF IInv, RequestsOK, RequestOK, Updating
<1>12. Guarantee(r)
  BY <1>1, <1>3, <1>5, <1>6, <1>7, <1>11 DEF Guarantee, TypeOK, Exists
<1> QED
  BY <1>1, <1>4, <1>7, <1>8, <1>9, <1>10, <1>12, WriteStep DEF Quiet

LEMMA InvAddPayment ==
  ASSUME IInv, NEW r \in Requests, NEW q \in Quotes, NEW a \in Amounts, AddPayment(r, q, a)
  PROVE  IInv'
<1> DEFINE e == Logging("auditPayment", q, QuoteVehicle[q])
<1>1. TypeOK /\ QuoteVehicle[q] \in Vehicles /\ a \in Nat
  BY QuoteVehicleAssumption, AmountsAssumption DEF IInv
<1>2. Become(r, e) /\ UNCHANGED <<vehicle, deal, log, failures>>
  BY DEF AddPayment
<1>3. /\ e \in RequestType /\ e.stage = "auditPayment" /\ e.quote = q
      /\ e.vehicle = QuoteVehicle[q]
  BY <1>1, LoggingType DEF Stages
<1> HIDE DEF e
<1>4. /\ paid' \in PaidRows
      /\ \A p \in Quotes : paid'[p].total >= paid[p].total
  BY <1>1, TypeParts DEF AddPayment, PaidRows
<1>5. /\ req' \in [Requests -> RequestType] /\ req'[r] = e
      /\ \A s \in Requests \ {r} : req'[s] = req[s]
  BY <1>1, <1>2, <1>3, BecomeEffect
<1>6. TypeOK'
  BY <1>1, <1>2, <1>4, <1>5 DEF TypeOK, PaidRows
<1>7. NoDoubleSale'
  BY <1>2 DEF IInv, NoDoubleSale, Active
<1>8. DeliveredIsPaid'
  <2>1. \A p \in Quotes : /\ paid[p].total \in Nat /\ paid'[p].total \in Nat
                          /\ SalePrice[p] \in Nat
    BY <1>1, <1>6, SalePriceAssumption DEF TypeOK
  <2> QED
    BY <1>2, <1>4, <2>1 DEF IInv, DeliveredIsPaid
<1>9. Guarantee(r)
  BY <1>2, <1>4, <1>5 DEF Guarantee
<1> QED
  BY <1>3, <1>5, <1>6, <1>7, <1>8, <1>9, WriteStep DEF Quiet

LEMMA InvUpdateVehicle ==
  ASSUME IInv, NEW r \in Requests, UpdateVehicle(r) \/ UpdatePrice(r)
  PROVE  IInv'
<1> DEFINE v == req[r].vehicle
           e == Logging("eventVehicle", NoQuote, v)
<1>1. TypeOK /\ v \in Vehicles
  BY DEF IInv, RequestsOK, RequestOK, OnVehicle, UpdateVehicle, UpdatePrice, At
<1>2. Become(r, e) /\ UNCHANGED <<deal, paid, log, failures>>
  BY DEF UpdateVehicle, UpdatePrice
<1>3. e \in RequestType /\ e.stage = "eventVehicle" /\ e.vehicle = v
  BY <1>1, LoggingType DEF Stages
<1> HIDE DEF e
<1>4. /\ vehicle' \in VehicleRows
      /\ \A w \in Vehicles : vehicle'[w] = vehicle[w] \/ vehicle'[w].version > vehicle[w].version
  <2>1. CASE UpdateVehicle(r)
    <3>1. req[r].next \in VehicleStatuses
      BY <2>1 DEF IInv, RequestsOK, RequestOK, UpdateVehicle, At
    <3>2. WriteVehicleStatus(v, req[r].next)
      BY <2>1 DEF UpdateVehicle
    <3> QED
      BY <1>1, <3>1, <3>2, WriteVehicleEffect DEF TypeOK
  <2>2. CASE UpdatePrice(r)
    BY <1>1, <2>2, TypeParts DEF UpdatePrice, VehicleRows
  <2> QED
    BY <2>1, <2>2
<1>5. /\ req' \in [Requests -> RequestType] /\ req'[r] = e
      /\ \A s \in Requests \ {r} : req'[s] = req[s]
  BY <1>1, <1>2, <1>3, BecomeEffect
<1>6. TypeOK'
  BY <1>1, <1>2, <1>4, <1>5 DEF TypeOK, VehicleRows
<1>7. NoDoubleSale' /\ DeliveredIsPaid'
  BY <1>2 DEF IInv, NoDoubleSale, DeliveredIsPaid, Active
<1>8. Guarantee(r)
  BY <1>1, <1>2, <1>4, <1>5 DEF Guarantee, TypeOK
<1> QED
  BY <1>1, <1>3, <1>5, <1>6, <1>7, <1>8, WriteStep DEF Quiet

-----------------------------------------------------------------------------
(* The invariant, and what it gives *)

LEMMA NextInv == IInv /\ [Next]_vars => IInv'
<1> SUFFICES ASSUME IInv, [Next]_vars PROVE IInv'
  OBVIOUS
<1>1. CASE UNCHANGED vars
  BY <1>1 DEF vars, IInv, TypeOK, RequestsOK, RequestOK, Checked, Exists, StaleReadIsRefused,
     LockedRowIsAsChecked, NoDoubleSale, DeliveredIsPaid, Active, ReadIsTrueOrOvertaken
<1>2. ASSUME NEW r \in Requests, Start(r) PROVE IInv'
  BY <1>2, InvReadForCreate, InvReadDeal, InvAddPayment, InvReadVehicle,
     InvReadVehicleForPrice DEF Start
<1>3. ASSUME NEW r \in Requests, Step(r) PROVE IInv'
  BY <1>3, InvCreateDeal, InvEnd, InvAudit, InvAcceptDealStatus, InvUpdateDeal, InvLockDeal,
     InvSyncRead, InvSyncWrite, InvUpdateVehicle, InvRecordEvent DEF Step
<1>4. ASSUME NEW r \in Requests, Fail(r) PROVE IInv'
  BY <1>4, InvEnd
<1> QED
  BY <1>1, <1>2, <1>3, <1>4 DEF Next

THEOREM Invariance == Spec => []IInv
BY InitInv, NextInv, PTL DEF Spec

\* Every variable keeps the shape of its table.
THEOREM TypeCorrect == Spec => []TypeOK
<1>1. IInv => TypeOK
  BY DEF IInv
<1> QED
  BY <1>1, Invariance, PTL

\* Two active deals are never for the same vehicle.
THEOREM DoubleSaleExcluded == Spec => []NoDoubleSale
<1>1. IInv => NoDoubleSale
  BY DEF IInv
<1> QED
  BY <1>1, Invariance, PTL

\* A delivered deal has been paid in full.
THEOREM DeliveryIsPaid == Spec => []DeliveredIsPaid
<1>1. IInv => DeliveredIsPaid
  BY DEF IInv
<1> QED
  BY <1>1, Invariance, PTL

\* What a request has read is true of the row, or its write will be refused.
THEOREM OptimisticLockingIsSafe == Spec => []StaleReadIsRefused
<1>1. IInv => StaleReadIsRefused
  BY DEF IInv
<1> QED
  BY <1>1, Invariance, PTL

\* A transaction that holds a deal row commits exactly the move it checked.
THEOREM LockedRowIsStable == Spec => []LockedRowIsAsChecked
<1>1. IInv => LockedRowIsAsChecked
  BY DEF IInv
<1> QED
  BY <1>1, Invariance, PTL

-----------------------------------------------------------------------------
(* The history tells the truth *)

\* A step of r leaves every other request as it is.
LEMMA OthersWait ==
  ASSUME TypeOK, NEW r \in Requests, Start(r) \/ Step(r) \/ Fail(r),
         NEW s \in Requests \ {r}
  PROVE  req'[s] = req[s]
<1>1. ASSUME NEW e, Become(r, e) PROVE req'[s] = req[s]
  BY <1>1 DEF Become, TypeOK
<1>2. CASE Start(r)
  BY <1>1, <1>2 DEF Start, ReadForCreate, ReadDeal, AddPayment, ReadVehicle,
     ReadVehicleForPrice
<1>3. CASE Step(r)
  BY <1>1, <1>3 DEF Step, CreateDeal, CreateConflict, AuditDeal, AcceptDealStatus,
     RejectDealStatus, UpdateDeal, LockDeal, DealConflict, SyncRead, SyncWrite, AuditPayment,
     UpdateVehicle, UpdatePrice, VehicleConflict, RecordEvent, AuditVehicle, Advance
<1>4. CASE Fail(r)
  BY <1>1, <1>4 DEF Fail
<1> QED
  BY <1>2, <1>3, <1>4

\* A request leaves casDeal or createTx for its audit, or casVehicle for its event,
\* only by an update whose version matched.
LEMMA WroteOnMatch ==
  ASSUME TypeOK, NEW r \in Requests, Start(r) \/ Step(r) \/ Fail(r)
  PROVE  /\ At(r, "casDeal") /\ req'[r].stage = "auditDeal"
              => deal[req[r].quote].version = req[r].ver
         /\ WritesVehicle(r) => vehicle[req[r].vehicle].version = req[r].ver
<1>0. req[r] \in RequestType
  BY DEF TypeOK
<1>1. ASSUME NEW e, Become(r, e) PROVE req'[r] = e
  BY <1>1 DEF Become, TypeOK
<1>2. CASE At(r, "casDeal") /\ req'[r].stage = "auditDeal"
  <2>1. ~LockDeal(r)
    <3> SUFFICES ASSUME LockDeal(r) PROVE FALSE
      OBVIOUS
    <3>1. Become(r, [req[r] EXCEPT !.stage = "syncRead"])
      BY DEF LockDeal, Advance
    <3>2. req'[r].stage = "syncRead"
      BY <1>0, <1>1, <3>1 DEF RequestType
    <3> QED
      BY <1>2, <3>2
  <2>2. ~(DealConflict(r) \/ Fail(r))
    BY <1>1, <1>2, IdleType DEF DealConflict, Fail, AfterConflict
  <2>3. UpdateDeal(r)
    BY <1>2, <2>1, <2>2 DEF At, Start, ReadForCreate, ReadDeal, AddPayment, ReadVehicle,
       ReadVehicleForPrice, Step, CreateDeal, CreateConflict, AuditDeal, AcceptDealStatus,
       RejectDealStatus, SyncRead, SyncWrite, AuditPayment, UpdateVehicle, UpdatePrice,
       VehicleConflict, RecordEvent, AuditVehicle
  <2> QED
    BY <1>2, <2>3 DEF UpdateDeal, WritesVehicle, Matches, At
<1>3. CASE At(r, "casVehicle") /\ req'[r].stage = "eventVehicle"
  <2>1. ~(VehicleConflict(r) \/ Fail(r))
    BY <1>1, <1>3, IdleType DEF VehicleConflict, Fail, AfterConflict
  <2>2. UpdateVehicle(r)
    BY <1>3, <2>1 DEF At, Start, ReadForCreate, ReadDeal, AddPayment, ReadVehicle,
       ReadVehicleForPrice, Step, CreateDeal, CreateConflict, AuditDeal, AcceptDealStatus,
       RejectDealStatus, UpdateDeal, LockDeal, DealConflict, SyncRead, SyncWrite,
       AuditPayment, UpdatePrice, RecordEvent, AuditVehicle
  <2> QED
    BY <1>3, <2>2 DEF UpdateVehicle, WritesVehicle, Matches, At
<1>4. CASE At(r, "createTx") /\ req'[r].stage = "auditDeal"
  <2>1. ~(CreateConflict(r) \/ Fail(r))
    BY <1>1, <1>4, IdleType DEF CreateConflict, Fail, AfterConflict
  <2>2. CreateDeal(r)
    BY <1>4, <2>1 DEF At, Start, ReadForCreate, ReadDeal, AddPayment, ReadVehicle,
       ReadVehicleForPrice, Step, AuditDeal, AcceptDealStatus, RejectDealStatus, UpdateDeal,
       LockDeal, DealConflict, SyncRead, SyncWrite, AuditPayment, UpdateVehicle, UpdatePrice,
       VehicleConflict, RecordEvent, AuditVehicle
  <2> QED
    BY <1>4, <2>2 DEF CreateDeal, CreateSucceeds, WritesVehicle, Matches, At
<1> QED
  BY <1>2, <1>3, <1>4 DEF WritesVehicle

\* Every row that is written against a version is logged with the status that
\* the write replaced, although it was read several awaits earlier.
THEOREM HistoryIsTrue == Spec => VersionedBeforeIsTrue
<1> DEFINE A == \A r \in Requests :
                  /\ WritesDeal(r) => deal[req[r].quote].status = req[r].old
                  /\ WritesVehicle(r) => vehicle[req[r].vehicle].status = req[r].old
<1>1. ASSUME IInv, [Next]_vars PROVE A
  <2> SUFFICES ASSUME NEW r \in Requests
               PROVE  /\ WritesDeal(r) => deal[req[r].quote].status = req[r].old
                      /\ WritesVehicle(r) => vehicle[req[r].vehicle].status = req[r].old
    OBVIOUS
  <2>1. TypeOK
    BY <1>1 DEF IInv
  <2>2. CASE req'[r] = req[r]
    BY <2>2 DEF WritesDeal, WritesVehicle, At
  <2>3. CASE Start(r) \/ Step(r) \/ Fail(r)
    <3>1. ASSUME WritesDeal(r) PROVE deal[req[r].quote].status = req[r].old
      <4>1. CASE req[r].stage = "casDeal"
        BY <1>1, <2>1, <2>3, <3>1, <4>1, WroteOnMatch
           DEF IInv, StaleReadIsRefused, ReadIsTrueOrOvertaken, WritesDeal, At
      <4>2. CASE req[r].stage \in {"syncRead", "syncWrite"}
        BY <1>1, <4>2 DEF IInv, LockedRowIsAsChecked
      <4> QED
        BY <3>1, <4>1, <4>2 DEF WritesDeal
    <3>2. ASSUME WritesVehicle(r) PROVE vehicle[req[r].vehicle].status = req[r].old
      BY <1>1, <2>1, <2>3, <3>2, WroteOnMatch
         DEF IInv, StaleReadIsRefused, ReadIsTrueOrOvertaken, WritesVehicle, At
    <3> QED
      BY <3>1, <3>2
  <2> QED
    BY <1>1, <2>1, <2>2, <2>3, OthersWait DEF Next, vars
<1>2. IInv /\ [Next]_vars => [A]_vars
  BY <1>1
<1> QED
  BY <1>2, Invariance, PTL DEF Spec, VersionedBeforeIsTrue

-----------------------------------------------------------------------------
(* Every step is a step of the ledger *)

Opens(q) ==
  /\ ~Exists(deal[q]) /\ VehicleIndexFree(QuoteVehicle[q])
  /\ WriteDeal(q, "DRAFT") /\ UNCHANGED paid
Commits(q, s) ==
  /\ Exists(deal[q])
  /\ \/ deal[q].status = s
     \/ /\ <<deal[q].status, s>> \in DealTransitions
        /\ s = "DELIVERED" => paid[q].total >= SalePrice[q]
  /\ WriteDeal(q, s) /\ UNCHANGED paid
Pays(q, a) ==
  /\ Exists(deal[q])
  /\ paid' = [paid EXCEPT ![q] = [rows |-> @.rows + 1, total |-> @.total + a]]
  /\ UNCHANGED deal

\* Each step opens one deal, commits one checked status, records one payment, or
\* leaves deals and payments alone.
LEMMA DealStep ==
  ASSUME IInv, [Next]_vars
  PROVE  \/ \E q \in Quotes : Opens(q)
         \/ \E q \in Quotes, s \in DealStatuses : Commits(q, s)
         \/ \E q \in Quotes, a \in Amounts : Pays(q, a)
         \/ UNCHANGED <<deal, paid>>
<1>1. CASE UNCHANGED vars
  BY <1>1 DEF vars
<1>2. ASSUME NEW r \in Requests, CreateDeal(r)
      PROVE  \E q \in Quotes : Opens(q)
  BY <1>2 DEF CreateDeal, CreateSucceeds, At, IInv, RequestsOK, RequestOK, OnQuote, Opens
<1>3. ASSUME NEW r \in Requests, UpdateDeal(r)
      PROVE  \E q \in Quotes, s \in DealStatuses : Commits(q, s)
  <2>1. req[r].stage = "casDeal" /\ deal[req[r].quote].version = req[r].ver
    BY <1>3 DEF UpdateDeal, At, Matches
  <2> QED
    BY <1>3, <2>1, CheckedIsCurrent DEF UpdateDeal, Updating, Commits, Checked
<1>4. ASSUME NEW r \in Requests, SyncRead(r) \/ SyncWrite(r), ~UNCHANGED <<deal, paid>>
      PROVE  \E q \in Quotes, s \in DealStatuses : Commits(q, s)
  <2>1. req[r].stage \in Locking /\ deal[req[r].quote].version = req[r].ver
    BY <1>4 DEF SyncRead, SyncWrite, At, IInv, LockedRowIsAsChecked, Locking
  <2>2. WriteDeal(req[r].quote, req[r].next) /\ UNCHANGED paid
    BY <1>4 DEF SyncRead, SyncWrite
  <2> QED
    BY <2>1, <2>2, CheckedIsCurrent DEF Updating, Locking, Commits, Checked
<1>5. ASSUME NEW r \in Requests, NEW q \in Quotes, NEW a \in Amounts, AddPayment(r, q, a)
      PROVE  Pays(q, a)
  BY <1>5 DEF AddPayment, Pays
<1>6. ASSUME NEW r \in Requests, Start(r)
      PROVE  (\E q \in Quotes, a \in Amounts : Pays(q, a)) \/ UNCHANGED <<deal, paid>>
  BY <1>5, <1>6 DEF Start, ReadForCreate, ReadDeal, ReadVehicle, ReadVehicleForPrice
<1>7. ASSUME NEW r \in Requests, Step(r)
      PROVE  \/ CreateDeal(r) \/ UpdateDeal(r) \/ SyncRead(r) \/ SyncWrite(r)
             \/ UNCHANGED <<deal, paid>>
  BY <1>7 DEF Step, CreateConflict, AuditDeal, AcceptDealStatus, RejectDealStatus, LockDeal,
     DealConflict, AuditPayment, UpdateVehicle, UpdatePrice, VehicleConflict, RecordEvent,
     AuditVehicle
<1>8. ASSUME NEW r \in Requests, Fail(r)
      PROVE  UNCHANGED <<deal, paid>>
  BY <1>8 DEF Fail
<1> QED
  BY <1>1, <1>2, <1>3, <1>4, <1>6, <1>7, <1>8 DEF Next

\* A deal moves only along the listed transitions and starts as a draft.
THEOREM DealsFollowGraph == Spec => DealMovesListed
<1> DEFINE A == \A q \in Quotes :
                  deal'[q].status # deal[q].status =>
                    IF Exists(deal[q])
                      THEN <<deal[q].status, deal'[q].status>> \in DealTransitions
                      ELSE deal'[q].status = "DRAFT"
<1>1. ASSUME IInv, [Next]_vars PROVE A
  <2>1. ASSUME NEW p \in Quotes, Opens(p) PROVE A
    BY <1>1, <2>1, WriteDealEffect DEF Opens, IInv, DealStatuses
  <2>2. ASSUME NEW p \in Quotes, NEW s \in DealStatuses, Commits(p, s) PROVE A
    BY <1>1, <2>2, WriteDealEffect DEF Commits, IInv
  <2>3. CASE UNCHANGED deal
    BY <2>3
  <2> QED
    BY <1>1, <2>1, <2>2, <2>3, DealStep DEF Pays
<1>2. IInv /\ [Next]_vars => [A]_vars
  BY <1>1
<1> QED
  BY <1>2, Invariance, PTL DEF Spec, DealMovesListed

\* The committed rows of deals and payments behave as the ledger does.
THEOREM Refinement == Spec => ImplementsLedger
<1>1. Init => Ledger!Init
  BY DEF Init, Ledger!Init, DealStatusOf, PaidFor
<1>0. DealStatuses = Ledger!DealStatuses /\ DealTransitions = Ledger!DealTransitions
  BY DEF DealStatuses, Ledger!DealStatuses, DealTransitions, Ledger!DealTransitions,
         OpenDealStatuses, Ledger!OpenDealStatuses
<1>2. ASSUME IInv, [Next]_vars PROVE [Ledger!Next]_Ledger!ledger
  <2>1. ASSUME NEW q \in Quotes, Opens(q) PROVE Ledger!Open(q)
    <3>1. ~Ledger!Promised(QuoteVehicle[q])
      BY <2>1 DEF Opens, VehicleIndexFree, DealsOf, Active, Ledger!Promised, DealStatusOf
    <3>2. DealStatusOf' = [DealStatusOf EXCEPT ![q] = "DRAFT"]
      BY <1>2, <2>1, WriteDealEffect DEF Opens, IInv, DealStatuses, DealStatusOf
    <3> QED
      BY <2>1, <3>1, <3>2 DEF Opens, Exists, Ledger!Open, DealStatusOf, PaidFor
  <2>2. ASSUME NEW q \in Quotes, NEW s \in DealStatuses, Commits(q, s)
        PROVE  Ledger!Move(q, s) \/ UNCHANGED Ledger!ledger
    <3>1. DealStatusOf' = [DealStatusOf EXCEPT ![q] = s] /\ PaidFor' = PaidFor
      BY <1>2, <2>2, WriteDealEffect DEF Commits, IInv, DealStatusOf, PaidFor
    <3>2. CASE deal[q].status = s
      BY <3>1, <3>2 DEF DealStatusOf, Ledger!ledger
    <3>3. CASE deal[q].status # s
      BY <1>0, <2>2, <3>1, <3>3 DEF Commits, Ledger!Move, DealStatusOf, PaidFor
    <3> QED
      BY <3>2, <3>3
  <2>3. ASSUME NEW q \in Quotes, NEW a \in Amounts, Pays(q, a)
        PROVE  Ledger!Receive(q, a)
    <3>1. PaidFor' = [PaidFor EXCEPT ![q] = @ + a] /\ DealStatusOf' = DealStatusOf
      BY <1>2, <2>3, TypeParts DEF Pays, IInv, PaidRows, PaidFor, DealStatusOf
    <3> QED
      BY <2>3, <3>1 DEF Pays, Exists, Ledger!Receive, DealStatusOf
  <2>4. CASE UNCHANGED <<deal, paid>>
    BY <2>4 DEF Ledger!ledger, DealStatusOf, PaidFor
  <2> QED
    BY <1>0, <1>2, <2>1, <2>2, <2>3, <2>4, DealStep DEF Ledger!Next
<1>3. IInv /\ [Next]_vars => [Ledger!Next]_Ledger!ledger
  BY <1>2
<1> QED
  BY <1>1, <1>3, Invariance, PTL DEF Spec, ImplementsLedger, Ledger!Spec

=============================================================================
