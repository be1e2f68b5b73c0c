------------------------ MODULE VehicleStock_proofs ------------------------
(***************************************************************************)
(* A vehicle in stock has a list price: the invariant of VehicleSales      *)
(* strengthened with what requests in flight know about prices.            *)
(***************************************************************************)
EXTENDS VehicleSales_proofs

Stock == {"AVAILABLE", "RESERVED", "IN_DEAL", "SOLD", "DELIVERED"}

\* A request that is about to move a vehicle into or within the stock has seen
\* its list price, and a list price is never taken away.
Priced(e) ==
  \/ e.stage \in {"createTx", "syncWrite"}
  \/ e.stage = "casVehicle" /\ e.next \in Stock
MoversArePriced == \A r \in Requests : Priced(req[r]) => vehicle[req[r].vehicle].hasPrice

PInv == IInv /\ StockIsPriced /\ MoversArePriced

LEMMA ListedIntoStock ==
  ASSUME NEW from \in VehicleStatuses, NEW to \in Stock, NEW hasPrice \in BOOLEAN,
         ListedVehicleMove(from, to), ~MissesListPrice(from, to, hasPrice),
         from \in Stock => hasPrice
  PROVE  hasPrice
BY DEF Stock, VehicleStatuses, ListedVehicleMove, MissesListPrice, VehicleTransitions

\* Whatever r does, vehicles keep their prices and the other requests wait.
LEMMA PricedStep ==
  ASSUME PInv, NEW r \in Requests,
         \A v \in Vehicles : vehicle[v].hasPrice => vehicle'[v].hasPrice,
         \A s \in Requests \ {r} : req'[s] = req[s],
         Priced(req'[r]) => vehicle'[req'[r].vehicle].hasPrice
  PROVE  MoversArePriced'
<1>1. \A s \in Requests : Priced(req[s]) => req[s].vehicle \in Vehicles
  BY QuoteVehicleAssumption
     DEF PInv, IInv, RequestsOK, RequestOK, Priced, OnQuote, OnVehicle, Updating, Locking
<1> QED
  BY <1>1 DEF PInv, MoversArePriced

LEMMA InitPriced == Init => PInv
<1> SUFFICES ASSUME Init PROVE PInv
  OBVIOUS
<1>1. IInv
  BY InitInv
<1>2. StockIsPriced
  BY FleetAssumption DEF Init, StockIsPriced, InitialVehicle
<1>3. MoversArePriced
  BY IdleType DEF Init, MoversArePriced, Priced
<1> QED
  BY <1>1, <1>2, <1>3 DEF PInv

LEMMA PricedStart ==
  ASSUME PInv, NEW r \in Requests, Start(r)
  PROVE  StockIsPriced' /\ MoversArePriced'
<1>1. TypeOK /\ UNCHANGED vehicle
  BY DEF PInv, IInv, Start, ReadForCreate, ReadDeal, AddPayment, ReadVehicle,
         ReadVehicleForPrice
<1>2. StockIsPriced'
  BY <1>1 DEF PInv, StockIsPriced
<1>3. ASSUME NEW e, Become(r, e), Priced(e) => vehicle[e.vehicle].hasPrice
      PROVE  MoversArePriced'
  <2>1. req'[r] = e /\ \A s \in Requests \ {r} : req'[s] = req[s]
    BY <1>1, <1>3 DEF Become, TypeOK
  <2> QED
    BY <1>1, <1>3, <2>1, PricedStep
<1>4. ASSUME NEW q \in Quotes, ReadForCreate(r, q) PROVE MoversArePriced'
  <2>1. vehicle[QuoteVehicle[q]].hasPrice
    BY <1>4, QuoteVehicleAssumption
       DEF ReadForCreate, EligibleForDeal, PInv, StockIsPriced
  <2> QED
    BY <1>3, <1>4, <2>1 DEF ReadForCreate
<1>5. ASSUME NEW q \in Quotes, NEW s \in DealStatuses, NEW ver, ReadDeal(r, q, s, ver)
      PROVE  MoversArePriced'
  BY <1>3, <1>5 DEF ReadDeal, Priced
<1>6. ASSUME NEW q \in Quotes, NEW a \in Amounts, AddPayment(r, q, a)
      PROVE  MoversArePriced'
  BY <1>3, <1>6 DEF AddPayment, Logging, Idle, Priced
<1>7. ASSUME NEW v \in Vehicles, NEW s \in VehicleTargets, NEW ver, ReadVehicle(r, v, s, ver)
      PROVE  MoversArePriced'
  <2>1. s \in Stock => vehicle[v].hasPrice
    <3>1. vehicle[v].status \in VehicleStatuses /\ vehicle[v].hasPrice \in BOOLEAN
      BY <1>1 DEF TypeOK
    <3>2. vehicle[v].status \in Stock => vehicle[v].hasPrice
      BY DEF PInv, StockIsPriced, Stock
    <3>3. /\ ListedVehicleMove(vehicle[v].status, s)
          /\ ~MissesListPrice(vehicle[v].status, s, vehicle[v].hasPrice)
      BY <1>7 DEF ReadVehicle, ValidVehicleTransition
    <3> QED
      BY <3>1, <3>2, <3>3, ListedIntoStock
  <2> QED
    BY <1>3, <1>7, <2>1 DEF ReadVehicle, Priced
<1>8. ASSUME NEW v \in Vehicles, NEW ver, ReadVehicleForPrice(r, v, ver)
      PROVE  MoversArePriced'
  BY <1>3, <1>8 DEF ReadVehicleForPrice, Priced
<1> QED
  BY <1>2, <1>4, <1>5, <1>6, <1>7, <1>8 DEF Start

\* A status written over a priced vehicle, or outside the stock, keeps the stock
\* priced.
LEMMA PricedWrite ==
  ASSUME TypeOK, StockIsPriced, NEW v \in Vehicles, NEW s \in VehicleStatuses,
         WriteVehicleStatus(v, s), s \in Stock => vehicle[v].hasPrice
  PROVE  /\ StockIsPriced'
         /\ \A w \in Vehicles : vehicle[w].hasPrice => vehicle'[w].hasPrice
<1>1. /\ vehicle'[v].status = s /\ vehicle'[v].hasPrice = vehicle[v].hasPrice
      /\ \A w \in Vehicles \ {v} : vehicle'[w] = vehicle[w]
  BY TypeParts DEF WriteVehicleStatus, VehicleRows
<1> QED
  BY <1>1 DEF StockIsPriced, Stock

\* The entries a request leaves behind when its writes are made or refused.
LEMMA NotPriced ==
  ASSUME NEW stage \in Stages \ {"createTx", "syncWrite", "casVehicle"},
         NEW q, NEW v
  PROVE  ~Priced(Logging(stage, q, v)) /\ ~Priced(Idle)
BY DEF Priced, Logging, Idle

LEMMA PricedVehicleWrite ==
  ASSUME PInv, NEW r \in Requests,
         CreateDeal(r) \/ SyncWrite(r) \/ UpdateVehicle(r) \/ UpdatePrice(r)
  PROVE  StockIsPriced' /\ MoversArePriced'
<1>1. /\ TypeOK /\ StockIsPriced /\ RequestOK(req[r]) /\ req[r].vehicle \in Vehicles
      /\ Priced(req[r]) => vehicle[req[r].vehicle].hasPrice
  BY QuoteVehicleAssumption
     DEF PInv, IInv, RequestsOK, MoversArePriced, RequestOK, OnQuote, OnVehicle, Updating,
         Locking, CreateDeal, SyncWrite, UpdateVehicle, UpdatePrice, At
<1>2. /\ StockIsPriced'
      /\ \A w \in Vehicles : vehicle[w].hasPrice => vehicle'[w].hasPrice
  <2>1. CASE CreateDeal(r)
    <3>1. WriteVehicleStatus(req[r].vehicle, "IN_DEAL") /\ vehicle[req[r].vehicle].hasPrice
      BY <1>1, <2>1 DEF CreateDeal, At, Priced
    <3> QED
      BY <1>1, <3>1, PricedWrite DEF VehicleStatuses
  <2>2. CASE SyncWrite(r)
    <3>1. /\ WriteVehicleStatus(req[r].vehicle, VehicleStatusFor(req[r].next))
          /\ vehicle[req[r].vehicle].hasPrice /\ req[r].next \in SyncedDealStatuses
      BY <1>1, <2>2 DEF SyncWrite, At, Priced, RequestOK, Locking
    <3> QED
      BY <1>1, <3>1, VehicleStatusForType, PricedWrite
  <2>3. CASE UpdateVehicle(r)
    <3>1. /\ WriteVehicleStatus(req[r].vehicle, req[r].next) /\ req[r].next \in VehicleStatuses
          /\ req[r].next \in Stock => vehicle[req[r].vehicle].hasPrice
      BY <1>1, <2>3 DEF UpdateVehicle, At, Priced, RequestOK
    <3> QED
      BY <1>1, <3>1, PricedWrite
  <2>4. CASE UpdatePrice(r)
    <3>1. \A w \in Vehicles : /\ vehicle'[w].status = vehicle[w].status
                              /\ vehicle[w].hasPrice => vehicle'[w].hasPrice
      BY <1>1, <2>4, TypeParts DEF UpdatePrice, VehicleRows
    <3> QED
      BY <1>1, <3>1 DEF StockIsPriced
  <2> QED
    BY <2>1, <2>2, <2>3, <2>4, <1>1
<1>3. ASSUME NEW e, Become(r, e), ~Priced(e) PROVE MoversArePriced'
  <2>1. req'[r] = e /\ \A s \in Requests \ {r} : req'[s] = req[s]
    BY <1>1, <1>3 DEF Become, TypeOK
  <2> QED
    BY <1>2, <1>3, <2>1, PricedStep
<1>4. Become(r, Logging("auditDeal", req[r].quote, req[r].vehicle))
        \/ Become(r, Logging("eventVehicle", NoQuote, req[r].vehicle))
  BY DEF CreateDeal, SyncWrite, UpdateVehicle, UpdatePrice
<1> QED
  BY <1>2, <1>3, <1>4, NotPriced DEF Stages

LEMMA PricedOther ==
  ASSUME PInv, NEW r \in Requests, Step(r) \/ Fail(r),
         ~(CreateDeal(r) \/ SyncWrite(r) \/ UpdateVehicle(r) \/ UpdatePrice(r))
  PROVE  StockIsPriced' /\ MoversArePriced'
<1>1. TypeOK /\ StockIsPriced /\ RequestOK(req[r])
  BY DEF PInv, IInv, RequestsOK
<1>2. UNCHANGED vehicle
  BY DEF Step, Fail, CreateConflict, AuditDeal, AcceptDealStatus, RejectDealStatus, UpdateDeal,
     LockDeal, DealConflict, SyncRead, AuditPayment, VehicleConflict, RecordEvent, AuditVehicle
<1>3. StockIsPriced'
  BY <1>1, <1>2 DEF StockIsPriced
<1>4. ASSUME NEW e, Become(r, e), Priced(e) => vehicle[e.vehicle].hasPrice
      PROVE  MoversArePriced'
  <2>1. req'[r] = e /\ \A s \in Requests \ {r} : req'[s] = req[s]
    BY <1>1, <1>4 DEF Become, TypeOK
  <2> QED
    BY <1>2, <1>4, <2>1, PricedStep
<1>5. CASE SyncRead(r)
  <2> DEFINE row == vehicle[req[r].vehicle]
             target == VehicleStatusFor(req[r].next)
             skips == ~ListedVehicleMove(row.status, target)
             aborts == ~skips /\ MissesListPrice(row.status, target, row.hasPrice)
             e == Following(req[r], row.status)
  <2>1. CASE skips
    BY <1>3, <1>4, <1>5, <2>1, NotPriced DEF SyncRead, Stages
  <2>2. CASE ~skips /\ aborts
    BY <1>3, <1>4, <1>5, <2>2, NotPriced DEF SyncRead, Stages
  <2>3. CASE ~skips /\ ~aborts
    <3>1. /\ req[r].next \in SyncedDealStatuses /\ req[r].vehicle \in Vehicles
          /\ req[r] \in RequestType
      BY <1>1, <1>5, QuoteVehicleAssumption
         DEF SyncRead, At, RequestOK, OnQuote, Updating, Locking, TypeOK
    <3>2. target \in Stock
      BY <3>1 DEF VehicleStatusFor, SyncedDealStatuses, Stock
    <3>3. /\ row.status \in VehicleStatuses /\ row.hasPrice \in BOOLEAN
          /\ row.status \in Stock => row.hasPrice
      BY <1>1, <3>1 DEF TypeOK, StockIsPriced, Stock
    <3> HIDE DEF target
    <3>4. row.hasPrice
      BY <2>3, <3>2, <3>3, ListedIntoStock
    <3>5. e.vehicle = req[r].vehicle
      BY <3>1 DEF RequestType, Following
    <3>6. Become(r, e)
      BY <1>5, <2>3 DEF SyncRead, target
    <3> QED
      BY <1>3, <1>4, <3>4, <3>5, <3>6
  <2> QED
    BY <2>1, <2>2, <2>3
<1>6. CASE AcceptDealStatus(r) \/ LockDeal(r)
  <2>1. \E stage \in {"casDeal", "syncRead"} : Become(r, [req[r] EXCEPT !.stage = stage])
    BY <1>6 DEF AcceptDealStatus, LockDeal, Advance
  <2>2. req[r] \in RequestType
    BY <1>1 DEF TypeOK
  <2>3. \A stage \in {"casDeal", "syncRead"} : ~Priced([req[r] EXCEPT !.stage = stage])
    BY <2>2 DEF RequestType, Priced
  <2> QED
    BY <1>3, <1>4, <2>1, <2>3
<1>7. CASE ~(SyncRead(r) \/ AcceptDealStatus(r) \/ LockDeal(r))
  <2>1. \/ Become(r, Idle)
        \/ \E stage \in {"auditDeal", "auditVehicle"} : \E q, v : Become(r, Logging(stage, q, v))
    BY <1>7 DEF Step, Fail, CreateConflict, AuditDeal, RejectDealStatus, UpdateDeal,
       DealConflict, AuditPayment, VehicleConflict, RecordEvent, AuditVehicle, AfterConflict
  <2> QED
    BY <1>3, <1>4, <2>1, NotPriced DEF Stages
<1> QED
  BY <1>3, <1>5, <1>6, <1>7

\* A vehicle on sale or sold has a list price, so no cancellation of a deal is
\* rolled back for the lack of one.
THEOREM StockHasListPrice == Spec => []StockIsPriced
<1>1. PInv /\ [Next]_vars => PInv'
  <2> SUFFICES ASSUME PInv, [Next]_vars PROVE PInv'
    OBVIOUS
  <2>1. IInv'
    BY NextInv DEF PInv
  <2>2. CASE UNCHANGED vars
    BY <2>1, <2>2 DEF vars, PInv, StockIsPriced, MoversArePriced
  <2>3. ASSUME NEW r \in Requests, Start(r) \/ Step(r) \/ Fail(r) PROVE PInv'
    BY <2>1, <2>3, PricedStart, PricedVehicleWrite, PricedOther DEF PInv
  <2> QED
    BY <2>2, <2>3 DEF Next
<1>2. PInv => StockIsPriced
  BY DEF PInv
<1> QED
  BY <1>1, <1>2, InitPriced, PTL DEF Spec

=============================================================================
