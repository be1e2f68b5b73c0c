----------------------- MODULE VehicleHistory_proofs -----------------------
(***************************************************************************)
(* The history of deals and vehicles balances: every committed write has   *)
(* its audit row or its event, or a request that will still add it, or a   *)
(* failed call that accounts for it.                                       *)
(***************************************************************************)
EXTENDS VehicleSales_proofs, FiniteSetTheorems

\* n rows were added for ver writes, the requests of P have one more to add
\* each, and f calls have failed.
Balanced(n, P, ver, f) ==
  /\ IsFiniteSet(P)
  /\ n + Cardinality(P) <= ver
  /\ ver <= n + Cardinality(P) + f

\* What a step of r may do to the four of them: nothing, a write whose row is
\* still to come, a write together with its row, a row that was still to come,
\* or a failure.
Books(r, n, P, ver, f, n2, P2, ver2, f2) ==
  \/ n2 = n /\ P2 = P /\ ver2 = ver /\ f2 = f
  \/ n2 = n /\ r \notin P /\ P2 = P \cup {r} /\ ver2 = ver + 1 /\ f2 = f
  \/ n2 = n + 1 /\ P2 = P /\ ver2 = ver + 1 /\ f2 = f
  \/ n2 = n + 1 /\ r \in P /\ P2 = P \ {r} /\ ver2 = ver /\ f2 = f
  \/ n2 = n /\ P2 = P \ {r} /\ ver2 = ver /\ f2 = f + 1

LEMMA BalanceKept ==
  ASSUME NEW r, NEW n \in Nat, NEW P, NEW ver \in Nat, NEW f \in Nat,
         NEW n2, NEW P2, NEW ver2, NEW f2,
         Balanced(n, P, ver, f), Books(r, n, P, ver, f, n2, P2, ver2, f2)
  PROVE  Balanced(n2, P2, ver2, f2)
<1>1. IsFiniteSet(P) /\ Cardinality(P) \in Nat
  BY FS_CardinalityType DEF Balanced
<1>2. /\ IsFiniteSet(P \cup {r})
      /\ Cardinality(P \cup {r}) = IF r \in P THEN Cardinality(P) ELSE Cardinality(P) + 1
  BY <1>1, FS_AddElement
<1>3. /\ IsFiniteSet(P \ {r})
      /\ Cardinality(P \ {r}) = IF r \in P THEN Cardinality(P) - 1 ELSE Cardinality(P)
  BY <1>1, FS_RemoveElement
<1> DEFINE c == Cardinality(P)
<1>4. c \in Nat /\ n + c <= ver /\ ver <= n + c + f
  BY <1>1 DEF Balanced
<1>5. CASE n2 = n /\ P2 = P /\ ver2 = ver /\ f2 = f
  BY <1>5 DEF Balanced
<1>6. CASE n2 = n /\ r \notin P /\ P2 = P \cup {r} /\ ver2 = ver + 1 /\ f2 = f
  <2>1. IsFiniteSet(P2) /\ Cardinality(P2) = c + 1
    BY <1>2, <1>6
  <2> HIDE DEF c
  <2> QED
    BY <1>4, <1>6, <2>1 DEF Balanced
<1>7. CASE n2 = n + 1 /\ P2 = P /\ ver2 = ver + 1 /\ f2 = f
  <2>1. IsFiniteSet(P2) /\ Cardinality(P2) = c
    BY <1>1, <1>7
  <2> HIDE DEF c
  <2> QED
    BY <1>4, <1>7, <2>1 DEF Balanced
<1>8. CASE n2 = n + 1 /\ r \in P /\ P2 = P \ {r} /\ ver2 = ver /\ f2 = f
  <2>1. IsFiniteSet(P2) /\ Cardinality(P2) = c - 1
    BY <1>3, <1>8
  <2> HIDE DEF c
  <2> QED
    BY <1>4, <1>8, <2>1 DEF Balanced
<1>9. CASE n2 = n /\ P2 = P \ {r} /\ ver2 = ver /\ f2 = f + 1
  <2>1. IsFiniteSet(P2) /\ Cardinality(P2) \in {c, c - 1}
    BY <1>3, <1>9
  <2> HIDE DEF c
  <2> QED
    BY <1>4, <1>9, <2>1 DEF Balanced
<1> QED
  BY <1>5, <1>6, <1>7, <1>8, <1>9 DEF Books

-----------------------------------------------------------------------------

DealAuditors(q) == {r \in Requests : At(r, "auditDeal") /\ req[r].quote = q}
EventRecorders(v) == {r \in Requests : At(r, "eventVehicle") /\ req[r].vehicle = v}

DealBalanced(q) == Balanced(log.deal[q], DealAuditors(q), deal[q].version, failures)
VehicleBalanced(v) == Balanced(log.event[v], EventRecorders(v), vehicle[v].version, failures)

HInv == /\ IInv
        /\ \A q \in Quotes : DealBalanced(q)
        /\ \A v \in Vehicles : VehicleBalanced(v)

DealBooks(r, q) ==
  Books(r, log.deal[q], DealAuditors(q), deal[q].version, failures,
        log'.deal[q], DealAuditors(q)', deal'[q].version, failures')
VehicleBooks(r, v) ==
  Books(r, log.event[v], EventRecorders(v), vehicle[v].version, failures,
        log'.event[v], EventRecorders(v)', vehicle'[v].version, failures')

LEMMA InitBalanced == Init => HInv
<1> SUFFICES ASSUME Init PROVE HInv
  OBVIOUS
<1>1. IInv
  BY InitInv
<1>2. \A r \in Requests : req[r].stage = "idle"
  BY IdleType DEF Init
<1>3. \A q \in Quotes : DealBalanced(q)
  <2> TAKE q \in Quotes
  <2>1. DealAuditors(q) = {}
    BY <1>2 DEF DealAuditors, At
  <2> QED
    BY <2>1, FS_EmptySet DEF Init, DealBalanced, Balanced
<1>4. \A v \in Vehicles : VehicleBalanced(v)
  <2> TAKE v \in Vehicles
  <2>1. EventRecorders(v) = {}
    BY <1>2 DEF EventRecorders, At
  <2>2. log.event[v] = vehicle[v].version /\ vehicle[v].version \in Nat /\ failures = 0
    BY <1>1 DEF Init, IInv, TypeOK
  <2> QED
    BY <2>1, <2>2, FS_EmptySet DEF VehicleBalanced, Balanced
<1> QED
  BY <1>1, <1>3, <1>4 DEF HInv

\* The requests that still have a row to add, once r has become e.
LEMMA Auditors ==
  ASSUME TypeOK, NEW r \in Requests, NEW e, Become(r, e), NEW q
  PROVE  /\ DealAuditors(q)' = IF e.stage = "auditDeal" /\ e.quote = q
                               THEN DealAuditors(q) \cup {r} ELSE DealAuditors(q) \ {r}
         /\ r \in DealAuditors(q) <=> At(r, "auditDeal") /\ req[r].quote = q
<1>1. req'[r] = e /\ \A s \in Requests \ {r} : req'[s] = req[s]
  BY DEF Become, TypeOK
<1> QED
  BY <1>1 DEF DealAuditors, At

LEMMA Recorders ==
  ASSUME TypeOK, NEW r \in Requests, NEW e, Become(r, e), NEW v
  PROVE  /\ EventRecorders(v)' = IF e.stage = "eventVehicle" /\ e.vehicle = v
                                 THEN EventRecorders(v) \cup {r} ELSE EventRecorders(v) \ {r}
         /\ r \in EventRecorders(v) <=> At(r, "eventVehicle") /\ req[r].vehicle = v
<1>1. req'[r] = e /\ \A s \in Requests \ {r} : req'[s] = req[s]
  BY DEF Become, TypeOK
<1> QED
  BY <1>1 DEF EventRecorders, At

-----------------------------------------------------------------------------
(* The rows of deals *)

LEMMA DealBooksStart ==
  ASSUME TypeOK, NEW r \in Requests, Start(r), NEW q \in Quotes
  PROVE  DealBooks(r, q)
<1>1. At(r, "idle") /\ UNCHANGED <<vehicle, deal, log, failures>>
  BY DEF Start, ReadForCreate, ReadDeal, AddPayment, ReadVehicle, ReadVehicleForPrice
<1>2. ASSUME NEW e, Become(r, e), e.stage # "auditDeal"
      PROVE  DealBooks(r, q)
  <2>1. DealAuditors(q)' = DealAuditors(q)
    BY <1>1, <1>2, Auditors DEF At
  <2> QED
    BY <1>1, <2>1 DEF DealBooks, Books
<1>3. ASSUME NEW p \in Quotes, NEW a, AddPayment(r, p, a) PROVE DealBooks(r, q)
  BY <1>2, <1>3 DEF AddPayment, Logging, Idle
<1> QED
  BY <1>2, <1>3 DEF Start, ReadForCreate, ReadDeal, ReadVehicle, ReadVehicleForPrice

\* One commit of deal p by r, whose audit row is then still to come.
LEMMA DealBooksCommit ==
  ASSUME TypeOK, NEW r \in Requests, ~At(r, "auditDeal"),
         NEW p \in Quotes, NEW s \in DealStatuses, WriteDeal(p, s),
         NEW v \in Vehicles, Become(r, Logging("auditDeal", p, v)),
         log'.deal = log.deal, failures' = failures,
         NEW q \in Quotes
  PROVE  DealBooks(r, q)
<1>1. DealAuditors(q)' = IF p = q THEN DealAuditors(q) \cup {r} ELSE DealAuditors(q) \ {r}
  BY Auditors, LoggingType DEF Stages
<1>2. r \notin DealAuditors(q)
  BY DEF DealAuditors
<1>3. deal'[q].version = IF p = q THEN deal[q].version + 1 ELSE deal[q].version
  BY WriteDealEffect
<1> QED
  BY <1>1, <1>2, <1>3 DEF DealBooks, Books

LEMMA LogParts ==
  ASSUME TypeOK, NEW x
  PROVE  /\ AddRow("event", x) => log'.deal = log.deal /\ log'.event = [log.event EXCEPT ![x] = @ + 1]
         /\ AddRow("vehicle", x) => log'.deal = log.deal /\ log'.event = log.event
         /\ AddRow("payment", x) => log'.deal = log.deal /\ log'.event = log.event
         /\ AddRow("deal", x) => log'.event = log.event /\ log'.deal = [log.deal EXCEPT ![x] = @ + 1]
BY DEF AddRow, TypeOK

LEMMA DealBooksStep ==
  ASSUME IInv, NEW r \in Requests, Step(r), NEW q \in Quotes
  PROVE  DealBooks(r, q)
<1>1. TypeOK /\ RequestOK(req[r])
  BY DEF IInv, RequestsOK
<1>2. req[r].stage \in OnQuote => req[r].quote \in Quotes /\ req[r].vehicle \in Vehicles
  BY <1>1, QuoteVehicleAssumption DEF RequestOK
<1>3. CASE CreateDeal(r)
  BY <1>1, <1>2, <1>3, DealBooksCommit, LogParts DEF CreateDeal, At, OnQuote, DealStatuses
<1>4. CASE UpdateDeal(r)
  BY <1>1, <1>2, <1>4, DealBooksCommit DEF UpdateDeal, At, OnQuote, Updating, RequestOK
<1>5. CASE SyncWrite(r)
  BY <1>1, <1>2, <1>5, DealBooksCommit, LogParts
     DEF SyncWrite, At, OnQuote, Updating, Locking, RequestOK
<1>6. ASSUME UNCHANGED <<deal, failures>>, log'.deal = log.deal, ~At(r, "auditDeal"),
             NEW e, Become(r, e), e.stage # "auditDeal"
      PROVE  DealBooks(r, q)
  <2>1. DealAuditors(q)' = DealAuditors(q)
    BY <1>1, <1>6, Auditors
  <2> QED
    BY <1>6, <2>1 DEF DealBooks, Books
<1>7. CASE SyncRead(r)
  <2>1. CASE Become(r, Logging("auditDeal", req[r].quote, req[r].vehicle))
             /\ WriteDeal(req[r].quote, req[r].next)
    BY <1>1, <1>2, <1>7, <2>1, DealBooksCommit
       DEF SyncRead, At, OnQuote, Updating, Locking, RequestOK
  <2>2. CASE Become(r, Idle) /\ UNCHANGED deal
    BY <1>6, <1>7, <2>2 DEF SyncRead, At, Idle
  <2>3. CASE /\ Become(r, Following(req[r], vehicle[req[r].vehicle].status))
             /\ UNCHANGED deal
    <3>1. Following(req[r], vehicle[req[r].vehicle].status).stage = "syncWrite"
      BY <1>1 DEF TypeOK, RequestType, Following
    <3> QED
      BY <1>6, <1>7, <2>3, <3>1 DEF SyncRead, At
  <2> QED
    BY <1>7, <2>1, <2>2, <2>3 DEF SyncRead
<1>8. CASE AuditDeal(r)
  <2>1. /\ DealAuditors(q)' = DealAuditors(q) \ {r}
        /\ r \in DealAuditors(q) <=> req[r].quote = q
    BY <1>1, <1>8, Auditors DEF AuditDeal, Idle, At
  <2>2. log'.deal = [log.deal EXCEPT ![req[r].quote] = @ + 1]
    BY <1>1, <1>8, LogParts DEF AuditDeal
  <2>3. log'.deal[q] = IF req[r].quote = q THEN log.deal[q] + 1 ELSE log.deal[q]
    BY <1>1, <2>2 DEF TypeOK
  <2> QED
    BY <1>8, <2>1, <2>3 DEF AuditDeal, DealBooks, Books
<1>9. CASE AcceptDealStatus(r) \/ LockDeal(r)
  <2>1. \E stage \in {"casDeal", "syncRead"} : Become(r, [req[r] EXCEPT !.stage = stage])
    BY <1>9 DEF AcceptDealStatus, LockDeal, Advance
  <2>2. \A stage \in {"casDeal", "syncRead"} : [req[r] EXCEPT !.stage = stage].stage = stage
    BY <1>1 DEF TypeOK, RequestType
  <2> QED
    BY <1>6, <1>9, <2>1, <2>2 DEF AcceptDealStatus, LockDeal, At
<1>10. CASE CreateConflict(r) \/ RejectDealStatus(r) \/ DealConflict(r) \/ VehicleConflict(r)
  BY <1>6, <1>10
     DEF CreateConflict, RejectDealStatus, DealConflict, VehicleConflict, AfterConflict, Idle, At
<1>11. CASE AuditPayment(r) \/ AuditVehicle(r) \/ RecordEvent(r)
  BY <1>1, <1>6, <1>11, LogParts DEF AuditPayment, AuditVehicle, RecordEvent, Idle, Logging, At
<1>12. CASE UpdateVehicle(r) \/ UpdatePrice(r)
  BY <1>6, <1>12 DEF UpdateVehicle, UpdatePrice, Idle, Logging, At
<1> QED
  BY <1>3, <1>4, <1>5, <1>7, <1>8, <1>9, <1>10, <1>11, <1>12 DEF Step

-----------------------------------------------------------------------------
(* The events of vehicles *)

LEMMA VehicleBooksStart ==
  ASSUME TypeOK, NEW r \in Requests, Start(r), NEW v \in Vehicles
  PROVE  VehicleBooks(r, v)
<1>1. At(r, "idle") /\ UNCHANGED <<vehicle, deal, log, failures>>
  BY DEF Start, ReadForCreate, ReadDeal, AddPayment, ReadVehicle, ReadVehicleForPrice
<1>2. ASSUME NEW e, Become(r, e), e.stage # "eventVehicle"
      PROVE  VehicleBooks(r, v)
  <2>1. EventRecorders(v)' = EventRecorders(v)
    BY <1>1, <1>2, Recorders DEF At
  <2> QED
    BY <1>1, <2>1 DEF VehicleBooks, Books
<1>3. ASSUME NEW p \in Quotes, NEW a, AddPayment(r, p, a) PROVE VehicleBooks(r, v)
  BY <1>2, <1>3 DEF AddPayment, Logging, Idle
<1> QED
  BY <1>2, <1>3 DEF Start, ReadForCreate, ReadDeal, ReadVehicle, ReadVehicleForPrice

\* A transaction writes vehicle w and its event together.
LEMMA VehicleBooksTransaction ==
  ASSUME TypeOK, NEW r \in Requests, ~At(r, "eventVehicle"),
         NEW w \in Vehicles, NEW s \in VehicleStatuses, WriteVehicleStatus(w, s),
         AddRow("event", w), NEW q \in Quotes, Become(r, Logging("auditDeal", q, w)),
         failures' = failures,
         NEW v \in Vehicles
  PROVE  VehicleBooks(r, v)
<1>1. EventRecorders(v)' = EventRecorders(v)
  <2>1. Logging("auditDeal", q, w).stage = "auditDeal"
    BY DEF Logging, Idle
  <2>2. EventRecorders(v)' = EventRecorders(v) \ {r} /\ r \notin EventRecorders(v)
    BY <2>1, Recorders
  <2> QED
    BY <2>2
<1>2. vehicle'[v].version = IF w = v THEN vehicle[v].version + 1 ELSE vehicle[v].version
  BY WriteVehicleEffect
<1>3. log'.event[v] = IF w = v THEN log.event[v] + 1 ELSE log.event[v]
  <2>1. log'.event = [log.event EXCEPT ![w] = @ + 1]
    BY LogParts
  <2> QED
    BY <2>1 DEF TypeOK
<1> QED
  BY <1>1, <1>2, <1>3 DEF VehicleBooks, Books

\* The vehicles page writes vehicle w and leaves the event to a later call.
LEMMA VehicleBooksPage ==
  ASSUME TypeOK, NEW r \in Requests, ~At(r, "eventVehicle"),
         NEW w \in Vehicles, vehicle'[w].version = vehicle[w].version + 1,
         \A u \in Vehicles \ {w} : vehicle'[u] = vehicle[u],
         Become(r, Logging("eventVehicle", NoQuote, w)), UNCHANGED <<log, failures>>,
         NEW v \in Vehicles
  PROVE  VehicleBooks(r, v)
<1>1. EventRecorders(v)' = IF w = v THEN EventRecorders(v) \cup {r} ELSE EventRecorders(v) \ {r}
  BY Recorders, LoggingType DEF Stages
<1>2. r \notin EventRecorders(v)
  BY DEF EventRecorders
<1>3. vehicle'[v].version = IF w = v THEN vehicle[v].version + 1 ELSE vehicle[v].version
  OBVIOUS
<1> QED
  BY <1>1, <1>2, <1>3 DEF VehicleBooks, Books

LEMMA VehicleBooksStep ==
  ASSUME IInv, NEW r \in Requests, Step(r), NEW v \in Vehicles
  PROVE  VehicleBooks(r, v)
<1>1. TypeOK /\ RequestOK(req[r])
  BY DEF IInv, RequestsOK
<1>2. /\ req[r].stage \in OnQuote => req[r].quote \in Quotes /\ req[r].vehicle \in Vehicles
      /\ req[r].stage \in OnVehicle => req[r].vehicle \in Vehicles
  BY <1>1, QuoteVehicleAssumption DEF RequestOK
<1>3. CASE CreateDeal(r)
  BY <1>1, <1>2, <1>3, VehicleBooksTransaction DEF CreateDeal, At, OnQuote, VehicleStatuses
<1>4. CASE SyncWrite(r)
  <2>1. req[r].next \in SyncedDealStatuses
    BY <1>1, <1>4 DEF SyncWrite, At, RequestOK, Locking
  <2> QED
    BY <1>1, <1>2, <1>4, <2>1, VehicleStatusForType, VehicleBooksTransaction
       DEF SyncWrite, At, OnQuote, Updating, Locking
<1>5. CASE UpdateVehicle(r)
  <2>1. req[r].next \in VehicleStatuses
    BY <1>1, <1>5 DEF UpdateVehicle, At, RequestOK
  <2> QED
    BY <1>1, <1>2, <1>5, <2>1, WriteVehicleEffect, VehicleBooksPage
       DEF UpdateVehicle, At, OnVehicle
<1>6. CASE UpdatePrice(r)
  <2> DEFINE w == req[r].vehicle
  <2>1. w \in Vehicles /\ ~At(r, "eventVehicle")
    BY <1>2, <1>6 DEF UpdatePrice, At, OnVehicle
  <2>2. /\ vehicle'[w].version = vehicle[w].version + 1
        /\ \A u \in Vehicles \ {w} : vehicle'[u] = vehicle[u]
    BY <1>1, <1>6, <2>1, TypeParts DEF UpdatePrice, VehicleRows
  <2> QED
    BY <1>1, <1>6, <2>1, <2>2, VehicleBooksPage DEF UpdatePrice
<1>7. ASSUME UNCHANGED <<vehicle, failures>>, log'.event = log.event, ~At(r, "eventVehicle"),
             NEW e, Become(r, e), e.stage # "eventVehicle"
      PROVE  VehicleBooks(r, v)
  <2>1. EventRecorders(v)' = EventRecorders(v)
    BY <1>1, <1>7, Recorders
  <2> QED
    BY <1>7, <2>1 DEF VehicleBooks, Books
<1>8. CASE SyncRead(r)
  <2>1. Following(req[r], vehicle[req[r].vehicle].status).stage = "syncWrite"
    BY <1>1 DEF TypeOK, RequestType, Following
  <2>2. \/ Become(r, Logging("auditDeal", req[r].quote, req[r].vehicle))
        \/ Become(r, Idle)
        \/ Become(r, Following(req[r], vehicle[req[r].vehicle].status))
    BY <1>8 DEF SyncRead
  <2> QED
    BY <1>7, <1>8, <2>1, <2>2 DEF SyncRead, At, Idle, Logging
<1>9. CASE RecordEvent(r)
  <2>1. /\ EventRecorders(v)' = EventRecorders(v) \ {r}
        /\ r \in EventRecorders(v) <=> req[r].vehicle = v
    <3>1. Logging("auditVehicle", NoQuote, req[r].vehicle).stage = "auditVehicle"
      BY DEF Logging, Idle
    <3> QED
      BY <1>1, <1>9, <3>1, Recorders DEF RecordEvent
  <2>2. log'.event = [log.event EXCEPT ![req[r].vehicle] = @ + 1]
    BY <1>1, <1>9, LogParts DEF RecordEvent
  <2>3. log'.event[v] = IF req[r].vehicle = v THEN log.event[v] + 1 ELSE log.event[v]
    BY <1>1, <2>2 DEF TypeOK
  <2> QED
    BY <1>9, <2>1, <2>3 DEF RecordEvent, VehicleBooks, Books
<1>10. CASE AcceptDealStatus(r) \/ LockDeal(r)
  <2>1. \E stage \in {"casDeal", "syncRead"} : Become(r, [req[r] EXCEPT !.stage = stage])
    BY <1>10 DEF AcceptDealStatus, LockDeal, Advance
  <2>2. \A stage \in {"casDeal", "syncRead"} : [req[r] EXCEPT !.stage = stage].stage = stage
    BY <1>1 DEF TypeOK, RequestType
  <2> QED
    BY <1>7, <1>10, <2>1, <2>2 DEF AcceptDealStatus, LockDeal, At
<1>11. CASE CreateConflict(r) \/ RejectDealStatus(r) \/ DealConflict(r) \/ VehicleConflict(r)
  BY <1>7, <1>11
     DEF CreateConflict, RejectDealStatus, DealConflict, VehicleConflict, AfterConflict, Idle, At
<1>12. CASE AuditDeal(r) \/ AuditPayment(r) \/ AuditVehicle(r)
  BY <1>1, <1>7, <1>12, LogParts DEF AuditDeal, AuditPayment, AuditVehicle, Idle, At
<1>13. CASE UpdateDeal(r)
  BY <1>7, <1>13 DEF UpdateDeal, Idle, Logging, At
<1> QED
  BY <1>3, <1>4, <1>5, <1>6, <1>8, <1>9, <1>10, <1>11, <1>12, <1>13 DEF Step

-----------------------------------------------------------------------------

\* A failed call drops at most one row that was still to come.
LEMMA FailBooks ==
  ASSUME TypeOK, NEW r \in Requests, Fail(r)
  PROVE  /\ \A q \in Quotes : DealBooks(r, q)
         /\ \A v \in Vehicles : VehicleBooks(r, v)
<1>1. Become(r, Idle) /\ UNCHANGED <<vehicle, deal, log>> /\ failures' = failures + 1
  BY DEF Fail
<1>2. \A q \in Quotes : DealAuditors(q)' = DealAuditors(q) \ {r}
  BY <1>1, Auditors, IdleType
<1>3. \A v \in Vehicles : EventRecorders(v)' = EventRecorders(v) \ {r}
  BY <1>1, Recorders, IdleType
<1> QED
  BY <1>1, <1>2, <1>3 DEF DealBooks, VehicleBooks, Books

LEMMA NextBalanced == HInv /\ [Next]_vars => HInv'
<1> SUFFICES ASSUME HInv, [Next]_vars PROVE HInv'
  OBVIOUS
<1>1. IInv' /\ IInv /\ TypeOK
  BY NextInv DEF HInv, IInv
<1>2. CASE UNCHANGED vars
  BY <1>1, <1>2 DEF vars, HInv, DealBalanced, VehicleBalanced, DealAuditors, EventRecorders, At
<1>3. ASSUME NEW r \in Requests, Start(r) \/ Step(r) \/ Fail(r) PROVE HInv'
  <2>1. failures \in Nat
    BY <1>1, BoundsAssumption DEF TypeOK
  <2>2. \A q \in Quotes : DealBalanced(q)'
    <3> TAKE q \in Quotes
    <3>1. log.deal[q] \in Nat /\ deal[q].version \in Nat
      BY <1>1 DEF TypeOK
    <3>2. DealBooks(r, q)
      BY <1>1, <1>3, DealBooksStart, DealBooksStep, FailBooks
    <3>3. Balanced(log.deal[q], DealAuditors(q), deal[q].version, failures)
      BY DEF HInv, DealBalanced
    <3> QED
      BY <2>1, <3>1, <3>2, <3>3, BalanceKept DEF DealBooks, DealBalanced
  <2>3. \A v \in Vehicles : VehicleBalanced(v)'
    <3> TAKE v \in Vehicles
    <3>1. log.event[v] \in Nat /\ vehicle[v].version \in Nat
      BY <1>1 DEF TypeOK
    <3>2. VehicleBooks(r, v)
      BY <1>1, <1>3, VehicleBooksStart, VehicleBooksStep, FailBooks
    <3>3. Balanced(log.event[v], EventRecorders(v), vehicle[v].version, failures)
      BY DEF HInv, VehicleBalanced
    <3> QED
      BY <2>1, <3>1, <3>2, <3>3, BalanceKept DEF VehicleBooks, VehicleBalanced
  <2> QED
    BY <1>1, <2>2, <2>3 DEF HInv
<1> QED
  BY <1>2, <1>3 DEF Next

LEMMA HistoryInvariance == Spec => []HInv
BY InitBalanced, NextBalanced, PTL DEF Spec

\* No deal has more audit rows than commits, and none has fewer than commits
\* less the requests still at it and the calls that failed.
THEOREM DealHistoryBalances == Spec => []DealAuditBalance
<1>1. HInv => DealAuditBalance
  BY DEF HInv, DealBalanced, Balanced, DealAuditors, DealAuditBalance, PendingDealAudits
<1> QED
  BY <1>1, HistoryInvariance, PTL

\* The same for the events of a vehicle, whichever service moved it.
THEOREM VehicleHistoryBalances == Spec => []VehicleEventBalance
<1>1. HInv => VehicleEventBalance
  BY DEF HInv, VehicleBalanced, Balanced, EventRecorders, VehicleEventBalance, PendingEvents
<1> QED
  BY <1>1, HistoryInvariance, PTL

=============================================================================
