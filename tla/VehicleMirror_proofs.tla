------------------------ MODULE VehicleMirror_proofs ------------------------
(***************************************************************************)
(* A vehicle mirrors its active deal where the vehicles page does no more  *)
(* than reserve vehicles in stock and the client never repeats a status    *)
(* that it sees: what the deals code keeps true on its own.                *)
(***************************************************************************)
EXTENDS VehicleSales_proofs

OnlyDealsMove == /\ ~Resend /\ VehicleTargets \subseteq {"RESERVED"}
                 /\ \A v \in Vehicles : Fleet[v] = "stocked"

\* A status is only sent again over a version that is out of date, and the page
\* only reserves a vehicle that no deal has.
Sensible(e) ==
  /\ e.stage \in Updating => e.next # e.old \/ e.ver < deal[e.quote].version
  /\ e.stage = "casVehicle" => e.next = "RESERVED" /\ e.old \in EligibleForDeal
RequestsSensible == \A r \in Requests : Sensible(req[r])

MInv == IInv /\ RequestsSensible /\ VehicleMirrorsDeal

-----------------------------------------------------------------------------

\* A vehicle with an active deal cannot be taken for another.
LEMMA MirrorOfActive ==
  ASSUME NEW s \in DealStatuses \ {"CANCELLED"}
  PROVE  MirrorOf(s) \cap EligibleForDeal = {}
BY DEF DealStatuses, MirrorOf, EligibleForDeal

\* The vehicle of a deal that moves: where a deal may go from its status, the
\* vehicle is either where it should be or may follow.
LEMMA DealMoves ==
  ASSUME NEW from, NEW to \in DealStatuses, <<from, to>> \in DealTransitions
  PROVE  /\ from \in OpenDealStatuses
         /\ to \notin SyncedDealStatuses => MirrorOf(from) = MirrorOf(to) /\ to # "CANCELLED"
         /\ to \in SyncedDealStatuses =>
              \A s \in MirrorOf(from) : ListedVehicleMove(s, VehicleStatusFor(to))
         /\ to \in SyncedDealStatuses \ {"CANCELLED"} => VehicleStatusFor(to) \in MirrorOf(to)
         /\ to = "CANCELLED" => VehicleStatusFor(to) \in EligibleForDeal
<1> USE DEF DealTransitions, OpenDealStatuses, DealStatuses, SyncedDealStatuses
<1>1. from \in OpenDealStatuses
  OBVIOUS
<1>2. to \notin SyncedDealStatuses => MirrorOf(from) = MirrorOf(to) /\ to # "CANCELLED"
  BY DEF MirrorOf
<1>3. ASSUME to \in SyncedDealStatuses, NEW s \in MirrorOf(from)
      PROVE  ListedVehicleMove(s, VehicleStatusFor(to))
  <2>1. CASE to = "PAID"
    <3>1. s = "IN_DEAL" /\ VehicleStatusFor(to) = "SOLD"
      BY <1>3, <2>1 DEF MirrorOf, VehicleStatusFor
    <3> QED
      BY <3>1 DEF ListedVehicleMove, VehicleTransitions
  <2>2. CASE to = "DELIVERED"
    <3>1. s = "SOLD" /\ VehicleStatusFor(to) = "DELIVERED"
      BY <1>3, <2>2 DEF MirrorOf, VehicleStatusFor
    <3> QED
      BY <3>1 DEF ListedVehicleMove, VehicleTransitions
  <2>3. CASE to = "CANCELLED"
    <3>1. s \in {"IN_DEAL", "SOLD"} /\ VehicleStatusFor(to) = "AVAILABLE"
      BY <1>1, <1>3, <2>3 DEF MirrorOf, VehicleStatusFor
    <3> QED
      BY <3>1 DEF ListedVehicleMove, VehicleTransitions
  <2> QED
    BY <1>3, <2>1, <2>2, <2>3
<1>4. to \in SyncedDealStatuses \ {"CANCELLED"} => VehicleStatusFor(to) \in MirrorOf(to)
  BY DEF MirrorOf, VehicleStatusFor
<1>5. to = "CANCELLED" => VehicleStatusFor(to) \in EligibleForDeal
  BY DEF VehicleStatusFor, EligibleForDeal
<1> QED
  BY <1>1, <1>2, <1>3, <1>4, <1>5

LEMMA InitMirror ==
  ASSUME OnlyDealsMove
  PROVE  Init => MInv
<1> SUFFICES ASSUME Init PROVE MInv
  OBVIOUS
<1>1. IInv
  BY InitInv
<1>2. RequestsSensible
  BY IdleType DEF Init, RequestsSensible, Sensible, Updating, Locking
<1>3. VehicleMirrorsDeal
  BY DEF OnlyDealsMove, Init, VehicleMirrorsDeal, DealsOf, Active, InitialVehicle, EligibleForDeal
<1> QED
  BY <1>1, <1>2, <1>3 DEF MInv

-----------------------------------------------------------------------------
(* What requests in flight know stays true *)

LEMMA SensibleStep ==
  ASSUME IInv, RequestsSensible, NEW r \in Requests, NEW e, Become(r, e),
         \A q \in Quotes : deal'[q].version \in {deal[q].version, deal[q].version + 1},
         Sensible(e)'
  PROVE  RequestsSensible'
<1>1. TypeOK /\ RequestsOK
  BY DEF IInv
<1>2. req'[r] = e /\ \A s \in Requests \ {r} : req'[s] = req[s]
  BY <1>1 DEF Become, TypeOK
<1>3. ASSUME NEW s \in Requests \ {r} PROVE Sensible(req[s])'
  <2>1. Sensible(req[s]) /\ req'[s] = req[s]
    BY <1>2 DEF RequestsSensible
  <2>2. ASSUME req[s].stage \in Updating, req[s].ver < deal[req[s].quote].version
        PROVE  req[s].ver < deal'[req[s].quote].version
    <3>1. req[s].quote \in Quotes
      BY <1>1, <2>2 DEF RequestsOK, RequestOK, OnQuote
    <3>2. deal[req[s].quote].version \in Nat /\ req[s].ver \in Nat
      BY <1>1, <3>1 DEF TypeOK, RequestType
    <3> QED
      BY <2>2, <3>1, <3>2
  <2> QED
    BY <2>1, <2>2 DEF Sensible
<1> QED
  BY <1>2, <1>3 DEF RequestsSensible

LEMMA SensibleStart ==
  ASSUME OnlyDealsMove, MInv, NEW r \in Requests, Start(r)
  PROVE  RequestsSensible' /\ VehicleMirrorsDeal'
<1>1. IInv /\ RequestsSensible /\ UNCHANGED <<vehicle, deal>>
  BY DEF MInv, Start, ReadForCreate, ReadDeal, AddPayment, ReadVehicle, ReadVehicleForPrice
<1>2. VehicleMirrorsDeal'
  BY <1>1 DEF MInv, VehicleMirrorsDeal
<1>3. ASSUME NEW e, Become(r, e), Sensible(e)' PROVE RequestsSensible'
  BY <1>1, <1>3, SensibleStep
<1>4. ASSUME NEW q \in Quotes, ReadForCreate(r, q) PROVE RequestsSensible'
  BY <1>3, <1>4 DEF ReadForCreate, Sensible, Updating, Locking
<1>5. ASSUME NEW q \in Quotes, NEW s \in DealStatuses, NEW ver, ReadDeal(r, q, s, ver)
      PROVE  RequestsSensible'
  BY <1>1, <1>3, <1>5 DEF ReadDeal, Requestable, OnlyDealsMove, Sensible, Updating, Locking
<1>6. ASSUME NEW q \in Quotes, NEW a \in Amounts, AddPayment(r, q, a) PROVE RequestsSensible'
  BY <1>3, <1>6 DEF AddPayment, Logging, Idle, Sensible, Updating, Locking
<1>7. ASSUME NEW v \in Vehicles, NEW s \in VehicleTargets, NEW ver, ReadVehicle(r, v, s, ver)
      PROVE  RequestsSensible'
  <2>1. s = "RESERVED" /\ ListedVehicleMove(vehicle[v].status, s)
    BY <1>7 DEF ReadVehicle, ValidVehicleTransition, OnlyDealsMove
  <2>2. vehicle[v].status \in EligibleForDeal
    BY <2>1 DEF ListedVehicleMove, VehicleTransitions, EligibleForDeal
  <2> QED
    BY <1>3, <1>7, <2>1, <2>2 DEF ReadVehicle, Sensible, Updating, Locking
<1>8. ASSUME NEW v \in Vehicles, NEW ver, ReadVehicleForPrice(r, v, ver)
      PROVE  RequestsSensible'
  BY <1>3, <1>8 DEF ReadVehicleForPrice, Sensible, Updating, Locking
<1> QED
  BY <1>2, <1>4, <1>5, <1>6, <1>7, <1>8 DEF Start

LEMMA SensibleOther ==
  ASSUME IInv, IInv', RequestsSensible, NEW r \in Requests, Step(r) \/ Fail(r)
  PROVE  RequestsSensible'
<1>1. TypeOK /\ TypeOK' /\ RequestOK(req[r])
  BY DEF IInv, RequestsOK
<1>2. \A q \in Quotes : deal'[q].version \in {deal[q].version, deal[q].version + 1}
  <2>1. ASSUME NEW q \in Quotes, NEW s \in DealStatuses, WriteDeal(q, s)
        PROVE  \A p \in Quotes : deal'[p].version \in {deal[p].version, deal[p].version + 1}
    BY <1>1, <2>1, WriteDealEffect
  <2>2. \/ UNCHANGED deal
        \/ At(r, "createTx") /\ WriteDeal(req[r].quote, "DRAFT")
        \/ req[r].stage \in Updating /\ WriteDeal(req[r].quote, req[r].next)
    BY DEF Step, Fail, CreateDeal, CreateConflict, AuditDeal, AcceptDealStatus, RejectDealStatus,
           UpdateDeal, LockDeal, DealConflict, SyncRead, SyncWrite, AuditPayment, UpdateVehicle,
           UpdatePrice, VehicleConflict, RecordEvent, AuditVehicle, At, Updating, Locking
  <2> QED
    BY <1>1, <2>1, <2>2 DEF RequestOK, OnQuote, At, DealStatuses
<1>3. ASSUME NEW e, Become(r, e), e.stage \notin Updating \cup {"casVehicle"}
      PROVE  RequestsSensible'
  BY <1>2, <1>3, SensibleStep DEF Sensible
<1>4. ASSUME UNCHANGED deal, req[r].stage \in Updating, NEW e, Become(r, e),
             e.stage \in Updating, e.next = req[r].next, e.old = req[r].old,
             e.ver = req[r].ver, e.quote = req[r].quote
      PROVE  RequestsSensible'
  <2>1. Sensible(e)'
    BY <1>4 DEF RequestsSensible, Sensible, Updating, Locking
  <2> QED
    BY <1>2, <1>4, <2>1, SensibleStep
<1>5. CASE AcceptDealStatus(r) \/ LockDeal(r)
  <2>1. PICK stage \in {"casDeal", "syncRead"} : Become(r, [req[r] EXCEPT !.stage = stage])
    BY <1>5 DEF AcceptDealStatus, LockDeal, Advance
  <2>2. UNCHANGED deal /\ req[r].stage \in Updating /\ stage \in Updating
    BY <1>5 DEF AcceptDealStatus, LockDeal, At, Updating, Locking
  <2> DEFINE e == [req[r] EXCEPT !.stage = stage]
  <2>3. /\ e.stage = stage /\ e.next = req[r].next /\ e.old = req[r].old
        /\ e.ver = req[r].ver /\ e.quote = req[r].quote
    BY <1>1 DEF TypeOK, RequestType
  <2> HIDE DEF e
  <2> QED
    BY <1>4, <2>1, <2>2, <2>3 DEF e
<1>6. CASE SyncRead(r)
  <2>1. CASE /\ Become(r, Following(req[r], vehicle[req[r].vehicle].status))
             /\ UNCHANGED deal
    <3> DEFINE e == Following(req[r], vehicle[req[r].vehicle].status)
    <3>1. /\ e.stage = "syncWrite" /\ e.next = req[r].next /\ e.old = req[r].old
          /\ e.ver = req[r].ver /\ e.quote = req[r].quote
      BY <1>1 DEF TypeOK, RequestType, Following
    <3>2. req[r].stage \in Updating /\ Become(r, e)
      BY <1>6, <2>1 DEF SyncRead, At, Updating, Locking
    <3> HIDE DEF e
    <3> QED
      BY <1>4, <2>1, <3>1, <3>2 DEF Updating, Locking
  <2>2. CASE Become(r, Idle) \/ Become(r, Logging("auditDeal", req[r].quote, req[r].vehicle))
    BY <1>3, <2>2 DEF Idle, Logging, Updating, Locking
  <2> QED
    BY <1>6, <2>1, <2>2 DEF SyncRead
<1>7. CASE ~(AcceptDealStatus(r) \/ LockDeal(r) \/ SyncRead(r))
  <2>1. \/ Become(r, Idle)
        \/ \E stage \in {"auditDeal", "auditVehicle", "eventVehicle"} :
             \E q, v : Become(r, Logging(stage, q, v))
    BY <1>7 DEF Step, Fail, CreateDeal, CreateConflict, AuditDeal, RejectDealStatus, UpdateDeal,
       DealConflict, SyncWrite, AuditPayment, UpdateVehicle, UpdatePrice, VehicleConflict,
       RecordEvent, AuditVehicle, AfterConflict
  <2> QED
    BY <1>3, <2>1 DEF Idle, Logging, Updating, Locking
<1> QED
  BY <1>5, <1>6, <1>7

-----------------------------------------------------------------------------
(* The vehicle and its deal *)

\* A deal that moves as listed takes its vehicle along, or need not.
LEMMA MirrorCommit ==
  ASSUME TypeOK, NoDoubleSale, VehicleMirrorsDeal,
         NEW q \in Quotes, NEW s \in DealStatuses, WriteDeal(q, s),
         <<deal[q].status, s>> \in DealTransitions,
         IF s \in SyncedDealStatuses
           THEN WriteVehicleStatus(QuoteVehicle[q], VehicleStatusFor(s))
           ELSE UNCHANGED vehicle
  PROVE  VehicleMirrorsDeal'
<1> DEFINE v == QuoteVehicle[q]
<1> USE QuoteVehicleAssumption
<1>1. /\ deal'[q].status = s /\ \A p \in Quotes \ {q} : deal'[p] = deal[p]
  BY WriteDealEffect
<1>2. /\ v \in Vehicles
      /\ \A w \in Vehicles \ {v} : vehicle'[w] = vehicle[w]
      /\ vehicle'[v].status = IF s \in SyncedDealStatuses THEN VehicleStatusFor(s)
                              ELSE vehicle[v].status
  BY TypeParts DEF WriteVehicleStatus, VehicleRows
<1>3. Active(deal[q]) /\ (Active(deal'[q]) <=> s # "CANCELLED")
  BY <1>1, DealMoves DEF Active, OpenDealStatuses, DealStatuses
<1>4. \A p \in DealsOf(v) \ {q} : ~Active(deal[p]) /\ ~Active(deal'[p])
  BY <1>1, <1>3 DEF NoDoubleSale, DealsOf
<1>5. vehicle[v].status \in MirrorOf(deal[q].status)
  BY <1>2, <1>3 DEF VehicleMirrorsDeal, DealsOf
<1>6. Active(deal'[q]) => vehicle'[v].status \in MirrorOf(deal'[q].status)
  BY <1>1, <1>2, <1>3, <1>5, DealMoves
<1>7. ~Active(deal'[q]) => vehicle'[v].status \in EligibleForDeal
  BY <1>1, <1>2, <1>3, DealMoves DEF SyncedDealStatuses
<1>8. q \in DealsOf(v)
  BY DEF DealsOf
<1>9. ASSUME NEW w \in Vehicles \ {v}
      PROVE  /\ \A p \in DealsOf(w) : Active(deal'[p]) => vehicle'[w].status \in MirrorOf(deal'[p].status)
             /\ (\A p \in DealsOf(w) : ~Active(deal'[p])) => vehicle'[w].status \in EligibleForDeal
  BY <1>1, <1>2 DEF VehicleMirrorsDeal, DealsOf
<1> QED
  BY <1>1, <1>2, <1>4, <1>6, <1>7, <1>8, <1>9 DEF VehicleMirrorsDeal, DealsOf

\* A request whose version still matches was checked against the row as it is.
LEMMA CommitIsListed ==
  ASSUME IInv, RequestsSensible, NEW r \in Requests,
         \/ req[r].stage \in Locking
         \/ At(r, "casDeal") /\ Matches(deal[req[r].quote], req[r].ver)
  PROVE  /\ req[r].quote \in Quotes /\ req[r].vehicle = QuoteVehicle[req[r].quote]
         /\ req[r].next \in DealStatuses
         /\ <<deal[req[r].quote].status, req[r].next>> \in DealTransitions
<1>1. /\ TypeOK /\ RequestOK(req[r]) /\ Sensible(req[r])
      /\ req[r].stage \in Updating \ {"checkDeal"}
  BY DEF IInv, RequestsOK, RequestsSensible, At, Updating, Locking
<1>2. /\ deal[req[r].quote].version = req[r].ver
      /\ deal[req[r].quote].status = req[r].old
  BY <1>1 DEF IInv, StaleReadIsRefused, ReadIsTrueOrOvertaken, LockedRowIsAsChecked, Matches,
              At, Updating, Locking
<1>3. /\ req[r].quote \in Quotes /\ req[r].vehicle = QuoteVehicle[req[r].quote]
      /\ req[r].next \in DealStatuses /\ Checked(req[r])
  BY <1>1 DEF RequestOK, OnQuote
<1>4. req[r].ver \in Nat
  BY <1>1 DEF TypeOK, RequestType
<1> QED
  BY <1>1, <1>2, <1>3, <1>4 DEF Sensible, Checked

LEMMA MirrorStep ==
  ASSUME MInv, NEW r \in Requests, Step(r) \/ Fail(r)
  PROVE  VehicleMirrorsDeal'
<1> USE QuoteVehicleAssumption
<1>1. /\ IInv /\ TypeOK /\ NoDoubleSale /\ VehicleMirrorsDeal /\ RequestsSensible
      /\ RequestOK(req[r]) /\ Sensible(req[r])
  BY DEF MInv, IInv, RequestsOK, RequestsSensible
<1>2. CASE UNCHANGED <<vehicle, deal>>
  BY <1>1, <1>2 DEF VehicleMirrorsDeal
<1>3. CASE CreateDeal(r)
  <2> DEFINE q == req[r].quote
             v == req[r].vehicle
  <2>1. q \in Quotes /\ v = QuoteVehicle[q] /\ v \in Vehicles
    BY <1>1, <1>3 DEF CreateDeal, At, RequestOK, OnQuote
  <2>2. /\ WriteDeal(q, "DRAFT") /\ WriteVehicleStatus(v, "IN_DEAL")
        /\ \A p \in DealsOf(v) : ~Active(deal[p])
    BY <1>3 DEF CreateDeal, CreateSucceeds, VehicleIndexFree
  <2>3. /\ deal'[q].status = "DRAFT" /\ \A p \in Quotes \ {q} : deal'[p] = deal[p]
    BY <1>1, <2>1, <2>2, WriteDealEffect DEF DealStatuses
  <2>4. /\ vehicle'[v].status = "IN_DEAL"
        /\ \A w \in Vehicles \ {v} : vehicle'[w] = vehicle[w]
    BY <1>1, <2>1, <2>2, TypeParts DEF WriteVehicleStatus, VehicleRows
  <2>5. "IN_DEAL" \in MirrorOf("DRAFT") /\ Active(deal'[q])
    BY <2>3 DEF MirrorOf, Active
  <2>6. ASSUME NEW w \in Vehicles \ {v}
        PROVE  /\ \A p \in DealsOf(w) : Active(deal'[p]) => vehicle'[w].status \in MirrorOf(deal'[p].status)
               /\ (\A p \in DealsOf(w) : ~Active(deal'[p])) => vehicle'[w].status \in EligibleForDeal
    BY <1>1, <2>1, <2>3, <2>4 DEF VehicleMirrorsDeal, DealsOf
  <2> QED
    BY <2>1, <2>2, <2>3, <2>4, <2>5, <2>6 DEF VehicleMirrorsDeal, DealsOf
<1>4. CASE UpdateDeal(r)
  BY <1>1, <1>4, CommitIsListed, MirrorCommit DEF UpdateDeal
<1>5. CASE SyncWrite(r)
  <2>1. req[r].stage \in Locking /\ req[r].next \in SyncedDealStatuses
    BY <1>1, <1>5 DEF SyncWrite, At, Locking, RequestOK
  <2> QED
    BY <1>1, <1>5, <2>1, CommitIsListed, MirrorCommit DEF SyncWrite
<1>6. CASE SyncRead(r)
  \* The vehicle is never found where it may not follow.
  <2> DEFINE q == req[r].quote
             target == VehicleStatusFor(req[r].next)
  <2>1. req[r].stage \in Locking /\ req[r].next \in SyncedDealStatuses
    BY <1>1, <1>6 DEF SyncRead, At, Locking, RequestOK
  <2>2. /\ q \in Quotes /\ req[r].vehicle = QuoteVehicle[q] /\ req[r].next \in DealStatuses
        /\ <<deal[q].status, req[r].next>> \in DealTransitions
    BY <1>1, <2>1, CommitIsListed
  <2>3. Active(deal[q])
    BY <2>2, DealMoves DEF Active, OpenDealStatuses, DealStatuses
  <2>4. vehicle[req[r].vehicle].status \in MirrorOf(deal[q].status)
    BY <1>1, <2>2, <2>3 DEF VehicleMirrorsDeal, DealsOf
  <2>5. ListedVehicleMove(vehicle[req[r].vehicle].status, target)
    BY <2>1, <2>2, <2>4, DealMoves
  <2> QED
    BY <1>2, <1>6, <2>5 DEF SyncRead
<1>7. CASE UpdateVehicle(r)
  <2> DEFINE v == req[r].vehicle
  <2>1. /\ v \in Vehicles /\ WriteVehicleStatus(v, "RESERVED") /\ UNCHANGED deal
        /\ vehicle[v].status \in EligibleForDeal
    BY <1>1, <1>7 DEF UpdateVehicle, At, RequestOK, OnVehicle, Sensible, IInv, StaleReadIsRefused,
                      ReadIsTrueOrOvertaken, Matches
  <2>2. /\ vehicle'[v].status = "RESERVED" /\ \A w \in Vehicles \ {v} : vehicle'[w] = vehicle[w]
    BY <1>1, <2>1, TypeParts DEF WriteVehicleStatus, VehicleRows
  <2>3. \A q \in DealsOf(v) : ~Active(deal[q])
    <3> SUFFICES ASSUME NEW q \in DealsOf(v), Active(deal[q]) PROVE FALSE
      OBVIOUS
    <3>1. deal[q].status \in DealStatuses \ {"CANCELLED"}
      BY <1>1 DEF DealsOf, TypeOK, Active
    <3>2. vehicle[v].status \in MirrorOf(deal[q].status)
      BY <1>1, <2>1 DEF VehicleMirrorsDeal
    <3> QED
      BY <2>1, <3>1, <3>2, MirrorOfActive
  <2> QED
    BY <1>1, <2>1, <2>2, <2>3 DEF VehicleMirrorsDeal, EligibleForDeal
<1>8. CASE UpdatePrice(r)
  <2>1. /\ UNCHANGED deal
        /\ \A w \in Vehicles : vehicle'[w].status = vehicle[w].status
    BY <1>1, <1>8, TypeParts DEF UpdatePrice, VehicleRows
  <2> QED
    BY <1>1, <2>1 DEF VehicleMirrorsDeal
<1> QED
  BY <1>2, <1>3, <1>4, <1>5, <1>6, <1>7, <1>8
     DEF Step, Fail, CreateConflict, AuditDeal, AcceptDealStatus, RejectDealStatus, LockDeal,
         DealConflict, AuditPayment, VehicleConflict, RecordEvent, AuditVehicle

LEMMA MirrorInvariance ==
  ASSUME OnlyDealsMove
  PROVE  MInv /\ [Next]_vars => MInv'
<1> SUFFICES ASSUME MInv, [Next]_vars PROVE MInv'
  OBVIOUS
<1>1. IInv' /\ IInv /\ RequestsSensible
  BY NextInv DEF MInv
<1>2. CASE UNCHANGED vars
  BY <1>1, <1>2 DEF vars, MInv, RequestsSensible, Sensible, VehicleMirrorsDeal
<1>3. ASSUME NEW r \in Requests, Start(r) \/ Step(r) \/ Fail(r) PROVE MInv'
  BY <1>1, <1>3, SensibleStart, SensibleOther, MirrorStep DEF MInv
<1> QED
  BY <1>2, <1>3 DEF Next

\* As long as the vehicles page only reserves and no status is repeated, every
\* committed state shows the vehicle of an active deal where the deal is, and
\* every other vehicle free: no move of a deal is ever skipped.
THEOREM DealsCarryTheirVehicles ==
  ASSUME OnlyDealsMove
  PROVE  Spec => []VehicleMirrorsDeal
<1>1. MInv => VehicleMirrorsDeal
  BY DEF MInv
<1> QED
  BY <1>1, InitMirror, MirrorInvariance, PTL DEF Spec

-----------------------------------------------------------------------------
(* The event of a vehicle that follows its deal *)

\* What syncVehicleStatus has read is still true when it writes.
FollowersSawTruth ==
  \A r \in Requests : At(r, "syncWrite") => vehicle[req[r].vehicle].status = req[r].was

\* The deal that a vehicle is about to follow is active: nobody else may have it.
LEMMA FollowedIsActive ==
  ASSUME MInv, NEW r \in Requests, At(r, "syncWrite")
  PROVE  /\ req[r].vehicle \in Vehicles /\ req[r].quote \in DealsOf(req[r].vehicle)
         /\ Active(deal[req[r].quote])
         /\ vehicle[req[r].vehicle].status \notin EligibleForDeal
<1> USE QuoteVehicleAssumption
<1>1. IInv /\ TypeOK /\ RequestsSensible /\ VehicleMirrorsDeal /\ req[r].stage \in Locking
  BY DEF MInv, IInv, At, Locking
<1>2. /\ req[r].quote \in Quotes /\ req[r].vehicle = QuoteVehicle[req[r].quote]
      /\ req[r].next \in DealStatuses
      /\ <<deal[req[r].quote].status, req[r].next>> \in DealTransitions
  BY <1>1, CommitIsListed
<1>3. Active(deal[req[r].quote]) /\ deal[req[r].quote].status \in DealStatuses \ {"CANCELLED"}
  BY <1>2, DealMoves DEF Active, OpenDealStatuses, DealStatuses
<1>4. vehicle[req[r].vehicle].status \in MirrorOf(deal[req[r].quote].status)
  BY <1>1, <1>2, <1>3 DEF VehicleMirrorsDeal, DealsOf
<1> QED
  BY <1>2, <1>3, <1>4, MirrorOfActive DEF DealsOf

\* No other request moves that vehicle: a creation finds the index taken, another
\* update of a deal does not have the row, and the page is late.
LEMMA FollowedAlone ==
  ASSUME MInv, NEW r \in Requests, Step(r) \/ Fail(r),
         NEW s \in Requests \ {r}, At(s, "syncWrite")
  PROVE  vehicle'[req[s].vehicle].status = vehicle[req[s].vehicle].status
<1> DEFINE v == req[s].vehicle
<1>1. /\ TypeOK /\ RequestOK(req[r]) /\ Sensible(req[r]) /\ NoDoubleSale
  BY DEF MInv, IInv, RequestsOK, RequestsSensible
<1>2. /\ v \in Vehicles /\ req[s].quote \in DealsOf(v) /\ Active(deal[req[s].quote])
      /\ vehicle[v].status \notin EligibleForDeal
  BY FollowedIsActive
<1>3. ASSUME NEW w, NEW status, WriteVehicleStatus(w, status), w # v
      PROVE  vehicle'[v].status = vehicle[v].status
  BY <1>1, <1>2, <1>3 DEF WriteVehicleStatus, TypeOK
<1>4. CASE CreateDeal(r)
  <2>1. VehicleIndexFree(req[r].vehicle) /\ WriteVehicleStatus(req[r].vehicle, "IN_DEAL")
    BY <1>4 DEF CreateDeal, CreateSucceeds
  <2>2. req[r].vehicle # v
    BY <1>2, <2>1 DEF VehicleIndexFree
  <2> QED
    BY <1>3, <2>1, <2>2
<1>5. CASE SyncWrite(r)
  <2>1. /\ At(r, "syncWrite")
        /\ WriteVehicleStatus(req[r].vehicle, VehicleStatusFor(req[r].next))
    BY <1>5 DEF SyncWrite
  <2>2. /\ req[r].quote \in DealsOf(req[r].vehicle) /\ Active(deal[req[r].quote])
    BY <2>1, FollowedIsActive
  <2>3. req[r].quote # req[s].quote
    BY <2>1 DEF MInv, IInv, LockedRowIsAsChecked, At
  <2>4. req[r].vehicle # v
    BY <1>1, <1>2, <2>2, <2>3 DEF NoDoubleSale, DealsOf
  <2> QED
    BY <1>3, <2>1, <2>4
<1>6. CASE UpdateVehicle(r)
  <2>1. /\ vehicle[req[r].vehicle].status \in EligibleForDeal
        /\ WriteVehicleStatus(req[r].vehicle, req[r].next)
    BY <1>1, <1>6 DEF UpdateVehicle, At, Sensible, MInv, IInv, StaleReadIsRefused,
                      ReadIsTrueOrOvertaken, Matches
  <2> QED
    BY <1>2, <1>3, <2>1
<1>7. CASE UpdatePrice(r)
  BY <1>1, <1>2, <1>7, TypeParts DEF UpdatePrice, VehicleRows
<1>8. CASE UNCHANGED vehicle
  BY <1>8
<1> QED
  BY <1>4, <1>5, <1>6, <1>7, <1>8
     DEF Step, Fail, CreateConflict, AuditDeal, AcceptDealStatus, RejectDealStatus, UpdateDeal,
         LockDeal, DealConflict, SyncRead, AuditPayment, VehicleConflict, RecordEvent,
         AuditVehicle

\* A request comes to the write of the vehicle only from the read of its status.
LEMMA FollowedWhenRead ==
  ASSUME TypeOK, NEW r \in Requests, Start(r) \/ Step(r) \/ Fail(r), At(r, "syncWrite")'
  PROVE  /\ req'[r] = Following(req[r], vehicle[req[r].vehicle].status)
         /\ req[r] \in RequestType /\ UNCHANGED vehicle
<1>1. ASSUME NEW e, Become(r, e) PROVE e.stage = "syncWrite" /\ req'[r] = e
  BY <1>1 DEF Become, TypeOK, At
<1>2. /\ req[r] \in RequestType /\ Idle.stage = "idle"
      /\ \A stage, q, v : Logging(stage, q, v).stage = stage
  BY DEF TypeOK, Logging, Idle
<1>3. ~Start(r)
  BY <1>1, <1>2 DEF Start, ReadForCreate, ReadDeal, AddPayment, ReadVehicle, ReadVehicleForPrice
<1>4. ~(AcceptDealStatus(r) \/ LockDeal(r))
  <2>1. AcceptDealStatus(r) \/ LockDeal(r) =>
          \E stage \in {"casDeal", "syncRead"} : Become(r, [req[r] EXCEPT !.stage = stage])
    BY DEF AcceptDealStatus, LockDeal, Advance
  <2> QED
    BY <1>1, <1>2, <2>1 DEF RequestType, At
<1>5. SyncRead(r)
  <2>1. /\ ~Become(r, Idle)
        /\ \A stage, q, v : stage # "syncWrite" => ~Become(r, Logging(stage, q, v))
    BY <1>1, <1>2
  <2> QED
    BY <1>3, <1>4, <2>1 DEF Step, Fail, CreateDeal, CreateConflict, AuditDeal, RejectDealStatus,
       UpdateDeal, DealConflict, SyncWrite, AuditPayment, UpdateVehicle, UpdatePrice,
       VehicleConflict, RecordEvent, AuditVehicle, AfterConflict
<1> QED
  BY <1>1, <1>2, <1>5 DEF SyncRead

LEMMA FollowersStep ==
  ASSUME MInv, FollowersSawTruth, NEW r \in Requests, Start(r) \/ Step(r) \/ Fail(r)
  PROVE  FollowersSawTruth'
<1>1. TypeOK
  BY DEF MInv, IInv
<1>2. ASSUME NEW s \in Requests \ {r}, At(s, "syncWrite")'
      PROVE  vehicle'[req'[s].vehicle].status = req'[s].was
  <2>1. req'[s] = req[s] /\ At(s, "syncWrite")
    BY <1>1, <1>2, OthersWait DEF At
  <2>2. vehicle'[req[s].vehicle].status = vehicle[req[s].vehicle].status
    <3>1. CASE Start(r)
      BY <3>1 DEF Start, ReadForCreate, ReadDeal, AddPayment, ReadVehicle, ReadVehicleForPrice
    <3> QED
      BY <2>1, <3>1, FollowedAlone
  <2> QED
    BY <2>1, <2>2 DEF FollowersSawTruth
<1>3. ASSUME At(r, "syncWrite")'
      PROVE  vehicle'[req'[r].vehicle].status = req'[r].was
  <2>1. /\ req'[r] = Following(req[r], vehicle[req[r].vehicle].status)
        /\ req[r] \in RequestType /\ UNCHANGED vehicle
    BY <1>1, <1>3, FollowedWhenRead
  <2>2. req'[r].vehicle = req[r].vehicle /\ req'[r].was = vehicle[req[r].vehicle].status
    BY <2>1 DEF RequestType, Following
  <2> QED
    BY <2>1, <2>2
<1> QED
  BY <1>2, <1>3 DEF FollowersSawTruth, At

\* Under the same conditions a vehicle that follows its deal is logged with the
\* status it really left, although its row is written by id alone.
THEOREM EventsTellTheTruth ==
  ASSUME OnlyDealsMove
  PROVE  Spec => EventBeforeIsTrue
<1> DEFINE A == \A r \in Requests : At(r, "syncWrite") /\ req'[r].stage = "auditDeal" =>
                   vehicle[req[r].vehicle].status = req[r].was
<1>1. Init => MInv /\ FollowersSawTruth
  <2>1. Init => FollowersSawTruth
    BY IdleType DEF Init, FollowersSawTruth, At
  <2> QED
    BY <2>1, InitMirror
<1>2. MInv /\ FollowersSawTruth /\ [Next]_vars => (MInv /\ FollowersSawTruth)'
  <2>1. MInv /\ [Next]_vars => MInv'
    BY MirrorInvariance
  <2>2. ASSUME MInv, FollowersSawTruth, [Next]_vars PROVE FollowersSawTruth'
    <3>1. CASE UNCHANGED vars
      BY <2>2, <3>1 DEF vars, FollowersSawTruth, At
    <3> QED
      BY <2>2, <3>1, FollowersStep DEF Next
  <2> QED
    BY <2>1, <2>2
<1>3. FollowersSawTruth /\ [Next]_vars => [A]_vars
  BY DEF FollowersSawTruth
<1> QED
  BY <1>1, <1>2, <1>3, PTL DEF Spec, EventBeforeIsTrue

=============================================================================
