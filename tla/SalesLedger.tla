---------------------------- MODULE SalesLedger ----------------------------
(***************************************************************************)
(* What the sales side promises, with no requests, versions, locks or      *)
(* failures: each deal has a status that moves one listed step at a time,  *)
(* a vehicle is promised to one deal at a time, and a vehicle is handed    *)
(* over only against full payment.                                         *)
(***************************************************************************)
EXTENDS Integers, DealStatus

CONSTANTS Quotes, QuoteVehicle, SalePrice, Amounts

VARIABLES
  status,    \* of the deal opened from each quote, "NONE" before it is opened
  received   \* money received for each deal

ledger == <<status, received>>

Init ==
  /\ status = [q \in Quotes |-> "NONE"]
  /\ received = [q \in Quotes |-> 0]

Promised(v) ==
  \E q \in Quotes : QuoteVehicle[q] = v /\ status[q] \notin {"NONE", "CANCELLED"}

Open(q) ==
  /\ status[q] = "NONE"
  /\ ~Promised(QuoteVehicle[q])
  /\ status' = [status EXCEPT ![q] = "DRAFT"]
  /\ UNCHANGED received

Move(q, s) ==
  /\ <<status[q], s>> \in DealTransitions
  /\ s = "DELIVERED" => received[q] >= SalePrice[q]
  /\ status' = [status EXCEPT ![q] = s]
  /\ UNCHANGED received

Receive(q, a) ==
  /\ status[q] # "NONE"
  /\ received' = [received EXCEPT ![q] = @ + a]
  /\ UNCHANGED status

Next ==
  \E q \in Quotes :
    \/ Open(q)
    \/ \E s \in DealStatuses : Move(q, s)
    \/ \E a \in Amounts : Receive(q, a)

Spec == Init /\ [][Next]_ledger

=============================================================================
