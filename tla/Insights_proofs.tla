--------------------------- MODULE Insights_proofs ---------------------------
(***************************************************************************)
(* What a match and a report say, for any vehicles, leads and requests in  *)
(* flight, whatever the preferences, prices and cars are.                  *)
(***************************************************************************)
EXTENDS Insights, FiniteSetTheorems, TLAPS

Fit(l, v, price) == computeMatchScore(lead[l].prefs, CarOf[v], price)

\* Of the types, what a step must know of the things that it updates in place.
Entry(e) ==
  e \in [stage : Kinds \cup {"idle", "recompute"}, of : Leads \cup {Null},
         todo : SUBSET Vehicles, snapshot : {e.snapshot}, alone : BOOLEAN,
         since : {e.since}, first : {e.first}]
LeadRow == [status : LeadStatuses \cup {"NONE"}, prefs : PreferenceChoices \cup {Null}]
Shape ==
  /\ lead \in [Leads -> LeadRow]
  /\ match = [l \in Leads |-> [v \in Vehicles |-> match[l][v]]]
  /\ req = [r \in Requests |-> req[r]] /\ \A r \in Requests : Entry(req[r])

\* Matches are of leads that exist; what is offered now is among what was.
Grounded ==
  /\ \A l \in Leads, v \in Vehicles : match[l][v] # Null => HasLead(l)
  /\ \A v \in Vehicles : Offer(v) \subseteq offered[v]

\* What a recompute still has to write is of an offer; what it has written is
\* there while it is alone.
RecomputeOK(e) ==
  e.stage = "recompute" =>
    /\ e.of \in Leads /\ HasLead(e.of)
    /\ \A v \in e.todo : e.snapshot[v] \in offered[v]
    /\ \A v \in Vehicles :
         e.alone /\ e.snapshot[v] # Null /\ v \notin e.todo => match[e.of][v] = Fit(e.of, v, e.snapshot[v])

AloneIsAlone ==
  \A r, q \in Requests :
    At(r, "recompute") /\ At(q, "recompute") /\ req[r].alone /\ req[q].of = req[r].of => q = r

IInv == /\ Shape /\ Grounded /\ MatchesAreOfOffers /\ AloneIsAlone
        /\ \A r \in Requests : RecomputeOK(req[r])

-----------------------------------------------------------------------------
(* Writers *)

LeadsKept == \A l \in Leads : HasLead(l) => HasLead(l)' /\ lead'[l].prefs = lead[l].prefs
OffersGrow == \A v \in Vehicles : offered[v] \subseteq offered'[v] /\ Offer(v)' \subseteq offered'[v]

\* What a request knows stays true while rows only grow in this way.
LEMMA RecomputeKept ==
  ASSUME NEW e, RecomputeOK(e), Entry(e), LeadsKept, OffersGrow, match' = match
  PROVE  RecomputeOK(e)'
BY DEF RecomputeOK, Entry, LeadsKept, OffersGrow, Fit

LEMMA MatchesKept ==
  ASSUME IInv, LeadsKept, OffersGrow, match' = match
  PROVE  MatchesAreOfOffers' /\ Grounded'
<1>1. ASSUME NEW l \in Leads, NEW v \in Vehicles, match'[l][v] # Null
      PROVE  /\ HasLead(l)'
             /\ \E price \in offered'[v] :
                  match'[l][v] = computeMatchScore(lead'[l].prefs, CarOf[v], price)
  <2>1. HasLead(l) /\ lead'[l].prefs = lead[l].prefs /\ HasLead(l)'
    BY <1>1 DEF IInv, Grounded, LeadsKept
  <2>2. PICK price \in offered[v] : match[l][v] = computeMatchScore(lead[l].prefs, CarOf[v], price)
    BY <1>1 DEF IInv, MatchesAreOfOffers
  <2>3. price \in offered'[v]
    BY <2>2 DEF OffersGrow
  <2>4. QED
    BY <2>1, <2>2, <2>3
<1>2. \A v \in Vehicles : Offer(v)' \subseteq offered'[v]
  BY DEF OffersGrow
<1>3. QED
  BY <1>1, <1>2 DEF MatchesAreOfOffers, Grounded

LEMMA WriterKeeps ==
  ASSUME IInv, LeadsKept, OffersGrow, UNCHANGED <<match, req>>,
         lead' \in [Leads -> LeadRow]
  PROVE  IInv'
<1>1. Shape'
  BY DEF IInv, Shape, Entry
<1>2. MatchesAreOfOffers' /\ Grounded'
  BY MatchesKept
<1>3. AloneIsAlone'
  BY DEF IInv, AloneIsAlone, At
<1>4. ASSUME NEW r \in Requests PROVE RecomputeOK(req[r])'
  <2>1. PICK e : e = req[r] /\ RecomputeOK(e) /\ Entry(e)
    BY DEF IInv, Shape
  <2>2. RecomputeOK(e)'
    BY <2>1, RecomputeKept
  <2>3. QED
    BY <2>1, <2>2
<1>5. QED
  BY <1>1, <1>2, <1>3, <1>4 DEF IInv

LEMMA OfferedGrows == ASSUME Offered PROVE OffersGrow
BY DEF Offered, OffersGrow

LEMMA OfferedStays == ASSUME IInv, UNCHANGED <<vehicle, offered>> PROVE OffersGrow
BY DEF IInv, Grounded, OffersGrow, Offer

LEMMA WriterStep == ASSUME IInv, Writer PROVE IInv'
<1>1. CASE \/ \E v \in Vehicles, to \in VehicleStatuses : MoveVehicle(v, to)
           \/ \E v \in Vehicles, price \in Prices : SetListPrice(v, price)
  <2>1. Offered /\ UNCHANGED <<match, req, lead>>
    BY <1>1 DEF MoveVehicle, SetListPrice, Write
  <2>2. QED
    BY <2>1, OfferedGrows, WriterKeeps DEF LeadsKept, HasLead, IInv, Shape
<1>2. CASE \E l \in Leads, prefs \in PreferenceChoices : CreateLead(l, prefs)
  <2>1. PICK l \in Leads, prefs \in PreferenceChoices : CreateLead(l, prefs)
    BY <1>2
  <2>2. UNCHANGED <<vehicle, offered, match, req>>
    BY <2>1 DEF CreateLead, Write
  <2>3. /\ \A k \in Leads : k # l => lead'[k] = lead[k]
        /\ lead' \in [Leads -> LeadRow]
    BY <2>1 DEF CreateLead, IInv, Shape, LeadRow, LeadStatuses
  <2>4. LeadsKept
    BY <2>1, <2>3 DEF LeadsKept, HasLead, CreateLead
  <2>5. QED
    BY <2>2, <2>3, <2>4, OfferedStays, WriterKeeps
<1>3. CASE \E l \in Leads, to \in LeadTargets : MoveLead(l, to)
  <2>1. PICK l \in Leads, to \in LeadTargets : MoveLead(l, to)
    BY <1>3
  <2>2. UNCHANGED <<vehicle, offered, match, req>>
    BY <2>1 DEF MoveLead, Write
  <2>3. /\ \A k \in Leads : k # l => lead'[k] = lead[k]
        /\ lead'[l].prefs = lead[l].prefs /\ lead'[l].status = to
        /\ lead' \in [Leads -> LeadRow]
    BY <2>1, InsightsAssumption DEF MoveLead, IInv, Shape, LeadRow
  <2>4. LeadsKept
    BY <2>1, <2>3, InsightsAssumption DEF LeadsKept, HasLead, LeadStatuses
  <2>5. QED
    BY <2>2, <2>3, <2>4, OfferedStays, WriterKeeps
<1>4. CASE \/ \E d \in Deals : CreateDeal(d)
           \/ \E d \in Deals, to \in DealStatuses : MoveDeal(d, to)
  <2>1. UNCHANGED <<vehicle, offered, match, req, lead>>
    BY <1>4 DEF CreateDeal, MoveDeal, Write
  <2>2. QED
    BY <2>1, OfferedStays, WriterKeeps DEF LeadsKept, HasLead, IInv, Shape
<1>5. QED
  BY <1>1, <1>2, <1>3, <1>4 DEF Writer

-----------------------------------------------------------------------------
(* Readers *)

LEMMA Quiet ==
  ASSUME IInv, UNCHANGED <<tables, offered>>
  PROVE  LeadsKept /\ OffersGrow
BY OfferedStays DEF tables, LeadsKept, HasLead

\* A request that is no recompute afterwards.
LEMMA LeavesStep ==
  ASSUME IInv, NEW r \in Requests, NEW e, Become(r, e), Entry(e), e.stage # "recompute",
         UNCHANGED <<tables, match, offered>>
  PROVE  IInv'
<1>1. LeadsKept /\ OffersGrow
  BY Quiet
<1>2. req'[r] = e /\ \A q \in Requests : q # r => req'[q] = req[q]
  BY DEF IInv, Shape, Become
<1>3. Shape'
  <2>1. req' = [q \in Requests |-> req'[q]]
    BY DEF IInv, Shape, Become
  <2>2. (\A q \in Requests : Entry(req[q]))'
    BY <1>2 DEF IInv, Shape, Entry
  <2>3. QED
    BY <2>1, <2>2 DEF IInv, Shape, tables
<1>4. MatchesAreOfOffers' /\ Grounded'
  BY <1>1, MatchesKept
<1>5. AloneIsAlone'
  BY <1>2 DEF IInv, AloneIsAlone, At
<1>6. ASSUME NEW q \in Requests PROVE RecomputeOK(req[q])'
  <2>1. PICK d : d = req'[q] /\ RecomputeOK(d) /\ Entry(d)
    BY <1>2 DEF IInv, Shape, RecomputeOK
  <2>2. RecomputeOK(d)'
    BY <1>1, <2>1, RecomputeKept
  <2>3. QED
    BY <2>1, <2>2
<1>7. QED
  BY <1>3, <1>4, <1>5, <1>6 DEF IInv

LEMMA ReadStockStep ==
  ASSUME IInv, NEW r \in Requests, NEW l \in Leads, ReadStock(r, l)
  PROVE  IInv'
<1> DEFINE snapshot == [v \in Vehicles |-> IF v \in Matchable THEN vehicle[v].price ELSE Null]
           alone == \A q \in Requests : ~Recomputing(q, l)
           e == [Idle EXCEPT !.stage = "recompute", !.of = l, !.todo = Matchable,
                             !.snapshot = snapshot, !.alone = alone]
<1>1. LeadsKept /\ OffersGrow /\ match' = match
  BY Quiet DEF ReadStock
<1>2. /\ HasLead(l) /\ req[r].stage = "idle"
      /\ req'[r] = e
      /\ \A q \in Requests : q # r => req'[q] = IF Recomputing(q, l) THEN [req[q] EXCEPT !.alone = FALSE]
                                                ELSE req[q]
      /\ req' = [q \in Requests |-> req'[q]]
  BY DEF ReadStock, Join, At
<1>3. /\ e.stage = "recompute" /\ e.of = l /\ e.todo = Matchable /\ e.snapshot = snapshot
      /\ e.alone = alone /\ Entry(e)
  BY DEF Idle, Entry, Matchable
<1>4. ASSUME NEW q \in Requests, q # r
      PROVE  /\ req'[q].stage = req[q].stage /\ req'[q].of = req[q].of
             /\ req'[q].todo = req[q].todo /\ req'[q].snapshot = req[q].snapshot
             /\ req'[q].alone => req[q].alone /\ ~Recomputing(q, l)
             /\ Entry(req'[q])
  <2>1. PICK d : d = req[q] /\ Entry(d)
    BY DEF IInv, Shape
  <2>2. CASE Recomputing(q, l)
    <3>1. req'[q] = [d EXCEPT !.alone = FALSE]
      BY <1>2, <1>4, <2>1, <2>2
    <3>2. QED
      BY <2>1, <3>1 DEF Entry
  <2>3. CASE ~Recomputing(q, l)
    BY <1>2, <1>4, <2>1, <2>3
  <2>4. QED
    BY <2>2, <2>3
<1> HIDE DEF e
<1>5. Shape'
  <2>1. (\A q \in Requests : Entry(req[q]))'
    <3>1. ASSUME NEW q \in Requests PROVE Entry(req'[q])
      BY <1>2, <1>3, <1>4
    <3>2. QED
      BY <3>1 DEF Entry
  <2>2. QED
    BY <1>2, <2>1 DEF IInv, Shape, ReadStock, tables
<1>6. MatchesAreOfOffers' /\ Grounded'
  BY <1>1, MatchesKept
<1>7. AloneIsAlone'
  <2>1. ASSUME NEW p \in Requests, NEW q \in Requests, At(p, "recompute")', At(q, "recompute")',
               req'[p].alone, req'[q].of = req'[p].of
        PROVE  q = p
    <3>1. CASE p = r
      BY <1>2, <1>3, <1>4, <2>1, <3>1 DEF At, Recomputing
    <3>2. CASE p # r /\ q = r
      BY <1>2, <1>3, <1>4, <2>1, <3>2 DEF At, Recomputing
    <3>3. CASE p # r /\ q # r
      BY <1>4, <2>1, <3>3 DEF IInv, AloneIsAlone, At
    <3>4. QED
      BY <3>1, <3>2, <3>3
  <2>2. QED
    BY <2>1 DEF AloneIsAlone
<1>8. ASSUME NEW q \in Requests PROVE RecomputeOK(req[q])'
  <2>1. RecomputeOK(req'[q])
    <3>1. CASE q = r
      <4>1. \A v \in Matchable : snapshot[v] \in offered[v]
        BY DEF Matchable, IInv, Grounded, Offer
      <4>2. \A v \in Vehicles : snapshot[v] # Null => v \in Matchable
        OBVIOUS
      <4>3. QED
        BY <1>2, <1>3, <3>1, <4>1, <4>2 DEF RecomputeOK
    <3>2. CASE q # r
      <4>1. PICK d : d = req[q] /\ RecomputeOK(d)
        BY DEF IInv
      <4>2. PICK d2 : d2 = req'[q]
        OBVIOUS
      <4>3. /\ d2.stage = d.stage /\ d2.of = d.of /\ d2.todo = d.todo
            /\ d2.snapshot = d.snapshot /\ (d2.alone => d.alone)
        BY <1>4, <3>2, <4>1, <4>2
      <4>4. RecomputeOK(d2)
        BY <4>1, <4>3 DEF RecomputeOK
      <4>5. QED
        BY <4>2, <4>4
    <3>3. QED
      BY <3>1, <3>2
  <2>2. PICK d : d = req'[q] /\ RecomputeOK(d) /\ Entry(d)
    BY <1>2, <1>3, <1>4, <2>1
  <2>3. RecomputeOK(d)'
    BY <1>1, <2>2, RecomputeKept
  <2>4. QED
    BY <2>2, <2>3
<1>9. QED
  BY <1>5, <1>6, <1>7, <1>8 DEF IInv

\* Only the entry of one request and one match change.
LEMMA UpsertStep ==
  ASSUME IInv, NEW r \in Requests, NEW v \in Vehicles, Upsert(r, v)
  PROVE  IInv'
<1>1. PICK e : e = req[r] /\ RecomputeOK(e) /\ Entry(e)
  BY DEF IInv, Shape
<1> DEFINE l == e.of
           new == Fit(l, v, e.snapshot[v])
           d == [e EXCEPT !.todo = e.todo \ {v}]
<1>2. /\ e.stage = "recompute" /\ v \in e.todo
      /\ l \in Leads /\ HasLead(l) /\ e.snapshot[v] \in offered[v]
  BY <1>1 DEF Upsert, At, RecomputeOK
<1>3. match' = [match EXCEPT ![l][v] = new]
  BY <1>1 DEF Upsert, Upserted, Fit
<1>4. /\ match' = [k \in Leads |-> [w \in Vehicles |-> match'[k][w]]]
      /\ match'[l][v] = new
      /\ \A k \in Leads, w \in Vehicles : <<k, w>> # <<l, v>> => match'[k][w] = match[k][w]
  BY <1>2, <1>3 DEF IInv, Shape
<1>5. /\ req' = [q \in Requests |-> req'[q]] /\ req'[r] = d
      /\ \A q \in Requests : q # r => req'[q] = req[q]
  BY <1>1 DEF Upsert, Become, IInv, Shape
<1>6. /\ d.stage = "recompute" /\ d.of = l /\ d.todo = e.todo \ {v}
      /\ d.snapshot = e.snapshot /\ d.alone = e.alone /\ Entry(d)
  BY <1>1, <1>2 DEF Entry
<1>7. LeadsKept /\ OffersGrow /\ UNCHANGED tables /\ offered' = offered
  BY Quiet DEF Upsert
<1> HIDE DEF d, new
<1>8. Shape'
  <2>1. (\A q \in Requests : Entry(req[q]))'
    <3>1. ASSUME NEW q \in Requests PROVE Entry(req'[q])
      BY <1>5, <1>6 DEF IInv, Shape
    <3>2. QED
      BY <3>1 DEF Entry
  <2>2. QED
    BY <1>4, <1>5, <1>7, <2>1 DEF IInv, Shape, tables
<1>9. MatchesAreOfOffers' /\ Grounded'
  <2>1. ASSUME NEW k \in Leads, NEW w \in Vehicles, match'[k][w] # Null
        PROVE  /\ HasLead(k)'
               /\ \E price \in offered[w] :
                    match'[k][w] = computeMatchScore(lead'[k].prefs, CarOf[w], price)
    <3>1. CASE <<k, w>> = <<l, v>>
      BY <1>2, <1>4, <1>7, <3>1 DEF new, Fit, LeadsKept
    <3>2. CASE <<k, w>> # <<l, v>>
      <4>1. match[k][w] # Null /\ match'[k][w] = match[k][w]
        BY <1>4, <2>1, <3>2
      <4>2. HasLead(k) /\ lead'[k].prefs = lead[k].prefs /\ HasLead(k)'
        BY <1>7, <4>1 DEF IInv, Grounded, LeadsKept
      <4>3. QED
        BY <4>1, <4>2 DEF IInv, MatchesAreOfOffers
    <3>3. QED
      BY <3>1, <3>2
  <2>2. QED
    BY <1>7, <2>1 DEF MatchesAreOfOffers, Grounded, OffersGrow
<1>10. AloneIsAlone'
  BY <1>1, <1>2, <1>5, <1>6 DEF IInv, AloneIsAlone, At
<1>11. ASSUME NEW q \in Requests PROVE RecomputeOK(req[q])'
  <2>1. PICK old : old = req[q] /\ RecomputeOK(old) /\ Entry(old)
    BY DEF IInv, Shape
  <2>2. PICK e2 : e2 = req'[q]
    OBVIOUS
  <2>3. SUFFICES ASSUME e2.stage = "recompute" PROVE RecomputeOK(e2)'
    BY <2>2 DEF RecomputeOK
  <2>4. /\ old.stage = "recompute" /\ e2.of = old.of /\ e2.todo \subseteq old.todo
        /\ e2.snapshot = old.snapshot /\ e2.alone = old.alone
        /\ \A w \in Vehicles : w \notin e2.todo => w \notin old.todo \/ (q = r /\ w = v)
    <3>1. CASE q = r
      <4>1. old = e /\ e2 = d
        BY <1>1, <1>5, <2>1, <2>2, <3>1
      <4>2. \A w \in Vehicles : w \notin d.todo => w \notin e.todo \/ w = v
        BY <1>6
      <4>3. d.todo \subseteq e.todo
        BY <1>6
      <4>4. QED
        BY <1>2, <1>6, <3>1, <4>1, <4>2, <4>3
    <3>2. CASE q # r
      <4>1. e2 = old
        BY <1>5, <2>1, <2>2, <3>2
      <4>2. QED
        BY <2>3, <4>1
    <3>3. QED
      BY <3>1, <3>2
  <2>5. old.of \in Leads /\ HasLead(old.of) /\ (\A w \in e2.todo : old.snapshot[w] \in offered[w])
    BY <2>1, <2>4 DEF RecomputeOK
  <2>6. ASSUME NEW w \in Vehicles, old.alone, old.snapshot[w] # Null, w \notin e2.todo
        PROVE  match'[old.of][w] = Fit(old.of, w, old.snapshot[w])
    <3>1. CASE q = r /\ w = v
      BY <1>1, <1>4, <2>1, <3>1 DEF new
    <3>2. CASE q = r /\ w # v
      BY <1>1, <1>4, <2>1, <2>4, <2>5, <2>6, <3>2 DEF RecomputeOK
    <3>3. CASE q # r
      <4>1. old.of # l
        BY <1>1, <1>2, <2>1, <2>4, <2>6, <3>3 DEF IInv, AloneIsAlone, At
      <4>2. QED
        BY <1>4, <2>1, <2>4, <2>5, <2>6, <3>3, <4>1 DEF RecomputeOK
    <3>4. QED
      BY <3>1, <3>2, <3>3
  <2>7. \A w : Fit(old.of, w, old.snapshot[w])' = Fit(old.of, w, old.snapshot[w])
    BY <1>7, <2>5 DEF Fit, LeadsKept
  <2>8. HasLead(old.of)'
    BY <1>7, <2>5 DEF LeadsKept
  <2>9. QED
    BY <1>7, <2>3, <2>4, <2>5, <2>6, <2>7, <2>8 DEF RecomputeOK
<1>12. QED
  BY <1>8, <1>9, <1>10, <1>11 DEF IInv

-----------------------------------------------------------------------------
LEMMA IdleShape == Entry(Idle) /\ Idle.stage = "idle"
BY DEF Idle, Entry

LEMMA ReaderStep ==
  ASSUME IInv, NEW r \in Requests, Reader(r)
  PROVE  IInv'
<1>1. CASE \E l \in Leads : ReadStock(r, l)
  BY <1>1, ReadStockStep
<1>2. CASE \E v \in Vehicles : Upsert(r, v)
  BY <1>2, UpsertStep
<1>3. CASE AnswerMatches(r) \/ AnswerReport(r)
  BY <1>3, IdleShape, LeavesStep DEF AnswerMatches, AnswerReport
<1>4. CASE QueryVehicles(r) \/ QueryDeals(r) \/ QueryLeads(r)
  <2>0. PICK kind \in Kinds : \E answer : FirstQuery(r, kind, answer)
    BY <1>4 DEF QueryVehicles, QueryDeals, QueryLeads, Kinds
  <2>1. PICK answer : FirstQuery(r, kind, answer)
    BY <2>0
  <2> DEFINE e == [Idle EXCEPT !.stage = kind, !.since = writes, !.first = answer]
  <2>2. Entry(e) /\ e.stage # "recompute"
    BY DEF Idle, Entry, Kinds
  <2>3. QED
    BY <2>1, <2>2, LeavesStep DEF FirstQuery
<1>5. QED
  BY <1>1, <1>2, <1>3, <1>4 DEF Reader

LEMMA InvInit == Init => IInv
<1>1. SUFFICES ASSUME Init PROVE IInv
  OBVIOUS
<1>2. Shape
  BY <1>1, IdleShape DEF Init, Shape, LeadRow
<1>3. \A r \in Requests : ~At(r, "recompute") /\ RecomputeOK(req[r])
  BY <1>1, IdleShape DEF Init, At, RecomputeOK
<1>4. Grounded /\ MatchesAreOfOffers
  BY <1>1 DEF Init, Grounded, MatchesAreOfOffers
<1>5. QED
  BY <1>2, <1>3, <1>4 DEF IInv, AloneIsAlone

LEMMA InvStep == IInv /\ [Next]_vars => IInv'
<1>1. ASSUME IInv, UNCHANGED vars PROVE IInv'
  <2>1. UNCHANGED <<match, req, lead, vehicle, offered>>
    BY <1>1 DEF vars
  <2>2. QED
    BY <1>1, <2>1, OfferedStays, WriterKeeps DEF LeadsKept, HasLead, IInv, Shape
<1>2. QED
  BY <1>1, WriterStep, ReaderStep DEF Next

LEMMA Inductive == Spec => []IInv
<1>1. QED
  BY InvInit, InvStep, PTL DEF Spec

\* matches.service.ts:23: a match is the score of its lead and its vehicle for a
\* price the vehicle was on offer for, whoever writes while it is computed.
THEOREM MatchesGrounded == Spec => []MatchesAreOfOffers
<1>1. IInv => MatchesAreOfOffers
  BY DEF IInv
<1>2. QED
  BY <1>1, Inductive, PTL

\* A recompute ends only when nothing is left to write.
LEMMA AnswersWhenDone ==
  ASSUME IInv, Next, NEW r \in Requests, At(r, "recompute"), Answers(r)
  PROVE  req[r].todo = {}
<1>1. PICK e : e = req[r] /\ Entry(e) /\ e.stage = "recompute" /\ req'[r].stage = "idle"
  BY DEF IInv, Shape, At, Answers
<1>2. CASE Writer
  <2>1. req' = req
    BY <1>2 DEF Writer, MoveVehicle, SetListPrice, CreateLead, MoveLead, CreateDeal, MoveDeal, Write
  <2>2. QED
    BY <1>1, <2>1
<1>3. ASSUME NEW q \in Requests, Reader(q) PROVE req[r].todo = {}
  <2>1. CASE \E l \in Leads : ReadStock(q, l)
    <3>1. PICK l \in Leads : ReadStock(q, l)
      BY <2>1
    <3>2. q # r /\ (req'[r] = [e EXCEPT !.alone = FALSE] \/ req'[r] = e)
      BY <1>1, <3>1 DEF ReadStock, Join, At
    <3>3. QED
      BY <1>1, <3>2 DEF Entry
  <2>2. CASE \E v \in Vehicles : Upsert(q, v)
    <3>1. req'[r] = e \/ \E T : req'[r] = [e EXCEPT !.todo = T]
      BY <1>1, <2>2 DEF Upsert, Become, IInv, Shape
    <3>2. QED
      BY <1>1, <3>1 DEF Entry
  <2>3. CASE AnswerMatches(q)
    BY <1>1, <2>3 DEF AnswerMatches, Become, IInv, Shape
  <2>4. CASE AnswerReport(q) \/ QueryVehicles(q) \/ QueryDeals(q) \/ QueryLeads(q)
    <3>1. q # r /\ req'[r] = req[r]
      BY <1>1, <2>4 DEF AnswerReport, QueryVehicles, QueryDeals, QueryLeads, FirstQuery, At,
                        Become, IInv, Shape
    <3>2. QED
      BY <1>1, <3>1
  <2>5. QED
    BY <1>3, <2>1, <2>2, <2>3, <2>4 DEF Reader
<1>4. QED
  BY <1>2, <1>3 DEF Next

\* matches.service.ts:41: a recompute that no other of its lead overlapped leaves
\* what it computed, for any number of vehicles and of recomputes of other leads.
THEOREM RecomputeKeepsItsWord == Spec => RecomputeIsNotLost
<1>1. ASSUME IInv, NEW r \in Requests, Answers(r), At(r, "recompute"), req[r].alone, Next,
             NEW v \in Vehicles, req[r].snapshot[v] # Null
      PROVE  match[req[r].of][v] = Fit(req[r].of, v, req[r].snapshot[v])
  <2>1. req[r].todo = {}
    BY <1>1, AnswersWhenDone
  <2>2. QED
    BY <1>1, <2>1 DEF IInv, RecomputeOK, At
<1>2. IInv /\ [Next]_vars => [\A r \in Requests :
       Answers(r) /\ At(r, "recompute") /\ req[r].alone =>
         \A v \in Vehicles :
           req[r].snapshot[v] # Null =>
             match[req[r].of][v]
               = computeMatchScore(lead[req[r].of].prefs, CarOf[v], req[r].snapshot[v])]_vars
  BY <1>1 DEF Fit
<1>3. QED
  BY <1>2, Inductive, PTL DEF Spec, RecomputeIsNotLost

-----------------------------------------------------------------------------
(* The score *)

\* Rounding: the integer below a fraction.
LEMMA Floor ==
  ASSUME NEW a \in Int, NEW b \in Nat \ {0}
  PROVE  FloorOf(a, b) \in Int /\ (a >= 0 => FloorOf(a, b) >= 0)
BY DEF FloorOf

LEMMA FloorBelow ==
  ASSUME NEW a \in Int, NEW b \in Nat \ {0}, NEW n \in Nat, a < b * n + b
  PROVE  FloorOf(a, b) <= n
BY DEF FloorOf

LEMMA FloorOrdered ==
  ASSUME NEW a \in Int, NEW c \in Int, NEW b \in Nat \ {0}, a <= c
  PROVE  FloorOf(a, b) <= FloorOf(c, b)
BY DEF FloorOf

LEMMA FalloffType ==
  ASSUME NEW weight \in Nat, NEW excess \in Int, NEW limit \in Int
  PROVE  proportionalFalloff(weight, excess, limit) \in Nat
<1>1. CASE limit > 0
  <2>1. 2 * limit \in Nat \ {0} /\ 2 * weight * (limit - 2 * excess) + limit \in Int
    BY <1>1
  <2>2. FloorOf(2 * weight * (limit - 2 * excess) + limit, 2 * limit) \in Int
    BY <2>1, Floor
  <2> QED
    BY <1>1, <2>2 DEF proportionalFalloff
<1>2. CASE limit < 0
  <2>1. -2 * limit \in Nat \ {0} /\ 2 * weight * (2 * excess - limit) - limit \in Int
    BY <1>2
  <2>2. FloorOf(2 * weight * (2 * excess - limit) - limit, -2 * limit) \in Int
    BY <2>1, Floor
  <2> QED
    BY <1>2, <2>2 DEF proportionalFalloff
<1>3. CASE limit = 0
  BY <1>3 DEF proportionalFalloff
<1> QED
  BY <1>1, <1>2, <1>3

\* A criterion that falls off never earns more than its weight, unless the
\* limit is negative.
LEMMA FalloffBound ==
  ASSUME NEW weight \in Nat, NEW excess \in Nat \ {0}, NEW limit \in Nat
  PROVE  proportionalFalloff(weight, excess, limit) \in 0..weight
<1>1. CASE limit > 0
  <2> DEFINE a == 2 * weight * (limit - 2 * excess) + limit
             b == 2 * limit
  <2>1. b \in Nat \ {0} /\ a \in Int /\ a < b * weight + b
    BY <1>1
  <2>2. FloorOf(a, b) <= weight /\ FloorOf(a, b) \in Int
    <3> HIDE DEF a, b
    <3> QED
      BY <2>1, Floor, FloorBelow
  <2> QED
    BY <1>1, <2>2 DEF proportionalFalloff
<1>2. CASE limit = 0
  BY <1>2 DEF proportionalFalloff
<1> QED
  BY <1>1, <1>2

LEMMA BudgetLine ==
  ASSUME NEW prefs \in PreferenceChoices, NEW price \in Prices
  PROVE  /\ scoreBudget(prefs, price) \in Nat
         /\ NotNegative(prefs) => scoreBudget(prefs, price) \in 0..25
<1>1. /\ prefs.budgetMin \in Int \cup {Null} /\ prefs.budgetMax \in Int \cup {Null}
      /\ price \in Nat
  BY InsightsAssumption DEF Preferences
<1>2. CASE prefs.budgetMax # Null /\ price > prefs.budgetMax
  <2>1. prefs.budgetMax \in Int /\ price - prefs.budgetMax \in Nat \ {0}
    BY <1>1, <1>2
  <2>2. \/ scoreBudget(prefs, price)
             = proportionalFalloff(25, price - prefs.budgetMax, prefs.budgetMax)
        \/ scoreBudget(prefs, price) = 0
    BY <1>2 DEF scoreBudget
  <2>3. NotNegative(prefs) => prefs.budgetMax \in Nat
    BY <1>2, <2>1 DEF NotNegative
  <2>4. proportionalFalloff(25, price - prefs.budgetMax, prefs.budgetMax) \in Nat
    <3>1. price - prefs.budgetMax \in Int /\ 25 \in Nat
      BY <2>1
    <3> QED
      BY <2>1, <3>1, FalloffType, Zenon
  <2>5. NotNegative(prefs) =>
          proportionalFalloff(25, price - prefs.budgetMax, prefs.budgetMax) \in 0..25
    BY <2>1, <2>3, FalloffBound
  <2> QED
    BY <2>2, <2>4, <2>5
<1>3. CASE /\ ~(prefs.budgetMax # Null /\ price > prefs.budgetMax)
           /\ prefs.budgetMin # Null /\ price < prefs.budgetMin
  <2>1. prefs.budgetMin \in Int /\ prefs.budgetMin - price \in Nat \ {0}
    BY <1>1, <1>3
  <2>2. \/ scoreBudget(prefs, price)
             = proportionalFalloff(25, prefs.budgetMin - price, prefs.budgetMin)
        \/ scoreBudget(prefs, price) = 0
    BY <1>3 DEF scoreBudget
  <2>3. prefs.budgetMin \in Nat
    BY <1>1, <1>3
  <2>4. proportionalFalloff(25, prefs.budgetMin - price, prefs.budgetMin) \in 0..25
    BY <2>1, <2>3, FalloffBound
  <2> QED
    BY <2>2, <2>4
<1>4. CASE /\ ~(prefs.budgetMax # Null /\ price > prefs.budgetMax)
           /\ ~(prefs.budgetMin # Null /\ price < prefs.budgetMin)
  <2>1. scoreBudget(prefs, price) \in {0, 25}
    BY <1>4 DEF scoreBudget
  <2> QED
    BY <2>1
<1> QED
  BY <1>2, <1>3, <1>4

LEMMA MileageLine ==
  ASSUME NEW prefs \in PreferenceChoices, NEW v \in Vehicles
  PROVE  /\ scoreMileage(prefs, CarOf[v]) \in Nat
         /\ NotNegative(prefs) => scoreMileage(prefs, CarOf[v]) \in 0..10
<1> DEFINE km == CarOf[v].mileageKm
<1>1. km \in Int \cup {Null} /\ prefs.mileageMax \in Int \cup {Null}
  BY InsightsAssumption DEF Preferences, Cars
<1>2. CASE prefs.mileageMax = Null \/ km = Null \/ km <= prefs.mileageMax
  <2>1. scoreMileage(prefs, CarOf[v]) \in {0, 10}
    BY <1>2 DEF scoreMileage
  <2> QED
    BY <2>1
<1>3. CASE prefs.mileageMax # Null /\ km # Null /\ ~(km <= prefs.mileageMax)
  <2>1. prefs.mileageMax \in Int /\ km - prefs.mileageMax \in Nat \ {0}
    BY <1>1, <1>3
  <2>2. scoreMileage(prefs, CarOf[v])
          = proportionalFalloff(10, km - prefs.mileageMax, prefs.mileageMax)
    BY <1>3 DEF scoreMileage
  <2>3. NotNegative(prefs) => prefs.mileageMax \in Nat
    BY <1>3, <2>1 DEF NotNegative
  <2>4. proportionalFalloff(10, km - prefs.mileageMax, prefs.mileageMax) \in Nat
    <3>1. km - prefs.mileageMax \in Int /\ 10 \in Nat
      BY <2>1
    <3> QED
      BY <2>1, <3>1, FalloffType, Zenon
  <2>5. NotNegative(prefs) =>
          proportionalFalloff(10, km - prefs.mileageMax, prefs.mileageMax) \in 0..10
    BY <2>1, <2>3, FalloffBound
  <2> QED
    BY <2>2, <2>4, <2>5
<1> QED
  BY <1>2, <1>3

\* A score is a percentage, and the sum of its eight lines unless a limit is negative.
LEMMA ScoreIsResult ==
  ASSUME NEW prefs \in PreferenceChoices, NEW v \in Vehicles, NEW price \in Prices
  PROVE  LET result == computeMatchScore(prefs, CarOf[v], price)
         IN  /\ result \in Results
             /\ NotNegative(prefs) => result.score = Sum(result.explanation)
<1> DEFINE a == scoreBudget(prefs, price)
           b == scoreManufacturerModel(prefs, CarOf[v])
           c == scoreYear(prefs, CarOf[v])
           d == scoreMileage(prefs, CarOf[v])
           e == scoreExactTextField(15, prefs.bodyType, CarOf[v].bodyType)
           f == scoreExactTextField(5, prefs.gearbox, CarOf[v].gearbox)
           g == scoreExactTextField(5, prefs.fuelType, CarOf[v].fuelType)
           h == scoreExactTextField(5, prefs.color, CarOf[v].color)
           lines == <<a, b, c, d, e, f, g, h>>
           result == computeMatchScore(prefs, CarOf[v], price)
<1>1. result = [score |-> Clamp(Sum(lines)), explanation |-> lines]
  BY DEF computeMatchScore
<1>2. a \in Nat /\ d \in Nat /\ (NotNegative(prefs) => a \in 0..25 /\ d \in 0..10)
  BY BudgetLine, MileageLine
<1>3. b \in 0..25 /\ c \in 0..10
  BY DEF scoreManufacturerModel, scoreYear
<1>4. e \in 0..15 /\ f \in 0..5 /\ g \in 0..5 /\ h \in 0..5
  BY DEF scoreExactTextField
<1> HIDE DEF a, b, c, d, e, f, g, h, result
<1>5. lines \in [1..8 -> Nat] /\ Sum(lines) = a + b + c + d + e + f + g + h
  BY <1>2, <1>3, <1>4 DEF Sum
<1>6. Sum(lines) \in Nat /\ (NotNegative(prefs) => Sum(lines) \in 0..100)
  BY <1>2, <1>3, <1>4, <1>5
<1> HIDE DEF lines
<1>7. Clamp(Sum(lines)) \in 0..100 /\ (NotNegative(prefs) => Clamp(Sum(lines)) = Sum(lines))
  BY <1>6 DEF Clamp
<1>8. result \in Results /\ (NotNegative(prefs) => result.score = Sum(result.explanation))
  BY <1>1, <1>5, <1>7 DEF Results
<1> QED
  BY <1>8 DEF result

-----------------------------------------------------------------------------
(* What is scored: preferences that were stated, for prices that were listed *)

VehicleRow == [status : VehicleStatuses, price : Prices \cup {Null}]
Stated(row) == row.status # "NONE" => row.prefs \in PreferenceChoices
Priced ==
  /\ vehicle \in [Vehicles -> VehicleRow]
  /\ \A v \in Vehicles : Offer(v) \subseteq Prices
  /\ offered \in [Vehicles -> SUBSET Prices]
  /\ \A l \in Leads : Stated(lead[l])
PInv == IInv /\ Priced

LEMMA OffersListed ==
  ASSUME Priced, Offered, vehicle' \in [Vehicles -> VehicleRow],
         \A v \in Vehicles : Offer(v)' \subseteq Prices, lead' = lead
  PROVE  Priced'
<1>1. offered' \in [Vehicles -> SUBSET Prices]
  BY DEF Priced, Offered
<1> QED
  BY <1>1 DEF Priced

LEMMA PricedStep == PInv /\ [Next]_vars => Priced'
<1> SUFFICES ASSUME PInv, [Next]_vars PROVE Priced'
  OBVIOUS
<1>1. Priced /\ Shape
  BY DEF PInv, IInv
<1>2. ASSUME NEW v \in Vehicles, NEW to \in VehicleStatuses, MoveVehicle(v, to) PROVE Priced'
  <2>1. /\ vehicle' \in [Vehicles -> VehicleRow] /\ lead' = lead /\ Offered
        /\ vehicle'[v].price = vehicle[v].price /\ vehicle'[v].status = to
        /\ \A w \in Vehicles \ {v} : vehicle'[w] = vehicle[w]
    BY <1>1, <1>2 DEF MoveVehicle, Priced, VehicleRow
  <2>2. vehicle[v].price \in Prices \cup {Null} /\ (to = "AVAILABLE" => vehicle[v].price # Null)
    BY <1>1, <1>2 DEF MoveVehicle, ValidVehicleTransition, MissesListPrice, Priced, VehicleRow
  <2>3. ASSUME NEW w \in Vehicles PROVE Offer(w)' \subseteq Prices
    BY <1>1, <2>1, <2>2 DEF Offer, Priced
  <2> QED
    BY <1>1, <2>1, <2>3, OffersListed
<1>3. ASSUME NEW v \in Vehicles, NEW price \in Prices, SetListPrice(v, price) PROVE Priced'
  <2>1. /\ vehicle' \in [Vehicles -> VehicleRow] /\ lead' = lead /\ Offered
        /\ vehicle'[v].price = price
        /\ \A w \in Vehicles \ {v} : vehicle'[w] = vehicle[w]
    BY <1>1, <1>3 DEF SetListPrice, Priced, VehicleRow
  <2>2. ASSUME NEW w \in Vehicles PROVE Offer(w)' \subseteq Prices
    BY <1>1, <2>1 DEF Offer, Priced
  <2> QED
    BY <1>1, <2>1, <2>2, OffersListed
\* Everybody else writes no vehicle, and a lead only with preferences of its own.
<1>4. ASSUME vehicle' = vehicle, offered' = offered, \A l \in Leads : Stated(lead'[l])
      PROVE  Priced'
  BY <1>1, <1>4 DEF Priced, Offer, Stated
<1>5. ASSUME NEW l \in Leads, NEW prefs \in PreferenceChoices, CreateLead(l, prefs)
      PROVE  Priced'
  BY <1>1, <1>4, <1>5 DEF CreateLead, Shape, Priced, Stated
<1>6. ASSUME NEW l \in Leads, NEW to, MoveLead(l, to) PROVE Priced'
  <2>1. Stated(lead[l]) /\ lead[l].status # "NONE" /\ lead[l].prefs \in PreferenceChoices
    BY <1>1, <1>6 DEF MoveLead, Priced, Stated
  <2>2. /\ lead'[l].prefs = lead[l].prefs
        /\ \A k \in Leads \ {l} : lead'[k] = lead[k]
        /\ UNCHANGED <<vehicle, offered>>
    BY <1>1, <1>6 DEF MoveLead, Shape
  <2> QED
    BY <1>1, <1>4, <2>1, <2>2 DEF Priced, Stated
<1>7. ASSUME NEW d \in Deals,
             CreateDeal(d) \/ (\E to \in DealStatuses : MoveDeal(d, to))
      PROVE  Priced'
  BY <1>1, <1>4, <1>7 DEF CreateDeal, MoveDeal, Priced
<1>8. CASE Writer
  BY <1>2, <1>3, <1>5, <1>6, <1>7, <1>8 DEF Writer
<1>9. ASSUME NEW r \in Requests, Reader(r) PROVE Priced'
  <2>1. UNCHANGED <<tables, offered>>
    BY <1>9 DEF Reader, ReadStock, Upsert, AnswerMatches, QueryVehicles, QueryDeals, QueryLeads,
       FirstQuery, AnswerReport
  <2> QED
    BY <1>1, <1>4, <2>1 DEF tables, Priced
<1>10. CASE UNCHANGED vars
  BY <1>1, <1>4, <1>10 DEF vars, Priced
<1> QED
  BY <1>8, <1>9, <1>10 DEF Next

LEMMA PricedInductive == Spec => []PInv
<1>1. Init => Priced
  <2> SUFFICES ASSUME Init PROVE Priced
    OBVIOUS
  <2>1. vehicle \in [Vehicles -> VehicleRow] /\ \A l \in Leads : Stated(lead[l])
    BY InsightsAssumption DEF Init, VehicleRow, Stated
  <2>2. \A v \in Vehicles : Offer(v) \subseteq Prices
    BY InsightsAssumption DEF Init, Offer
  <2> QED
    BY <2>1, <2>2 DEF Init, Priced
<1> QED
  BY <1>1, PricedStep, InvInit, InvStep, PTL DEF Spec, PInv

\* Every match is of stated preferences and a listed price.
LEMMA MatchIsScore ==
  ASSUME PInv, NEW l \in Leads, NEW v \in Vehicles, match[l][v] # Null
  PROVE  /\ lead[l].prefs \in PreferenceChoices
         /\ \E price \in Prices : match[l][v] = computeMatchScore(lead[l].prefs, CarOf[v], price)
<1>1. lead[l].prefs \in PreferenceChoices
  BY DEF PInv, IInv, Grounded, HasLead, Priced, Stated
<1>2. PICK price \in offered[v] : match[l][v] = computeMatchScore(lead[l].prefs, CarOf[v], price)
  BY DEF PInv, IInv, MatchesAreOfOffers
<1>3. price \in Prices
  BY <1>2 DEF PInv, Priced
<1> QED
  BY <1>1, <1>2, <1>3

\* match-score.ts:190: the lines of a match add up to its score, for all numbers
\* that leads, cars and prices may hold, if the lead states no negative limit:
\* such a limit makes a line exceed its weight, and the score is cut to 100.
THEOREM MatchesExplained == Spec => []MatchExplainsItself
<1>1. PInv => MatchExplainsItself
  <2> SUFFICES ASSUME PInv, NEW l \in Leads, NEW v \in Vehicles, match[l][v] # Null,
                      NotNegative(lead[l].prefs)
               PROVE  match[l][v].score = Sum(match[l][v].explanation)
    BY DEF MatchExplainsItself
  <2>1. /\ lead[l].prefs \in PreferenceChoices
        /\ \E price \in Prices : match[l][v] = computeMatchScore(lead[l].prefs, CarOf[v], price)
    BY MatchIsScore
  <2> QED
    BY <2>1, ScoreIsResult
<1> QED
  BY <1>1, PricedInductive, PTL

-----------------------------------------------------------------------------
(* Types *)

RequestRow == [stage : Kinds \cup {"idle", "recompute"},
               of : Leads \cup {Null}, todo : SUBSET Vehicles,
               snapshot : [Vehicles -> Prices \cup {Null}], alone : BOOLEAN,
               since : Nat, first : FirstAnswers]
Rest ==
  /\ deal \in [Deals -> DealStatuses \cup {"NONE"}]
  /\ req \in [Requests -> RequestRow]
  /\ writes \in Nat

FiniteTables == IsFiniteSet(Vehicles) /\ IsFiniteSet(Leads) /\ IsFiniteSet(Deals)

LEMMA CountType ==
  ASSUME NEW S, IsFiniteSet(S), NEW T, T \subseteq S
  PROVE  Cardinality(T) \in Nat
BY FS_Subset, FS_CardinalityType

\* What the first queries of the reports answer.
LEMMA AnswerTypes ==
  ASSUME FiniteTables, NEW s
  PROVE  /\ VehiclesIn(s) \in Nat /\ DealsIn(s) \in Nat /\ LeadsIn(s) \in Nat
         /\ StatusCount \in Nat
<1>1. VehiclesIn(s) \in Nat
  BY CountType DEF FiniteTables, VehiclesIn, Count
<1>2. DealsIn(s) \in Nat
  BY CountType DEF FiniteTables, DealsIn, Count
<1>3. LeadsIn(s) \in Nat
  BY CountType DEF FiniteTables, LeadsIn, Count
<1>4. StatusCount \in Nat
  BY CountType DEF FiniteTables, StatusCount, Count
<1> QED
  BY <1>1, <1>2, <1>3, <1>4

\* A rate is never rounded above 100 percent.
LEMMA RateType ==
  ASSUME NEW won \in Nat, NEW lost \in Nat
  PROVE  conversionRate(won, lost) \in 0..1000
<1>1. CASE won + lost = 0
  BY <1>1 DEF conversionRate
<1>2. CASE won + lost # 0
  <2> DEFINE a == 2 * 1000 * won + won + lost
             b == 2 * (won + lost)
  <2>1. b \in Nat \ {0} /\ a \in Nat /\ a < b * 1000 + b
    BY <1>2
  <2>2. FloorOf(a, b) \in 0..1000
    <3> HIDE DEF a, b
    <3>1. FloorOf(a, b) \in Nat
      BY <2>1, Floor
    <3>2. FloorOf(a, b) <= 1000
      BY <2>1, FloorBelow
    <3> QED
      BY <3>1, <3>2
  <2> QED
    BY <1>2, <2>2 DEF conversionRate
<1> QED
  BY <1>1, <1>2

LEMMA RestStep ==
  ASSUME FiniteTables
  PROVE  PInv /\ Rest /\ [Next]_vars => Rest'
<1> SUFFICES ASSUME PInv, Rest, [Next]_vars PROVE Rest'
  OBVIOUS
<1>1. ASSUME UNCHANGED <<req, deal>>, writes' \in Nat PROVE Rest'
  BY <1>1 DEF Rest
<1>2. ASSUME NEW r \in Requests, NEW e \in RequestRow, Become(r, e), UNCHANGED <<deal, writes>>
      PROVE  Rest'
  BY <1>2 DEF Rest, Become
<1>3. Idle \in RequestRow /\ Idle.snapshot = [v \in Vehicles |-> Null] /\ writes \in Nat
  BY DEF Idle, RequestRow, Rest, FirstAnswers
<1>4. CASE \E v \in Vehicles : \/ \E to \in VehicleStatuses : MoveVehicle(v, to)
                               \/ \E price \in Prices : SetListPrice(v, price)
  BY <1>1, <1>3, <1>4 DEF MoveVehicle, SetListPrice, Write
<1>5. CASE \E l \in Leads :
             \/ \E prefs \in PreferenceChoices : CreateLead(l, prefs)
             \/ \E to \in LeadTargets : MoveLead(l, to)
  BY <1>1, <1>3, <1>5 DEF CreateLead, MoveLead, Write
<1>6. CASE \E d \in Deals : CreateDeal(d) \/ \E to \in DealStatuses : MoveDeal(d, to)
  <2>1. req' = req /\ writes' \in Nat
    <3>1. Write
      BY <1>6 DEF CreateDeal, MoveDeal
    <3> QED
      BY <1>3, <3>1 DEF Write
  <2>2. ASSUME NEW d \in Deals, CreateDeal(d)
        PROVE  deal' \in [Deals -> DealStatuses \cup {"NONE"}]
    BY <2>2 DEF CreateDeal, Rest, DealStatuses
  <2>3. ASSUME NEW d \in Deals, NEW to \in DealStatuses, MoveDeal(d, to)
        PROVE  deal' \in [Deals -> DealStatuses \cup {"NONE"}]
    BY <2>3 DEF MoveDeal, Rest
  <2> QED
    BY <1>6, <2>1, <2>2, <2>3 DEF Rest
<1>7. ASSUME NEW r \in Requests, NEW l \in Leads, ReadStock(r, l) PROVE Rest'
  <2> DEFINE snapshot == [v \in Vehicles |-> IF v \in Matchable THEN vehicle[v].price ELSE Null]
             alone == \A q \in Requests : ~Recomputing(q, l)
             e == [Idle EXCEPT !.stage = "recompute", !.of = l, !.todo = Matchable,
                               !.snapshot = snapshot, !.alone = alone]
  <2>1. snapshot \in [Vehicles -> Prices \cup {Null}]
    BY DEF PInv, Priced, VehicleRow
  <2>2. alone \in BOOLEAN /\ Matchable \in SUBSET Vehicles
    BY DEF Matchable
  <2>3. e \in RequestRow
    <3> HIDE DEF snapshot, alone
    <3> QED
      BY <1>3, <2>1, <2>2 DEF RequestRow
  <2>4. ASSUME NEW q \in Requests
        PROVE  (IF q = r THEN e ELSE IF Recomputing(q, l) THEN [req[q] EXCEPT !.alone = FALSE]
                ELSE req[q]) \in RequestRow
    <3>1. req[q] \in RequestRow /\ [req[q] EXCEPT !.alone = FALSE] \in RequestRow
      BY DEF Rest, RequestRow
    <3> HIDE DEF e
    <3> QED
      BY <2>3, <3>1
  <2> HIDE DEF e
  <2>5. req' \in [Requests -> RequestRow]
    BY <1>7, <2>4 DEF ReadStock, Join, e
  <2> QED
    BY <1>7, <2>5 DEF ReadStock, tables, Rest
<1>8. ASSUME NEW r \in Requests, NEW v \in Vehicles, Upsert(r, v) PROVE Rest'
  <2> DEFINE e == [req[r] EXCEPT !.todo = @ \ {v}]
  <2>1. e \in RequestRow
    BY DEF Rest, RequestRow
  <2>2. Become(r, e) /\ UNCHANGED <<deal, writes>>
    BY <1>8 DEF Upsert, tables
  <2> QED
    BY <1>2, <2>1, <2>2
<1>9. ASSUME NEW r \in Requests, AnswerMatches(r) \/ AnswerReport(r) PROVE Rest'
  BY <1>2, <1>3, <1>9 DEF AnswerMatches, AnswerReport, tables
<1>10. ASSUME NEW r \in Requests, NEW kind \in Kinds, NEW answer \in FirstAnswers,
              FirstQuery(r, kind, answer)
       PROVE  Rest'
  <2> DEFINE e == [Idle EXCEPT !.stage = kind, !.since = writes, !.first = answer]
  <2>1. e \in RequestRow
    BY <1>3 DEF RequestRow
  <2>2. Become(r, e) /\ UNCHANGED <<deal, writes>>
    BY <1>10 DEF FirstQuery, tables
  <2> QED
    BY <1>2, <2>1, <2>2
<1>11. /\ \A n \in Nat : <<n>> \in FirstAnswers
       /\ \A n \in Nat, m \in 0..1000 : <<n, m>> \in FirstAnswers
  <2>1. \A n \in Nat : <<n>> \in [{1} -> Nat]
    OBVIOUS
  <2> QED
    BY <2>1 DEF FirstAnswers
<1>12. ASSUME NEW r \in Requests, QueryVehicles(r) PROVE Rest'
  BY <1>10, <1>11, <1>12, AnswerTypes DEF QueryVehicles, Kinds
<1>13. ASSUME NEW r \in Requests, QueryDeals(r) PROVE Rest'
  <2>1. DealsIn("PAID") + DealsIn("READY_FOR_DELIVERY") + DealsIn("DELIVERED") \in Nat
    BY AnswerTypes
  <2> QED
    BY <1>10, <1>11, <1>13, <2>1 DEF QueryDeals, Kinds
<1>14. ASSUME NEW r \in Requests, QueryLeads(r) PROVE Rest'
  <2>1. StatusCount \in Nat /\ LeadsIn("WON") \in Nat /\ LeadsIn("LOST") \in Nat
    BY AnswerTypes
  <2>2. conversionRate(LeadsIn("WON"), LeadsIn("LOST")) \in 0..1000
    BY <2>1, RateType
  <2> QED
    BY <1>10, <1>11, <1>14, <2>1, <2>2 DEF QueryLeads, Kinds
<1>15. CASE \E r \in Requests : Reader(r)
  BY <1>7, <1>8, <1>9, <1>12, <1>13, <1>14, <1>15 DEF Reader
<1>16. CASE UNCHANGED vars
  BY <1>1, <1>3, <1>16 DEF vars
<1> QED
  BY <1>4, <1>5, <1>6, <1>15, <1>16 DEF Next, Writer

\* Rows, matches and requests keep their shape for all numbers of them, and every
\* score is a percentage of eight natural numbers, also for limits of 0 and for
\* negative ones.
THEOREM TypeCorrect ==
  ASSUME IsFiniteSet(Vehicles), IsFiniteSet(Leads), IsFiniteSet(Deals)
  PROVE  Spec => []TypeOK
<1>1. Init => Rest
  <2> SUFFICES ASSUME Init PROVE Rest
    OBVIOUS
  <2>1. Idle \in RequestRow
    BY DEF Idle, RequestRow, FirstAnswers
  <2>2. deal \in [Deals -> DealStatuses \cup {"NONE"}]
    BY DEF Init, DealStatuses
  <2> QED
    BY <2>1, <2>2 DEF Init, Rest
<1>2. PInv /\ Rest /\ [Next]_vars => Rest'
  BY RestStep DEF FiniteTables
<1>3. PInv /\ Rest => TypeOK
  <2> SUFFICES ASSUME PInv, Rest PROVE TypeOK
    OBVIOUS
  <2>1. match \in [Leads -> [Vehicles -> Results \cup {Null}]]
    <3>1. \A l \in Leads, v \in Vehicles : match[l][v] \in Results \cup {Null}
      BY MatchIsScore, ScoreIsResult
    <3> QED
      BY <3>1 DEF PInv, IInv, Shape
  <2>2. \A r \in Requests : At(r, "recompute") => req[r].of \in Leads /\ HasLead(req[r].of)
    BY DEF PInv, IInv, RecomputeOK, At
  <2> QED
    BY <2>1, <2>2 DEF TypeOK, PInv, IInv, Shape, Priced, VehicleRow, LeadRow, Rest, RequestRow
<1> QED
  BY <1>1, <1>2, <1>3, PricedInductive, PTL DEF Spec

-----------------------------------------------------------------------------
(* A price that comes nearer *)

LEMMA FalloffOrdered ==
  ASSUME NEW weight \in Nat, NEW near \in Nat \ {0}, NEW far \in Nat \ {0}, near <= far,
         NEW limit \in Nat
  PROVE  proportionalFalloff(weight, far, limit) <= proportionalFalloff(weight, near, limit)
<1>1. CASE limit > 0
  <2> DEFINE a == 2 * weight * (limit - 2 * far) + limit
             c == 2 * weight * (limit - 2 * near) + limit
             b == 2 * limit
  <2>1. weight * near <= weight * far
    OBVIOUS
  <2>2. b \in Nat \ {0} /\ a \in Int /\ c \in Int /\ a <= c
    BY <1>1, <2>1
  <2>3. FloorOf(a, b) <= FloorOf(c, b) /\ FloorOf(a, b) \in Int /\ FloorOf(c, b) \in Int
    <3> HIDE DEF a, b, c
    <3> QED
      BY <2>2, Floor, FloorOrdered
  <2> QED
    BY <1>1, <2>3 DEF proportionalFalloff
<1>2. CASE limit = 0
  BY <1>2 DEF proportionalFalloff
<1> QED
  BY <1>1, <1>2

LEMMA BudgetOrdered ==
  ASSUME NEW prefs \in PreferenceChoices, NotNegative(prefs), ~Contradictory(prefs),
         NEW near \in Prices, NEW far \in Prices, Nearer(prefs, near, far)
  PROVE  scoreBudget(prefs, far) <= scoreBudget(prefs, near)
<1> DEFINE m == prefs.budgetMax
           n == prefs.budgetMin
<1>1. /\ n \in Int \cup {Null} /\ m \in Int \cup {Null}
      /\ near \in Nat /\ far \in Nat
      /\ scoreBudget(prefs, far) \in 0..25 /\ scoreBudget(prefs, near) \in 0..25
  BY InsightsAssumption, BudgetLine DEF Preferences
\* scoreBudget, of a price.
<1>2. \A price : price # Null =>
        /\ m # Null /\ price > m =>
             scoreBudget(prefs, price) = proportionalFalloff(25, price - m, m)
        /\ ~(m # Null /\ price > m) /\ n # Null /\ price < n =>
             scoreBudget(prefs, price) = proportionalFalloff(25, n - price, n)
        /\ ~(m # Null /\ price > m) /\ ~(n # Null /\ price < n) => scoreBudget(prefs, price) = 25
  BY DEF scoreBudget
<1>3. CASE near = Null \/ far = Null
  BY <1>3, InsightsAssumption
<1>4. CASE near # Null /\ far # Null /\ m # Null /\ m <= near /\ near <= far
  <2>1. m \in Nat /\ ~(n # Null /\ near < n)
    BY <1>1, <1>4 DEF NotNegative, Contradictory
  <2>2. CASE near = m
    BY <1>1, <1>2, <1>4, <2>1, <2>2
  <2>3. CASE near > m
    <3>1. near - m \in Nat \ {0} /\ far - m \in Nat \ {0} /\ near - m <= far - m /\ far > m
      BY <1>1, <1>4, <2>1, <2>3
    <3>2. proportionalFalloff(25, far - m, m) <= proportionalFalloff(25, near - m, m)
      BY <2>1, <3>1, FalloffOrdered
    <3> QED
      BY <1>2, <1>4, <2>3, <3>1, <3>2
  <2> QED
    BY <1>1, <1>4, <2>1, <2>2, <2>3
<1>5. CASE near # Null /\ far # Null /\ n # Null /\ near <= n /\ far <= near
  <2>1. n \in Nat /\ ~(m # Null /\ near > m) /\ ~(m # Null /\ far > m)
    BY <1>1, <1>5 DEF Contradictory
  <2>2. CASE near = n
    BY <1>1, <1>2, <1>5, <2>1, <2>2
  <2>3. CASE near < n
    <3>1. n - near \in Nat \ {0} /\ n - far \in Nat \ {0} /\ n - near <= n - far /\ far < n
      BY <1>1, <1>5, <2>1, <2>3
    <3>2. proportionalFalloff(25, n - far, n) <= proportionalFalloff(25, n - near, n)
      BY <2>1, <3>1, FalloffOrdered
    <3> QED
      BY <1>2, <1>5, <2>1, <2>3, <3>1, <3>2
  <2> QED
    BY <1>1, <1>5, <2>1, <2>2, <2>3
<1> QED
  BY <1>3, <1>4, <1>5 DEF Nearer

\* Two prices of one car differ in the budget's line alone.
LEMMA ScoreOrdered ==
  ASSUME NEW prefs \in PreferenceChoices, NotNegative(prefs), ~Contradictory(prefs),
         NEW v \in Vehicles, NEW near \in Prices, NEW far \in Prices, Nearer(prefs, near, far)
  PROVE  computeMatchScore(prefs, CarOf[v], near).score
           >= computeMatchScore(prefs, CarOf[v], far).score
<1> DEFINE b == scoreManufacturerModel(prefs, CarOf[v])
           c == scoreYear(prefs, CarOf[v])
           d == scoreMileage(prefs, CarOf[v])
           e == scoreExactTextField(15, prefs.bodyType, CarOf[v].bodyType)
           f == scoreExactTextField(5, prefs.gearbox, CarOf[v].gearbox)
           g == scoreExactTextField(5, prefs.fuelType, CarOf[v].fuelType)
           h == scoreExactTextField(5, prefs.color, CarOf[v].color)
           result(price) == computeMatchScore(prefs, CarOf[v], price)
<1>1. \A price : result(price).explanation = <<scoreBudget(prefs, price), b, c, d, e, f, g, h>>
  BY DEF computeMatchScore
<1>2. \A price \in Prices : result(price).score = Sum(result(price).explanation)
  BY ScoreIsResult
<1>3. /\ b \in Nat /\ c \in Nat /\ d \in Nat /\ e \in Nat /\ f \in Nat /\ g \in Nat /\ h \in Nat
      /\ scoreBudget(prefs, near) \in Nat /\ scoreBudget(prefs, far) \in Nat
  BY BudgetLine, MileageLine DEF scoreManufacturerModel, scoreYear, scoreExactTextField
<1> HIDE DEF b, c, d, e, f, g, h, result
<1>4. \A price \in {near, far} :
        result(price).score = scoreBudget(prefs, price) + b + c + d + e + f + g + h
  BY <1>1, <1>2 DEF Sum
<1>5. scoreBudget(prefs, far) <= scoreBudget(prefs, near)
  BY BudgetOrdered
<1>6. result(near).score >= result(far).score
  BY <1>3, <1>4, <1>5
<1> QED
  BY <1>6 DEF result

\* match-score.ts:60: a vehicle that comes nearer to a lead's budget never fits
\* it worse, for all prices and cars and for every lead whose limits are neither
\* negative nor contradictory.
THEOREM NearerFitsNoWorse == Spec => NearerPriceFitsNoWorse
<1>1. ASSUME PInv, PInv', NEW l \in Leads, NEW v \in Vehicles, HasLead(l),
             vehicle[v].price # Null, vehicle'[v].price # Null
      PROVE  /\ lead[l].prefs \in PreferenceChoices
             /\ vehicle[v].price \in Prices /\ vehicle'[v].price \in Prices
  BY <1>1 DEF PInv, Priced, VehicleRow, Stated, HasLead
<1>2. PInv /\ PInv' => \A l \in Leads, v \in Vehicles : ScoreFollowsPrice(l, v)
  BY <1>1, ScoreOrdered DEF ScoreFollowsPrice
<1> QED
  BY <1>2, PricedInductive, PTL DEF NearerPriceFitsNoWorse, Spec

-----------------------------------------------------------------------------
(* Reports: how far the counts move *)

\* Two parts of a finite set that agree but for one element.
LEMMA OneMoves ==
  ASSUME NEW S, IsFiniteSet(S), NEW T, T \subseteq S, NEW U, U \subseteq S, NEW x,
         T \ {x} = U \ {x}
  PROVE  Differ(Cardinality(T), Cardinality(U), 1)
<1>1. ASSUME NEW A, A \subseteq S, NEW B, B \subseteq S, A \ {x} = B \ {x}
      PROVE  Cardinality(A) <= Cardinality(B) + 1
  <2>1. IsFiniteSet(A) /\ IsFiniteSet(B)
    BY <1>1, FS_Subset
  <2>2. /\ IsFiniteSet(B \cup {x})
        /\ Cardinality(B \cup {x}) = Cardinality(B) \/ Cardinality(B \cup {x}) = Cardinality(B) + 1
    BY <2>1, FS_AddElement
  <2>3. A \subseteq B \cup {x}
    BY <1>1
  <2>4. Cardinality(A) <= Cardinality(B \cup {x})
    BY <2>2, <2>3, FS_Subset
  <2>5. Cardinality(A) \in Nat /\ Cardinality(B) \in Nat
    BY <2>1, FS_CardinalityType
  <2> QED
    BY <2>2, <2>4, <2>5
<1>2. Cardinality(T) <= Cardinality(U) + 1 /\ Cardinality(U) <= Cardinality(T) + 1
  BY <1>1
<1>3. Cardinality(T) \in Nat /\ Cardinality(U) \in Nat
  BY FS_Subset, FS_CardinalityType
<1> QED
  BY <1>2, <1>3 DEF Differ

\* The rows that the last queries count.
RevenueDeals == {d \in Deals : deal[d] \in CountedForRevenue}
SourceLeads == {l \in Leads : HasLead(l)}

LEMMA CountsAre ==
  /\ AvailableCount = Cardinality(Matchable) /\ RevenueCount = Cardinality(RevenueDeals)
  /\ SourceCount = Cardinality(SourceLeads)
BY DEF AvailableCount, RevenueCount, RevenueDeals, SourceCount, SourceLeads, Count

LEMMA CountTypes ==
  ASSUME FiniteTables
  PROVE  /\ AvailableCount \in Nat /\ RevenueCount \in Nat /\ SourceCount \in Nat
<1>1. /\ Matchable \subseteq Vehicles /\ RevenueDeals \subseteq Deals
      /\ SourceLeads \subseteq Leads
  BY DEF Matchable, RevenueDeals, SourceLeads
<1> QED
  BY <1>1, CountsAre, CountType DEF FiniteTables

\* A commit moves each count by one at most, and leads are only ever added.
Moved ==
  /\ Differ(AvailableCount', AvailableCount, 1) /\ Differ(RevenueCount', RevenueCount, 1)
  /\ Differ(SourceCount', SourceCount, 1) /\ SourceCount' >= SourceCount

LEMMA WriterMoves ==
  ASSUME FiniteTables, PInv, Rest, Writer
  PROVE  Moved /\ writes' = writes + 1 /\ req' = req
<1>0. \A n \in Nat : Differ(n, n, 1)
  BY DEF Differ
<1>1. /\ Matchable' \subseteq Vehicles /\ RevenueDeals' \subseteq Deals
      /\ SourceLeads' \subseteq Leads
      /\ Matchable \subseteq Vehicles /\ RevenueDeals \subseteq Deals
      /\ SourceLeads \subseteq Leads
  BY DEF Matchable, RevenueDeals, SourceLeads
<1>2. /\ AvailableCount' = Cardinality(Matchable') /\ RevenueCount' = Cardinality(RevenueDeals')
      /\ SourceCount' = Cardinality(SourceLeads')
  BY DEF AvailableCount, RevenueCount, RevenueDeals, SourceCount, SourceLeads, Count
<1>3. writes' = writes + 1 /\ req' = req
  <2>1. Write
    BY DEF Writer, MoveVehicle, SetListPrice, CreateLead, MoveLead, CreateDeal, MoveDeal
  <2> QED
    BY <2>1 DEF Write
\* The tables that are not written keep their counts.
<1>4. /\ vehicle' = vehicle => AvailableCount' = AvailableCount
      /\ deal' = deal => RevenueCount' = RevenueCount
      /\ lead' = lead => SourceCount' = SourceCount
  <2>1. /\ vehicle' = vehicle => Matchable' = Matchable
        /\ deal' = deal => RevenueDeals' = RevenueDeals
        /\ lead' = lead => SourceLeads' = SourceLeads
    BY DEF Matchable, RevenueDeals, SourceLeads, HasLead
  <2> QED
    BY <1>2, <2>1, CountsAre
<1>5. ASSUME NEW v, UNCHANGED <<lead, deal>>,
             \A w \in Vehicles \ {v} : vehicle'[w] = vehicle[w]
      PROVE  Moved
  <2>1. Matchable' \ {v} = Matchable \ {v}
    BY <1>5 DEF Matchable
  <2>2. Differ(AvailableCount', AvailableCount, 1)
    BY <1>1, <1>2, <2>1, OneMoves, CountsAre DEF FiniteTables
  <2> QED
    BY <1>0, <1>4, <1>5, <2>2, CountTypes DEF Moved
<1>6. ASSUME NEW d, UNCHANGED <<vehicle, lead>>, \A c \in Deals \ {d} : deal'[c] = deal[c]
      PROVE  Moved
  <2>1. RevenueDeals' \ {d} = RevenueDeals \ {d}
    BY <1>6 DEF RevenueDeals
  <2>2. Differ(RevenueCount', RevenueCount, 1)
    BY <1>1, <1>2, <2>1, OneMoves, CountsAre DEF FiniteTables
  <2> QED
    BY <1>0, <1>4, <1>6, <2>2, CountTypes DEF Moved
<1>7. ASSUME NEW l, UNCHANGED <<vehicle, deal>>, \A k \in Leads \ {l} : lead'[k] = lead[k],
             lead'[l].status # "NONE"
      PROVE  Moved
  <2>1. SourceLeads' \ {l} = SourceLeads \ {l}
    BY <1>7 DEF SourceLeads, HasLead
  <2>2. Differ(SourceCount', SourceCount, 1)
    BY <1>1, <1>2, <2>1, OneMoves, CountsAre DEF FiniteTables
  <2>3. SourceCount' >= SourceCount
    <3>1. SourceLeads \subseteq SourceLeads'
      BY <1>7 DEF SourceLeads, HasLead
    <3>2. IsFiniteSet(SourceLeads')
      BY <1>1, FS_Subset DEF FiniteTables
    <3>3. Cardinality(SourceLeads) <= Cardinality(SourceLeads')
      BY <3>1, <3>2, FS_Subset
    <3>4. Cardinality(SourceLeads) \in Nat /\ Cardinality(SourceLeads') \in Nat
      BY <1>1, CountType DEF FiniteTables
    <3> QED
      BY <1>2, <3>3, <3>4, CountsAre
  <2> QED
    BY <1>0, <1>4, <1>7, <2>2, <2>3, CountTypes DEF Moved
<1>8. CASE \E v \in Vehicles : \/ \E to \in VehicleStatuses : MoveVehicle(v, to)
                               \/ \E price \in Prices : SetListPrice(v, price)
  <2>1. PICK v \in Vehicles, x \in VehicleStatuses \cup Prices :
          MoveVehicle(v, x) \/ SetListPrice(v, x)
    BY <1>8
  <2>2. UNCHANGED <<lead, deal>> /\ \A w \in Vehicles \ {v} : vehicle'[w] = vehicle[w]
    BY <2>1 DEF MoveVehicle, SetListPrice, PInv, Priced
  <2> QED
    BY <1>3, <1>5, <2>2
<1>9. CASE \E d \in Deals : CreateDeal(d) \/ \E to \in DealStatuses : MoveDeal(d, to)
  <2>1. PICK d \in Deals : CreateDeal(d) \/ \E to \in DealStatuses : MoveDeal(d, to)
    BY <1>9
  <2>2. UNCHANGED <<vehicle, lead>> /\ \A c \in Deals \ {d} : deal'[c] = deal[c]
    BY <2>1 DEF CreateDeal, MoveDeal, Rest
  <2> QED
    BY <1>3, <1>6, <2>2
<1>10. CASE \E l \in Leads, prefs \in PreferenceChoices : CreateLead(l, prefs)
  <2>1. PICK l \in Leads, prefs \in PreferenceChoices : CreateLead(l, prefs)
    BY <1>10
  <2>2. /\ UNCHANGED <<vehicle, deal>> /\ \A k \in Leads \ {l} : lead'[k] = lead[k]
        /\ lead'[l].status # "NONE"
    BY <2>1 DEF CreateLead, PInv, IInv, Shape
  <2> QED
    BY <1>3, <1>7, <2>2
<1>11. CASE \E l \in Leads, to \in LeadTargets : MoveLead(l, to)
  <2>1. PICK l \in Leads, to \in LeadTargets : MoveLead(l, to)
    BY <1>11
  <2>2. /\ UNCHANGED <<vehicle, deal>> /\ \A k \in Leads \ {l} : lead'[k] = lead[k]
        /\ lead'[l].status # "NONE"
    BY <2>1, InsightsAssumption DEF MoveLead, LeadStatuses, PInv, IInv, Shape
  <2> QED
    BY <1>3, <1>7, <2>2
<1> QED
  BY <1>8, <1>9, <1>10, <1>11 DEF Writer

\* What the first query answered, and how much was written since.
Since(e) == writes - e.since
SkewOK(e) ==
  e.stage \in Kinds =>
    /\ e.since \in Nat /\ e.since <= writes
    /\ e.first[1] \in Nat
    /\ e.stage = "inventory" => Differ(AvailableCount, e.first[1], Since(e))
    /\ e.stage = "sales" => Differ(RevenueCount, e.first[1], Since(e))
    /\ e.stage = "leads" =>
         Differ(SourceCount, e.first[1], Since(e)) /\ SourceCount >= e.first[1]

LEMMA DifferMore ==
  ASSUME NEW m \in Nat, NEW k \in Nat, NEW n \in Nat, NEW b \in Nat,
         Differ(m, n, b), Differ(k, m, 1)
  PROVE  Differ(k, n, b + 1)
BY DEF Differ

\* A commit while the report is under way.
LEMMA SkewGrows ==
  ASSUME FiniteTables, PInv, Rest, Writer, NEW e, SkewOK(e)
  PROVE  SkewOK(e)'
<1> SUFFICES ASSUME e.stage \in Kinds PROVE SkewOK(e)'
  BY DEF SkewOK
<1>1. Moved /\ writes' = writes + 1 /\ writes \in Nat
  BY WriterMoves DEF Rest
<1>2. /\ e.since \in Nat /\ e.since <= writes /\ e.first[1] \in Nat
      /\ Since(e) \in Nat /\ Since(e)' = Since(e) + 1
  BY <1>1 DEF SkewOK, Since
<1>3. /\ AvailableCount \in Nat /\ RevenueCount \in Nat /\ SourceCount \in Nat
  BY CountTypes
<1>4. /\ AvailableCount' \in Nat /\ RevenueCount' \in Nat /\ SourceCount' \in Nat
  <2>1. /\ Matchable' \subseteq Vehicles /\ RevenueDeals' \subseteq Deals
        /\ SourceLeads' \subseteq Leads
    BY DEF Matchable, RevenueDeals, SourceLeads
  <2>2. /\ AvailableCount' = Cardinality(Matchable') /\ RevenueCount' = Cardinality(RevenueDeals')
        /\ SourceCount' = Cardinality(SourceLeads')
    BY DEF AvailableCount, RevenueCount, RevenueDeals, SourceCount, SourceLeads, Count
  <2> QED
    BY <2>1, <2>2, CountType DEF FiniteTables
<1>5. e.stage = "inventory" => Differ(AvailableCount', e.first[1], Since(e)')
  BY <1>1, <1>2, <1>3, <1>4, DifferMore DEF SkewOK, Moved
<1>6. e.stage = "sales" => Differ(RevenueCount', e.first[1], Since(e)')
  BY <1>1, <1>2, <1>3, <1>4, DifferMore DEF SkewOK, Moved
<1>7. e.stage = "leads" =>
        Differ(SourceCount', e.first[1], Since(e)') /\ SourceCount' >= e.first[1]
  BY <1>1, <1>2, <1>3, <1>4, DifferMore DEF SkewOK, Moved
<1>8. e.since <= writes'
  BY <1>1, <1>2
<1> QED
  BY <1>2, <1>5, <1>6, <1>7, <1>8 DEF SkewOK

-----------------------------------------------------------------------------
(* Reports: the first query, and the answer *)

LEMMA TwoParts ==
  ASSUME NEW T, NEW U, IsFiniteSet(T), IsFiniteSet(U), T \cap U = {}
  PROVE  /\ IsFiniteSet(T \cup U)
         /\ Cardinality(T \cup U) = Cardinality(T) + Cardinality(U)
<1>1. /\ IsFiniteSet(T \cup U) /\ Cardinality(T \cap U) = 0
      /\ Cardinality(T \cup U) = Cardinality(T) + Cardinality(U) - Cardinality(T \cap U)
  BY FS_Union, FS_EmptySet
<1>2. Cardinality(T) \in Nat /\ Cardinality(U) \in Nat
  BY FS_CardinalityType
<1> QED
  BY <1>1, <1>2

\* The rows of the first answer are, at that moment, the rows that the last
\* query would count.
LEMMA FirstIsExact ==
  ASSUME FiniteTables, PInv
  PROVE  /\ VehiclesIn("AVAILABLE") = AvailableCount
         /\ DealsIn("PAID") + DealsIn("READY_FOR_DELIVERY") + DealsIn("DELIVERED") = RevenueCount
         /\ StatusCount = SourceCount
<1>1. VehiclesIn("AVAILABLE") = AvailableCount
  BY DEF VehiclesIn, Count, AvailableCount, Matchable
<1>2. DealsIn("PAID") + DealsIn("READY_FOR_DELIVERY") + DealsIn("DELIVERED") = RevenueCount
  <2> DEFINE D(s) == {d \in Deals : deal[d] = s}
  <2>1. \A s : IsFiniteSet(D(s)) /\ DealsIn(s) = Cardinality(D(s))
    BY FS_Subset DEF FiniteTables, DealsIn, Count
  <2>2. /\ D("PAID") \cap D("READY_FOR_DELIVERY") = {}
        /\ (D("PAID") \cup D("READY_FOR_DELIVERY")) \cap D("DELIVERED") = {}
        /\ RevenueDeals = (D("PAID") \cup D("READY_FOR_DELIVERY")) \cup D("DELIVERED")
    BY DEF RevenueDeals, CountedForRevenue
  <2> HIDE DEF D
  <2>3. /\ IsFiniteSet(D("PAID") \cup D("READY_FOR_DELIVERY"))
        /\ Cardinality(D("PAID") \cup D("READY_FOR_DELIVERY"))
             = Cardinality(D("PAID")) + Cardinality(D("READY_FOR_DELIVERY"))
    BY <2>1, <2>2, TwoParts
  <2>4. Cardinality(RevenueDeals)
          = Cardinality(D("PAID") \cup D("READY_FOR_DELIVERY")) + Cardinality(D("DELIVERED"))
    BY <2>1, <2>2, <2>3, TwoParts
  <2> QED
    BY <2>1, <2>3, <2>4, CountsAre
\* A lead that exists has one of the statuses that the groups are made of.
<1>3. StatusCount = SourceCount
  <2>1. {l \in Leads : lead[l].status \in LeadStatuses} = {l \in Leads : HasLead(l)}
    BY DEF PInv, IInv, Shape, LeadRow, HasLead, LeadStatuses
  <2> QED
    BY <2>1 DEF StatusCount, SourceCount, Count
<1> QED
  BY <1>1, <1>2, <1>3

\* A first query is exact, so far.
LEMMA SkewBegins ==
  ASSUME FiniteTables, PInv, Rest, NEW kind \in Kinds, NEW answer,
         answer[1] \in Nat,
         kind = "inventory" => answer[1] = AvailableCount,
         kind = "sales" => answer[1] = RevenueCount,
         kind = "leads" => answer[1] = SourceCount,
         NEW e, e.stage = kind, e.since = writes, e.first = answer
  PROVE  SkewOK(e)
<1>1. writes \in Nat /\ Since(e) = 0
  BY DEF Rest, Since
<1>2. \A n \in Nat : Differ(n, n, 0)
  BY DEF Differ
<1> QED
  BY <1>1, <1>2, CountTypes DEF SkewOK

LEMMA SkewStep ==
  ASSUME FiniteTables, PInv, Rest, \A r \in Requests : SkewOK(req[r]), [Next]_vars
  PROVE  \A r \in Requests : SkewOK(req[r])'
<1>1. ASSUME NEW e, SkewOK(e), UNCHANGED <<tables, writes>> PROVE SkewOK(e)'
  <2>1. vehicle' = vehicle /\ lead' = lead /\ deal' = deal /\ writes' = writes
    BY <1>1 DEF tables
  <2>2. /\ AvailableCount' = AvailableCount /\ RevenueCount' = RevenueCount
        /\ SourceCount' = SourceCount
    BY <2>1 DEF AvailableCount, Matchable, RevenueCount, SourceCount, Count, HasLead
  <2>3. Since(e)' = Since(e)
    BY <2>1 DEF Since
  <2> QED
    BY <1>1, <2>1, <2>2, <2>3 DEF SkewOK
<1>2. CASE Writer
  <2> SUFFICES ASSUME NEW r \in Requests PROVE SkewOK(req[r])'
    OBVIOUS
  <2>1. PICK e : e = req[r] /\ SkewOK(e)
    OBVIOUS
  <2>2. SkewOK(e)'
    BY <1>2, <2>1, SkewGrows
  <2>3. req' = req
    BY <1>2, WriterMoves
  <2> QED
    BY <2>1, <2>2, <2>3 DEF SkewOK, Since
<1>3. ASSUME NEW r \in Requests, NEW e, SkewOK(e), UNCHANGED <<tables, writes>>,
             \A q \in Requests : \/ req'[q] = e
                                 \/ SkewOK(req'[q])
      PROVE  \A q \in Requests : SkewOK(req[q])'
  <2> SUFFICES ASSUME NEW q \in Requests PROVE SkewOK(req[q])'
    OBVIOUS
  <2>1. PICK d : d = req'[q] /\ SkewOK(d)
    BY <1>3
  <2>2. SkewOK(d)'
    BY <1>1, <1>3, <2>1
  <2> QED
    BY <2>1, <2>2 DEF SkewOK, Since
<1>4. CASE UNCHANGED vars
  BY <1>3, <1>4 DEF vars, tables
<1>5. ASSUME NEW r \in Requests, Reader(r) PROVE \A q \in Requests : SkewOK(req[q])'
  <2>1. UNCHANGED <<tables, writes>>
    BY <1>5 DEF Reader, ReadStock, Upsert, AnswerMatches, QueryVehicles, QueryDeals, QueryLeads,
       FirstQuery, AnswerReport
  <2>2. ASSUME NEW e, Become(r, e), SkewOK(e) PROVE \A q \in Requests : SkewOK(req[q])'
    <3>1. req'[r] = e /\ \A q \in Requests \ {r} : req'[q] = req[q]
      BY <2>2 DEF Become, Rest
    <3> QED
      BY <1>3, <2>1, <2>2, <3>1
  <2>3. \A e : e.stage \notin Kinds => SkewOK(e)
    BY DEF SkewOK
  <2>4. "idle" \notin Kinds /\ "recompute" \notin Kinds /\ Idle.stage = "idle"
    BY DEF Kinds, Idle
  <2>5. CASE AnswerMatches(r) \/ AnswerReport(r)
    BY <2>2, <2>3, <2>4, <2>5 DEF AnswerMatches, AnswerReport
  <2>6. ASSUME NEW v \in Vehicles, Upsert(r, v) PROVE \A q \in Requests : SkewOK(req[q])'
    <3>1. PICK e : e = [req[r] EXCEPT !.todo = @ \ {v}]
      OBVIOUS
    <3>2. e.stage = "recompute" /\ Become(r, e)
      BY <2>6, <3>1 DEF Upsert, At, Rest, RequestRow
    <3> QED
      BY <2>2, <2>3, <2>4, <3>2
  <2>7. ASSUME NEW l \in Leads, ReadStock(r, l) PROVE \A q \in Requests : SkewOK(req[q])'
    <3>1. ASSUME NEW q \in Requests PROVE SkewOK(req'[q])
      <4>1. PICK e : /\ e = [Idle EXCEPT !.stage = "recompute", !.of = l, !.todo = Matchable,
                               !.snapshot = [v \in Vehicles |-> IF v \in Matchable
                                                                 THEN vehicle[v].price ELSE Null],
                               !.alone = \A i \in Requests : ~Recomputing(i, l)]
                     /\ Join(r, l, e)
        BY <2>7 DEF ReadStock
      <4>2. e.stage = "recompute"
        BY <4>1 DEF Idle
      <4>3. CASE q = r
        BY <2>3, <2>4, <4>1, <4>2, <4>3 DEF Join
      <4>4. CASE q # r /\ Recomputing(q, l)
        <5>1. PICK d : d = req[q] /\ d \in RequestRow /\ d.stage = "recompute"
          BY <4>4 DEF Rest, Recomputing, At
        <5>2. req'[q] = [d EXCEPT !.alone = FALSE]
          BY <4>1, <4>4, <5>1 DEF Join
        <5>3. req'[q].stage = "recompute"
          BY <5>1, <5>2 DEF RequestRow
        <5> QED
          BY <2>3, <2>4, <5>3
      <4>5. CASE q # r /\ ~Recomputing(q, l)
        BY <4>1, <4>5 DEF Join
      <4> QED
        BY <4>3, <4>4, <4>5
    <3> QED
      BY <1>3, <2>1, <3>1
  <2>8. ASSUME NEW kind \in Kinds, NEW answer, FirstQuery(r, kind, answer),
               answer[1] \in Nat,
               kind = "inventory" => answer[1] = AvailableCount,
               kind = "sales" => answer[1] = RevenueCount,
               kind = "leads" => answer[1] = SourceCount
        PROVE  \A q \in Requests : SkewOK(req[q])'
    <3>1. PICK e : e = [Idle EXCEPT !.stage = kind, !.since = writes, !.first = answer]
      OBVIOUS
    <3>2. /\ e.stage = kind /\ e.since = writes /\ e.first = answer
          /\ Become(r, e)
      BY <2>8, <3>1 DEF FirstQuery, Idle
    <3>3. SkewOK(e)
      BY <2>8, <3>2, SkewBegins
    <3> QED
      BY <2>2, <3>2, <3>3
  <2>9. CASE QueryVehicles(r)
    BY <2>8, <2>9, FirstIsExact, CountTypes DEF QueryVehicles, Kinds
  <2>10. CASE QueryDeals(r)
    BY <2>8, <2>10, FirstIsExact, CountTypes DEF QueryDeals, Kinds
  <2>11. CASE QueryLeads(r)
    BY <2>8, <2>11, FirstIsExact, CountTypes DEF QueryLeads, Kinds
  <2> QED
    BY <1>5, <2>5, <2>6, <2>7, <2>9, <2>10, <2>11 DEF Reader
<1> QED
  BY <1>2, <1>4, <1>5 DEF Next

\* reports.service.ts:36: the two queries of a report disagree by no more rows
\* than were written between them, a report in whose time nothing was written is
\* exact, and no lead is lost, for any finite tables and however many commits.
THEOREM ReportsAgree ==
  ASSUME IsFiniteSet(Vehicles), IsFiniteSet(Leads), IsFiniteSet(Deals)
  PROVE  Spec => ReportSkewIsBounded
<1>1. Init => Rest /\ \A r \in Requests : SkewOK(req[r])
  <2> SUFFICES ASSUME Init PROVE Rest /\ \A r \in Requests : SkewOK(req[r])
    OBVIOUS
  <2>1. Idle \in RequestRow /\ SkewOK(Idle)
    BY DEF Idle, RequestRow, FirstAnswers, SkewOK, Kinds
  <2>2. deal \in [Deals -> DealStatuses \cup {"NONE"}]
    BY DEF Init, DealStatuses
  <2> QED
    BY <2>1, <2>2 DEF Init, Rest
<1>2. PInv /\ Rest /\ (\A r \in Requests : SkewOK(req[r])) /\ [Next]_vars
        => Rest' /\ (\A r \in Requests : SkewOK(req[r]))'
  BY RestStep, SkewStep DEF FiniteTables
<1>3. PInv /\ Rest /\ (\A r \in Requests : SkewOK(req[r]))
        => \A r \in Requests : Answers(r) /\ req[r].stage \in Kinds => SkewIsBounded(r)
  <2> SUFFICES ASSUME Rest, NEW r \in Requests, SkewOK(req[r]), req[r].stage \in Kinds
               PROVE  SkewIsBounded(r)
    OBVIOUS
  <2> DEFINE e == req[r]
  <2>1. CASE e.stage = "inventory"
    BY <2>1 DEF SkewOK, SkewIsBounded, Since, LastAnswer
  <2>2. CASE e.stage = "sales"
    BY <2>2 DEF SkewOK, SkewIsBounded, Since, LastAnswer
  <2>3. CASE e.stage = "leads"
    BY <2>3 DEF SkewOK, SkewIsBounded, Since, LastAnswer
  <2> QED
    BY <2>1, <2>2, <2>3 DEF Kinds
<1> QED
  BY <1>1, <1>2, <1>3, PricedInductive, PTL DEF Spec, ReportSkewIsBounded
=============================================================================
