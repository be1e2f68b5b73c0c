------------------------------ MODULE Insights ------------------------------
(***************************************************************************)
(* What is computed from rows that others go on writing: the matches of a  *)
(* lead (MatchesService) and the reports (ReportsService).  A recompute    *)
(* reads the stock once and then upserts one match per vehicle, in any     *)
(* order; a report is two or more queries, each of which sees the tables   *)
(* at its own moment.                                                      *)
(*                                                                         *)
(* The writers are one step each: what VehicleSales and OfficeRecords do   *)
(* in several calls becomes visible to a query in one commit.  Who may ask *)
(* for which report decides only which requests are refused.               *)
(***************************************************************************)
EXTENDS VehicleStatus, DealStatus, RecordStatus, MatchScore, FiniteSets

CONSTANTS
  Vehicles, Leads, Deals,   \* ids of rows; leads and deals in use or not yet
  Requests,                 \* slots for reading requests in flight
  CarOf,                    \* what a vehicle's row says of the car itself
  PreferenceChoices,        \* preferences that leads are given
  Prices,                   \* list prices
  LeadTargets,              \* statuses that leads are moved to
  Fleet,                    \* what the vehicles are in the beginning
  MaxWrites                 \* bound: commits by writers

ASSUME InsightsAssumption ==
  /\ Prices \subseteq Nat \ {0} /\ Null \notin Prices /\ MaxWrites \in Nat
  /\ LeadTargets \subseteq LeadStatuses
  /\ Fleet \subseteq [status : VehicleStatuses, price : Prices \cup {Null}]
  /\ \A car \in Fleet : car.status = "AVAILABLE" => car.price \in Prices
  /\ PreferenceChoices \subseteq Preferences(Int \cup {Null}, STRING \cup {Null})
  /\ CarOf \in [Vehicles -> Cars(Int \cup {Null}, STRING \cup {Null})]

VARIABLES
  vehicle,    \* [status, price]
  lead,       \* [status, prefs]
  deal,       \* status
  match,      \* the table matches: one MatchResult per lead and vehicle
  req,        \* recomputes and reports in flight
  writes,     \* commits by writers so far
  offered     \* history: the list prices a vehicle had while it was AVAILABLE

vars == <<vehicle, lead, deal, match, req, writes, offered>>
tables == <<vehicle, lead, deal>>

HasLead(l) == lead[l].status # "NONE"
Count(S, Test(_)) == Cardinality({x \in S : Test(x)})

\* todo: vehicles whose match is to be written, snapshot: the prices read of
\* the vehicles found,
\* alone: no other recompute of the lead has overlapped this one so far,
\* since: the commits before the first query of a report, first: its answer.
Idle == [stage |-> "idle", of |-> Null, todo |-> {}, snapshot |-> [v \in Vehicles |-> Null],
         alone |-> FALSE, since |-> 0, first |-> <<>>]
At(r, stage) == req[r].stage = stage
Become(r, entry) == req' = [req EXCEPT ![r] = entry]

-----------------------------------------------------------------------------
(* The writers *)

Write == writes < MaxWrites /\ writes' = writes + 1 /\ UNCHANGED <<match, req>>

\* What a vehicle is offered for, if it is.
Offer(v) == IF vehicle[v].status = "AVAILABLE" THEN {vehicle[v].price} ELSE {}
Offered == offered' = [v \in Vehicles |-> offered[v] \cup Offer(v)']

\* updateStatus, and the status a deal gives its vehicle.
MoveVehicle(v, to) ==
  /\ to # vehicle[v].status
  /\ ValidVehicleTransition(vehicle[v].status, to, vehicle[v].price # Null)
  /\ vehicle' = [vehicle EXCEPT ![v].status = to]
  /\ Write /\ Offered /\ UNCHANGED <<lead, deal>>

SetListPrice(v, price) ==
  /\ price # vehicle[v].price
  /\ vehicle' = [vehicle EXCEPT ![v].price = price]
  /\ Write /\ Offered /\ UNCHANGED <<lead, deal>>

\* Nothing changes the preferences of a lead afterwards.
CreateLead(l, prefs) ==
  /\ ~HasLead(l)
  /\ lead' = [lead EXCEPT ![l] = [status |-> "NEW", prefs |-> prefs]]
  /\ Write /\ UNCHANGED <<vehicle, deal, offered>>

MoveLead(l, to) ==
  /\ lead[l].status \notin DecidedLead \cup {"NONE", to}
  /\ lead' = [lead EXCEPT ![l].status = to]
  /\ Write /\ UNCHANGED <<vehicle, deal, offered>>

CreateDeal(d) ==
  /\ deal[d] = "NONE"
  /\ deal' = [deal EXCEPT ![d] = "DRAFT"]
  /\ Write /\ UNCHANGED <<vehicle, lead, offered>>

MoveDeal(d, to) ==
  /\ <<deal[d], to>> \in DealTransitions
  /\ deal' = [deal EXCEPT ![d] = to]
  /\ Write /\ UNCHANGED <<vehicle, lead, offered>>

-----------------------------------------------------------------------------
(* recomputeForLead *)

\* Mutant: vehicles of every status are scored.
AllVehicles == Vehicles
\* where: { status: AVAILABLE }
Matchable == {v \in Vehicles : vehicle[v].status = "AVAILABLE"}

Recomputing(r, l) == At(r, "recompute") /\ req[r].of = l
\* Others that work on the same lead are no longer alone, and neither is this one.
Join(r, l, entry) ==
  req' = [q \in Requests |-> IF q = r THEN entry
                             ELSE IF Recomputing(q, l) THEN [req[q] EXCEPT !.alone = FALSE]
                             ELSE req[q]]

\* The lead and the vehicles are read; what is read of the lead never changes.
ReadStock(r, l) ==
  /\ At(r, "idle") /\ HasLead(l)
  /\ Join(r, l, [Idle EXCEPT !.stage = "recompute", !.of = l, !.todo = Matchable,
                             !.snapshot = [v \in Vehicles |-> IF v \in Matchable
                                                               THEN vehicle[v].price ELSE Null],
                             !.alone = \A q \in Requests : ~Recomputing(q, l)])
  /\ UNCHANGED <<tables, match, writes, offered>>

\* Mutant: update: {}
OnlyCreated(old, new) == IF old = Null THEN new ELSE old
\* upsert: create and update write the same.
Upserted(old, new) == new

\* One of the upserts that run side by side.
Upsert(r, v) ==
  LET e == req[r] IN
  /\ At(r, "recompute") /\ v \in e.todo
  /\ match' = [match EXCEPT ![e.of][v] =
                 Upserted(match[e.of][v],
                          computeMatchScore(lead[e.of].prefs, CarOf[v], e.snapshot[v]))]
  /\ Become(r, [e EXCEPT !.todo = @ \ {v}])
  /\ UNCHANGED <<tables, writes, offered>>

\* Promise.all
AnswerMatches(r) ==
  /\ At(r, "recompute") /\ req[r].todo = {}
  /\ Become(r, Idle)
  /\ UNCHANGED <<tables, match, writes, offered>>

-----------------------------------------------------------------------------
(* The reports: what the queries count *)

\* COUNTED_REVENUE_STATUSES
CountedForRevenue == {"PAID", "READY_FOR_DELIVERY", "DELIVERED"}

\* groupBy status, a row of the answer
VehiclesIn(s) == Count(Vehicles, LAMBDA v : vehicle[v].status = s)
DealsIn(s) == Count(Deals, LAMBDA d : deal[d] = s)
LeadsIn(s) == Count(Leads, LAMBDA l : lead[l].status = s)
\* All rows of that answer together: a lead of any status is in one of them.
StatusCount == Count(Leads, LAMBDA l : lead[l].status \in LeadStatuses)
\* Mutant: a reserved vehicle counts as available.
StockCount == Count(Vehicles, LAMBDA v : vehicle[v].status \in {"AVAILABLE", "RESERVED"})
\* aggregate ... _count
AvailableCount == Cardinality(Matchable)
RevenueCount == Count(Deals, LAMBDA d : deal[d] \in CountedForRevenue)
\* groupBy source: the rows of the answer together are all leads.
SourceCount == Count(Leads, HasLead)

\* In tenths of a percent, rounded.
conversionRate(won, lost) ==
  IF won + lost = 0 THEN 0 ELSE FloorOf(2 * 1000 * won + won + lost, 2 * (won + lost))

-----------------------------------------------------------------------------
(* The reports: a first query, and later the last one *)

FirstQuery(r, kind, answer) ==
  /\ At(r, "idle")
  /\ Become(r, [Idle EXCEPT !.stage = kind, !.since = writes, !.first = answer])
  /\ UNCHANGED <<tables, match, writes, offered>>

QueryVehicles(r) == FirstQuery(r, "inventory", <<VehiclesIn("AVAILABLE")>>)
QueryDeals(r) ==
  FirstQuery(r, "sales",
             <<DealsIn("PAID") + DealsIn("READY_FOR_DELIVERY") + DealsIn("DELIVERED")>>)
QueryLeads(r) ==
  FirstQuery(r, "leads", <<StatusCount, conversionRate(LeadsIn("WON"), LeadsIn("LOST"))>>)

\* The last query, with which the report is sent.
AnswerReport(r) ==
  /\ req[r].stage \in {"inventory", "sales", "leads"}
  /\ Become(r, Idle)
  /\ UNCHANGED <<tables, match, writes, offered>>

\* What the last query counted.
LastAnswer(kind) == CASE kind = "inventory" -> AvailableCount
                      [] kind = "sales" -> RevenueCount
                      [] kind = "leads" -> SourceCount

-----------------------------------------------------------------------------
Init ==
  /\ vehicle \in [Vehicles -> Fleet]
  /\ lead = [l \in Leads |-> [status |-> "NONE", prefs |-> Null]]
  /\ deal \in [Deals -> {"NONE", "SIGNED"}]
  /\ match = [l \in Leads |-> [v \in Vehicles |-> Null]]
  /\ req = [r \in Requests |-> Idle]
  /\ writes = 0
  /\ offered = [v \in Vehicles |-> Offer(v)]

Writer ==
  \/ \E v \in Vehicles : \/ \E to \in VehicleStatuses : MoveVehicle(v, to)
                         \/ \E price \in Prices : SetListPrice(v, price)
  \/ \E l \in Leads : \/ \E prefs \in PreferenceChoices : CreateLead(l, prefs)
                      \/ \E to \in LeadTargets : MoveLead(l, to)
  \/ \E d \in Deals : \/ CreateDeal(d)
                      \/ \E to \in DealStatuses : MoveDeal(d, to)

Reader(r) ==
  \/ \E l \in Leads : ReadStock(r, l)
  \/ \E v \in Vehicles : Upsert(r, v)
  \/ AnswerMatches(r)
  \/ QueryVehicles(r) \/ QueryDeals(r) \/ QueryLeads(r)
  \/ AnswerReport(r)

Next == Writer \/ \E r \in Requests : Reader(r)

Spec == Init /\ [][Next]_vars

-----------------------------------------------------------------------------
(* Properties *)

Results == [score : 0..100, explanation : [1..8 -> Nat]]
Kinds == {"inventory", "sales", "leads"}
\* A count, and for leads the rate, which no rounding takes above 100 percent.
FirstAnswers == {<<>>} \cup [{1} -> Nat] \cup (Nat \X (0..1000))

\* Rows, matches and requests keep their shape; scores and rates are percentages,
\* also where a limit or a count of 0 would divide; what is written for a lead in flight is
\* about a lead that exists.
TypeOK ==
  /\ vehicle \in [Vehicles -> [status : VehicleStatuses, price : Prices \cup {Null}]]
  /\ lead \in [Leads -> [status : LeadStatuses \cup {"NONE"},
                         prefs : PreferenceChoices \cup {Null}]]
  /\ deal \in [Deals -> DealStatuses \cup {"NONE"}]
  /\ match \in [Leads -> [Vehicles -> Results \cup {Null}]]
  /\ req \in [Requests -> [stage : Kinds \cup {"idle", "recompute"},
                           of : Leads \cup {Null}, todo : SUBSET Vehicles,
                           snapshot : [Vehicles -> Prices \cup {Null}], alone : BOOLEAN,
                           since : Nat, first : FirstAnswers]]
  /\ \A r \in Requests : At(r, "recompute") => req[r].of \in Leads /\ HasLead(req[r].of)
  /\ writes \in Nat
  /\ offered \in [Vehicles -> SUBSET Prices]

\* The lead states no negative limit.  Nothing keeps it from that (create-lead.dto
\* asks for an integer), and a negative limit lets a line exceed its weight.
NotNegative(prefs) ==
  \A n \in {prefs.budgetMin, prefs.budgetMax, prefs.mileageMax} : n # Null => n >= 0
\* match-score.ts:190: the eight lines shown to a salesperson add up to the
\* score above them, and clamping never has to hide that they do not, if the
\* lead's limits are not negative.
MatchExplainsItself ==
  \A l \in Leads, v \in Vehicles :
    match[l][v] # Null /\ NotNegative(lead[l].prefs) =>
      match[l][v].score = Sum(match[l][v].explanation)

\* matches.service.ts:23: prices and statuses move on while scores are computed
\* and written, and a match may outlive its vehicle's sale; still it is the score
\* of that very lead and vehicle, for a price it was really on offer for.
MatchesAreOfOffers ==
  \A l \in Leads, v \in Vehicles :
    match[l][v] # Null =>
      \E price \in offered[v] : match[l][v] = computeMatchScore(lead[l].prefs, CarOf[v], price)

Answers(r) == ~At(r, "idle") /\ req'[r].stage = "idle"
\* matches.service.ts:41: the upserts run side by side and over older matches;
\* a recompute that no other of its lead overlapped leaves, when it answers,
\* for every vehicle that it found the match of the price that it read.
RecomputeIsNotLost ==
  [][\A r \in Requests :
       Answers(r) /\ At(r, "recompute") /\ req[r].alone =>
         \A v \in Vehicles :
           req[r].snapshot[v] # Null =>
             match[req[r].of][v]
               = computeMatchScore(lead[req[r].of].prefs, CarOf[v], req[r].snapshot[v])]_vars

\* price is at least as near to the budget as farther, on the same side of it.
Nearer(prefs, price, farther) ==
  \/ prefs.budgetMax # Null /\ prefs.budgetMax <= price /\ price <= farther
  \/ prefs.budgetMin # Null /\ price <= prefs.budgetMin /\ farther <= price
Contradictory(prefs) ==
  Null \notin {prefs.budgetMin, prefs.budgetMax} /\ prefs.budgetMin > prefs.budgetMax
\* How the score of a lead and a vehicle moves with the vehicle's price.
ScoreFollowsPrice(l, v) ==
  LET p == vehicle[v].price
      q == vehicle'[v].price
      prefs == lead[l].prefs
      Score(price) == computeMatchScore(prefs, CarOf[v], price).score
  IN ( HasLead(l) /\ p # Null /\ q # Null
       /\ NotNegative(prefs) /\ ~Contradictory(prefs) ) =>
       /\ Nearer(prefs, q, p) => Score(q) >= Score(p)
       /\ Nearer(prefs, p, q) => Score(p) >= Score(q)
\* match-score.ts:60: whatever the rounding does, a vehicle whose price comes
\* nearer to a lead's budget never fits that lead worse than before, if its limits
\* are not negative and its minimum is not above its maximum.
NearerPriceFitsNoWorse == [][\A l \in Leads, v \in Vehicles : ScoreFollowsPrice(l, v)]_vars

Differ(m, n, bound) == m - n <= bound /\ n - m <= bound
\* What a report that is answered now says of the tables.
SkewIsBounded(r) ==
  LET e == req[r]
      between == writes - e.since
      last == LastAnswer(e.stage)
  IN /\ Differ(last, e.first[1], between)
     /\ e.stage = "leads" => last >= e.first[1]
\* reports.service.ts:36: a report's queries see different moments, so that a
\* vehicle, a deal or a lead may be counted in one and not in the other; they
\* never disagree by more rows than were written in between, a report in whose
\* time nothing was written is exact, and no lead is lost between them.
ReportSkewIsBounded ==
  [][\A r \in Requests : Answers(r) /\ req[r].stage \in Kinds => SkewIsBounded(r)]_vars

=============================================================================
