----------------------------- MODULE MCInsights -----------------------------
(***************************************************************************)
(* Insights on a small instance.  A lead states a budget from 20 to 30 and *)
(* much else, or limits of 0 where the score divides, or a negative limit, *)
(* or nothing.                                                             *)
(***************************************************************************)
EXTENDS Insights, TLC

CONSTANTS v1, v2

NoWish == [budgetMin |-> Null, budgetMax |-> Null, yearMin |-> Null, mileageMax |-> Null,
           manufacturer |-> Null, model |-> Null, bodyType |-> Null, gearbox |-> Null,
           fuelType |-> Null, color |-> Null]
Demanding == [NoWish EXCEPT !.budgetMin = 20, !.budgetMax = 30, !.yearMin = 2020,
                            !.mileageMax = 40, !.manufacturer = "mazda", !.model = "3",
                            !.bodyType = "sedan"]
Penniless == [NoWish EXCEPT !.budgetMax = 0, !.mileageMax = 0, !.gearbox = "manual"]
Owing == [NoWish EXCEPT !.budgetMax = -10]
MCPreferences == {NoWish, Demanding, Penniless, Owing}

MCCarOf ==
  (v1 :> [manufacturer |-> "mazda", model |-> "2", year |-> 2020, mileageKm |-> 70,
          bodyType |-> "sedan", gearbox |-> Null, fuelType |-> Null, color |-> Null])
  @@ (v2 :> [manufacturer |-> "mazda", model |-> "3", year |-> 2019, mileageKm |-> Null,
             bodyType |-> Null, gearbox |-> "manual", fuelType |-> Null, color |-> Null])

\* In the workshop without a price, or on offer.
MCFleet == {[status |-> "RECONDITIONING", price |-> Null], [status |-> "AVAILABLE", price |-> 33]}

\* Reports write nothing, so that one of them at a time shows all they do.
OneReport == \A r, q \in Requests : req[r].stage \in Kinds /\ q # r => At(q, "idle")

Symmetry == Permutations(Requests)

=============================================================================
