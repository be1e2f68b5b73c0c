----------------------------- MODULE MatchScore -----------------------------
(***************************************************************************)
(* How well a vehicle fits a lead: backend/src/matching/match-score.ts.    *)
(* Eight criteria earn points up to their weights, 100 in all; without a   *)
(* preference a criterion earns its whole weight.  Texts are compared      *)
(* after trim and toLowerCase, and stand here for that normal form; the    *)
(* labels and notes are left out.  The ratios are exact, as those of the   *)
(* program are but for a last bit.                                         *)
(***************************************************************************)
EXTENDS Integers

CONSTANT Null   \* undefined, null, and the empty string of a preference

Preferences(Numbers, Texts) ==
  [budgetMin : Numbers, budgetMax : Numbers, yearMin : Numbers, mileageMax : Numbers,
   manufacturer : Texts, model : Texts, bodyType : Texts, gearbox : Texts,
   fuelType : Texts, color : Texts]
Cars(Numbers, Texts) ==
  [manufacturer : Texts, model : Texts, year : Numbers, mileageKm : Numbers,
   bodyType : Texts, gearbox : Texts, fuelType : Texts, color : Texts]

\* The last integer not above a / b, for a positive b.
FloorOf(a, b) == a \div b
\* Mutant: the excess counts the wrong way round.
RewardingFalloff(weight, excess, limit) ==
  IF limit = 0 THEN 0 ELSE FloorOf(2 * weight * (limit + 2 * excess) + limit, 2 * limit)
\* Mutant: Math.max(0, ...) is forgotten.
BottomlessFalloff(weight, excess, limit) ==
  IF limit = 0 THEN 0 ELSE FloorOf(2 * weight * (limit - 2 * excess) + limit, 2 * limit)
\* Math.round(weight * (1 - 2 * excess / limit)), at least 0.  With a limit of 0
\* the ratio is Infinity.  A negative limit, which nothing forbids, turns the
\* fraction's sign.
proportionalFalloff(weight, excess, limit) ==
  LET points == IF limit > 0 THEN FloorOf(2 * weight * (limit - 2 * excess) + limit, 2 * limit)
                ELSE FloorOf(2 * weight * (2 * excess - limit) - limit, -2 * limit)
  IN IF limit = 0 \/ points < 0 THEN 0 ELSE points

scoreBudget(prefs, price) ==
  LET aboveMax == prefs.budgetMax # Null /\ price > prefs.budgetMax
      belowMin == prefs.budgetMin # Null /\ price < prefs.budgetMin
  IN IF prefs.budgetMin = Null /\ prefs.budgetMax = Null THEN 25
     ELSE IF price = Null THEN 0
     ELSE IF aboveMax
     THEN proportionalFalloff(25, price - prefs.budgetMax, prefs.budgetMax)
     ELSE IF belowMin
     THEN proportionalFalloff(25, prefs.budgetMin - price, prefs.budgetMin)
     ELSE 25

\* The right manufacturer with another model earns Math.round(25 / 2).
scoreManufacturerModel(prefs, car) ==
  IF prefs.manufacturer = Null THEN 25
  ELSE IF prefs.manufacturer # car.manufacturer THEN 0
  ELSE IF prefs.model \in {Null, car.model} THEN 25 ELSE 13

scoreYear(prefs, car) ==
  IF prefs.yearMin = Null THEN 10 ELSE IF car.year >= prefs.yearMin THEN 10 ELSE 0

scoreMileage(prefs, car) ==
  IF prefs.mileageMax = Null THEN 10
  ELSE IF car.mileageKm = Null THEN 0
  ELSE IF car.mileageKm <= prefs.mileageMax THEN 10
  ELSE proportionalFalloff(10, car.mileageKm - prefs.mileageMax, prefs.mileageMax)

scoreExactTextField(weight, preferred, actual) ==
  IF preferred \in {Null, actual} THEN weight ELSE 0

Sum(e) == e[1] + e[2] + e[3] + e[4] + e[5] + e[6] + e[7] + e[8]
Clamp(n) == IF n < 0 THEN 0 ELSE IF n > 100 THEN 100 ELSE n

computeMatchScore(prefs, car, price) ==
  LET explanation == <<scoreBudget(prefs, price),
                       scoreManufacturerModel(prefs, car),
                       scoreYear(prefs, car),
                       scoreMileage(prefs, car),
                       scoreExactTextField(15, prefs.bodyType, car.bodyType),
                       scoreExactTextField(5, prefs.gearbox, car.gearbox),
                       scoreExactTextField(5, prefs.fuelType, car.fuelType),
                       scoreExactTextField(5, prefs.color, car.color)>>
  IN [score |-> Clamp(Sum(explanation)), explanation |-> explanation]

=============================================================================
