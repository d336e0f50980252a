-------------------------- MODULE ComponentsProofs --------------------------
(***************************************************************************)
(* Proofs about the components that share no state: FareRules,             *)
(* EquipmentRegistry, TransitAccounts and FareTransactions, for any fare   *)
(* policy, rider and time, and for any number of readers, accounts,        *)
(* transactions and sessions.                                              *)
(***************************************************************************)
EXTENDS EquipmentRegistry, TransitAccounts, FareTransactions, FareRules, TLAPS

(* Zenon proves the leaves that cite no other prover. *)
USE ZenonT(30)

-----------------------------------------------------------------------------
(* Fare rules *)

(* The argument: each stage of an evaluation (the discount of the eligibility,
   the transfer, the caps, the transit product) fails or yields the units of a
   closed form, and the stages compose; so what evaluate_fare returns is one
   record, whose parts add up and whose charge is the reference's. *)

LEMMA NatProduct ==
    ASSUME NEW a \in Nat, NEW b \in Nat
    PROVE  a * b \in Nat
BY SMTT(30)

LEMMA SmallerProduct ==
    ASSUME NEW a \in Nat, NEW r \in Nat, NEW f \in Nat, r <= f
    PROVE  a * r <= a * f
BY SMTT(30)

LEMMA QuotientBound ==
    ASSUME NEW n \in Nat, NEW a \in Nat, NEW f \in Nat \ {0}, n <= a * f
    PROVE  n \div f \in 0..a
<1>1. PICK q \in Int : q = n \div f
  BY SMTT(30)
<1>2. q * f <= n /\ n < (q + 1) * f
  BY <1>1, SMTT(30)
<1>3. q \in Nat
  BY <1>1, SMTT(30)
<1>4. q <= a
  <2>1. SUFFICES ASSUME q >= a + 1 PROVE FALSE
    BY <1>3, SMTT(30)
  <2>2. (a + 1) * f <= q * f
    BY <2>1, <1>3, SmallerProduct, SMTT(30)
  <2> QED
    BY <2>2, <1>2, SMTT(30)
<1> QED
  BY <1>1, <1>3, <1>4, SMTT(30)

(* A policy and an input that evaluate_fare is called with. *)
Admitted(policy, input) ==
    /\ ValidPolicy(policy)
    /\ input \in FareEvaluationInput
    /\ input.product = NULL \/ ValidProduct(input.product)

LEMMA RangeOfUnits == Units \subseteq Int /\ 0..MaxUnits \subseteq Units /\ \A n \in Nat : n \in Units <=> n <= MaxUnits
BY FareEngineAssumption, SMTT(30) DEF Units

(* Subtracting no more than there is never fails. *)
LEMMA SubtractPart ==
    ASSUME NEW a \in 0..MaxUnits, NEW b \in 0..a, NEW c
    PROVE  CheckedSubtract(FromMinorUnits(a, c), FromMinorUnits(b, c)) = {FromMinorUnits(a - b, c)}
<1>1. a - b \in Units
  BY FareEngineAssumption, SMTT(30) DEF Units
<1> QED
  BY <1>1 DEF CheckedSubtract, Checked, FromMinorUnits

(* A valid amount of a policy is a natural number of its currency. *)
LEMMA AmountFacts ==
    ASSUME NEW policy, NEW amount \in Money, ValidAmount(policy, amount)
    PROVE  /\ amount.units \in 0..MaxUnits
           /\ amount = FromMinorUnits(amount.units, policy.currency)
BY FareEngineAssumption, SMTT(30) DEF ValidAmount, Money, Units, FromMinorUnits

LEMMA PolicyFacts ==
    ASSUME NEW policy, ValidPolicy(policy)
    PROVE  /\ policy.currency \in Currency
           /\ policy.baseFare.units \in 0..MaxUnits
           /\ policy.baseFare = FromMinorUnits(policy.baseFare.units, policy.currency)
           /\ policy.zoneSurcharge.units \in 0..MaxUnits
           /\ policy.zoneSurcharge = FromMinorUnits(policy.zoneSurcharge.units, policy.currency)
           /\ policy.transferDiscount.units \in 0..MaxUnits
           /\ policy.dailyCap.units \in 0..MaxUnits
           /\ policy.dailyCap = FromMinorUnits(policy.dailyCap.units, policy.currency)
           /\ policy.weeklyCap.units \in 0..MaxUnits
           /\ policy.weeklyCap = FromMinorUnits(policy.weeklyCap.units, policy.currency)
           /\ policy.transferWindow \in Nat
           /\ policy.discount \in [Eligibility -> 0..FullFare]
<1>1. policy \in FarePolicyDefinition
  BY DEF ValidPolicy
<1>2. /\ policy.currency \in Currency
      /\ policy.baseFare \in Money
      /\ policy.zoneSurcharge \in Money
      /\ policy.transferDiscount \in Money
      /\ policy.dailyCap \in Money
      /\ policy.weeklyCap \in Money
      /\ policy.transferWindow \in Nat
      /\ policy.discount \in [Eligibility -> 0..FullFare]
  BY <1>1 DEF FarePolicyDefinition, TransferWindow, EligibilityDiscounts, DiscountBasisPoints
<1>3. /\ ValidAmount(policy, policy.baseFare)
      /\ ValidAmount(policy, policy.zoneSurcharge)
      /\ ValidAmount(policy, policy.transferDiscount)
      /\ ValidAmount(policy, policy.dailyCap)
      /\ ValidAmount(policy, policy.weeklyCap)
  BY DEF ValidPolicy
<1> QED
  BY <1>2, <1>3, AmountFacts

(* The fare before discounts fails to be computed exactly when the full fare
   overflows; the eligibility discount never does. *)
LEMMA DiscountedFareIs ==
    ASSUME NEW policy, NEW input, Admitted(policy, input)
    PROVE  LET full == FullFareUnits(policy, input)
               d == (full * policy.discount[input.eligibility]) \div FullFare
           IN  /\ full \in Nat
               /\ d \in 0..full
               /\ DiscountedFare(policy, input) =
                    IF full > MaxUnits THEN {}
                    ELSE {[before |-> FromMinorUnits(full, policy.currency),
                           discount |-> FromMinorUnits(d, policy.currency),
                           fare |-> FromMinorUnits(full - d, policy.currency)]}
<1>ZonesBetween. ASSUME NEW a \in Nat, NEW b \in Nat
                 PROVE  AbsDiff(a, b) = Larger(a - b, b - a) /\ AbsDiff(a, b) \in Nat
  BY <1>ZonesBetween, SMTT(30) DEF AbsDiff, Larger
(* DiscountBasisPoints: a discount of at most a whole is between nothing and the
   amount itself. *)
<1>DiscountBound. ASSUME NEW a \in Nat, NEW r \in 0..FullFare
                  PROVE  (a * r) \div FullFare \in 0..a
  <2>. USE <1>DiscountBound
  <2>1. FullFare \in Nat \ {0}
    BY FareEngineAssumption
  <2>2. r \in Nat /\ r <= FullFare
    BY <2>1, SMTT(30)
  <2>3. a * r <= a * FullFare
    BY <2>1, <2>2, SmallerProduct
  <2>4. a * r \in Nat
    BY <2>2, NatProduct
  <2> QED
    BY <2>1, <2>3, <2>4, QuotientBound
<1>0. ValidPolicy(policy) /\ input \in FareEvaluationInput
  BY DEF Admitted
<1>1. /\ input.origin \in Nat /\ input.destination \in Nat
      /\ input.eligibility \in Eligibility
  BY <1>0, FareEngineAssumption DEF FareEvaluationInput
<1>2. PICK c : c = policy.currency
  OBVIOUS
<1>3. PICK base \in 0..MaxUnits : policy.baseFare.units = base /\ policy.baseFare = FromMinorUnits(base, c)
  BY <1>0, <1>2, PolicyFacts
<1>4. PICK each \in 0..MaxUnits :
        policy.zoneSurcharge.units = each /\ policy.zoneSurcharge = FromMinorUnits(each, c)
  BY <1>0, <1>2, PolicyFacts
<1>5. PICK rate \in 0..FullFare : rate = policy.discount[input.eligibility]
  BY <1>0, <1>1, PolicyFacts
<1>6. PICK zones \in Nat : /\ zones = AbsDiff(input.origin, input.destination)
                           /\ FullFareUnits(policy, input) = base + each * zones
  BY <1>1, <1>3, <1>4, <1>ZonesBetween DEF FullFareUnits
<1>7. PICK sur \in Nat : sur = each * zones
  BY NatProduct, SMTT(30)
<1>8. PICK full \in Nat : full = base + sur
  BY <1>7, SMTT(30)
<1>9. PICK d \in 0..full : d = (full * rate) \div FullFare
  BY <1>DiscountBound
<1>10. /\ FullFareUnits(policy, input) = full
       /\ (FullFareUnits(policy, input) * policy.discount[input.eligibility]) \div FullFare = d
  BY <1>5, <1>6, <1>7, <1>8, <1>9
<1>11. ZoneSurcharge(policy.zoneSurcharge, AbsDiff(input.origin, input.destination)) = IF sur > MaxUnits THEN {} ELSE {FromMinorUnits(sur, c)}
  <2>1. sur \in Units <=> ~(sur > MaxUnits)
    BY RangeOfUnits, FareEngineAssumption, SMTT(30)
  <2>2. ZoneSurcharge(policy.zoneSurcharge, zones) = Checked(sur, c)
    BY <1>4, <1>7, SMTT(30) DEF ZoneSurcharge, FromMinorUnits
  <2> QED
    BY <2>1, <2>2, <1>6 DEF Checked
<1>12. CheckedAdd(policy.baseFare, FromMinorUnits(sur, c)) =
         IF full > MaxUnits THEN {} ELSE {FromMinorUnits(full, c)}
  <2>1. full \in Units <=> ~(full > MaxUnits)
    BY RangeOfUnits, FareEngineAssumption, SMTT(30)
  <2>2. CheckedAdd(policy.baseFare, FromMinorUnits(sur, c)) = Checked(full, c)
    BY <1>3, <1>8, SMTT(30) DEF CheckedAdd, FromMinorUnits
  <2> QED
    BY <2>1, <2>2 DEF Checked
<1>13. sur > MaxUnits => full > MaxUnits
  BY <1>7, <1>8, FareEngineAssumption, SMTT(30)
<1>14. CASE full > MaxUnits
  <2>1. DiscountedFare(policy, input) = {}
    BY <1>11, <1>12, <1>14 DEF DiscountedFare
  <2> QED
    BY <1>10, <1>14, <2>1
<1>15. CASE ~(full > MaxUnits)
  <2>1. full \in 0..MaxUnits
    BY <1>15, FareEngineAssumption, SMTT(30)
  <2>2. Percentage(FromMinorUnits(full, c), policy.discount[input.eligibility]) = {FromMinorUnits(d, c)}
    <3>1. d \in Units
      BY <2>1, FareEngineAssumption, SMTT(30) DEF Units
    <3> QED
      BY <3>1, <1>5, <1>9 DEF Percentage, Checked, FromMinorUnits
  <2>3. CheckedSubtract(FromMinorUnits(full, c), FromMinorUnits(d, c)) = {FromMinorUnits(full - d, c)}
    BY <2>1, SubtractPart
  <2>4. /\ ZoneSurcharge(policy.zoneSurcharge, AbsDiff(input.origin, input.destination)) = {FromMinorUnits(sur, c)}
        /\ CheckedAdd(policy.baseFare, FromMinorUnits(sur, c)) = {FromMinorUnits(full, c)}
    BY <1>11, <1>12, <1>13, <1>15
  <2>5. DiscountedFare(policy, input) =
          {[before |-> FromMinorUnits(full, c), discount |-> FromMinorUnits(d, c),
            fare |-> FromMinorUnits(full - d, c)]}
    BY <2>2, <2>3, <2>4, SMTT(30) DEF DiscountedFare
  <2> QED
    BY <1>2, <1>10, <1>15, <2>5
<1> QED
  BY <1>14, <1>15

LEMMA RecordFareIsAmount ==
    ASSUME NEW policy, NEW n \in 0..MaxUnits
    PROVE  ValidAmount(policy, FromMinorUnits(n, policy.currency))
BY FareEngineAssumption, SMTT(30) DEF ValidAmount, FromMinorUnits

(* What apply_transfer subtracts from a fare of n units. *)
TransferUnits(policy, input, n) ==
    IF ~Transfers(policy, input) THEN 0
    ELSE IF policy.transferDiscount.units <= n THEN policy.transferDiscount.units ELSE n

(* The answer of transfer_is_eligible decides which discount is subtracted. *)
LEMMA EligibleTransfer ==
    ASSUME NEW policy, NEW input, NEW fare, ValidAmount(policy, fare),
           TransferIsEligible(policy, input.time, input.previous) = {TRUE}
    PROVE  ApplyTransfer(policy, input, fare) =
             {[discount |-> FromMinorUnits(Min({policy.transferDiscount.units, fare.units}), policy.currency), fare |-> left] :
                left \in CheckedSubtract(fare, FromMinorUnits(Min({policy.transferDiscount.units, fare.units}), policy.currency))}
<1>1. ASSUME NEW r \in ApplyTransfer(policy, input, fare)
      PROVE  \E left \in CheckedSubtract(fare, FromMinorUnits(Min({policy.transferDiscount.units, fare.units}), policy.currency)) :
               r = [discount |-> FromMinorUnits(Min({policy.transferDiscount.units, fare.units}), policy.currency), fare |-> left]
  BY SMTT(30) DEF ApplyTransfer
<1>2. ASSUME NEW left \in CheckedSubtract(fare, FromMinorUnits(Min({policy.transferDiscount.units, fare.units}), policy.currency))
      PROVE  [discount |-> FromMinorUnits(Min({policy.transferDiscount.units, fare.units}), policy.currency), fare |-> left] \in ApplyTransfer(policy, input, fare)
  BY SMTT(30) DEF ApplyTransfer
<1> QED
  BY <1>1, <1>2

LEMMA NoTransfer ==
    ASSUME NEW policy, NEW input, NEW fare, ValidAmount(policy, fare),
           TransferIsEligible(policy, input.time, input.previous) = {FALSE}
    PROVE  ApplyTransfer(policy, input, fare) =
             {[discount |-> Zero(policy.currency), fare |-> left] :
                left \in CheckedSubtract(fare, Zero(policy.currency))}
<1>1. ASSUME NEW r \in ApplyTransfer(policy, input, fare)
      PROVE  \E left \in CheckedSubtract(fare, Zero(policy.currency)) :
               r = [discount |-> Zero(policy.currency), fare |-> left]
  BY SMTT(30) DEF ApplyTransfer
<1>2. ASSUME NEW left \in CheckedSubtract(fare, Zero(policy.currency))
      PROVE  [discount |-> Zero(policy.currency), fare |-> left] \in ApplyTransfer(policy, input, fare)
  BY SMTT(30) DEF ApplyTransfer
<1> QED
  BY <1>1, <1>2

(* apply_transfer fails only on a previous fare from the future; the discount is
   what the reference subtracts. *)
LEMMA ApplyTransferIs ==
    ASSUME NEW policy, NEW input, Admitted(policy, input), NEW n \in 0..MaxUnits
    PROVE  LET t == TransferUnits(policy, input, n)
           IN  /\ t \in 0..n
               /\ ApplyTransfer(policy, input, FromMinorUnits(n, policy.currency)) =
                    IF input.previous # NULL /\ input.previous > input.time THEN {}
                    ELSE {[discount |-> FromMinorUnits(t, policy.currency),
                           fare |-> FromMinorUnits(n - t, policy.currency)]}
(* The smaller of two or three amounts, as Min computes it for the transfer
   discount and the capped fare. *)
<1>SmallerOfTwo. ASSUME NEW a \in Int, NEW b \in Int
                 PROVE  Min({a, b}) = IF a <= b THEN a ELSE b
  <2>. USE <1>SmallerOfTwo
  <2>1. \E m \in {a, b} : \A y \in {a, b} : m <= y
    BY SMTT(30)
  <2>2. /\ Min({a, b}) \in {a, b}
        /\ \A y \in {a, b} : Min({a, b}) <= y
    BY <2>1 DEF Min
  <2>3. PICK m : m = Min({a, b})
    OBVIOUS
  <2>4. m \in {a, b} /\ m <= a /\ m <= b
    BY <2>2, <2>3
  <2>5. m = IF a <= b THEN a ELSE b
    BY <2>4, SMTT(30)
  <2> QED
    BY <2>3, <2>5
<1>0. ValidPolicy(policy) /\ input \in FareEvaluationInput
  BY DEF Admitted
<1>1. PICK c : c = policy.currency
  OBVIOUS
<1>2. PICK td \in 0..MaxUnits : td = policy.transferDiscount.units
  BY <1>0, PolicyFacts
<1>3. n \in Int /\ td \in Int /\ 0 <= n /\ 0 <= td
  BY FareEngineAssumption, SMTT(30)
<1>4. Min({td, n}) = IF td <= n THEN td ELSE n
  BY <1>3, <1>SmallerOfTwo
<1>5. PICK t \in 0..n : t = TransferUnits(policy, input, n)
  BY <1>2, <1>3, SMTT(30) DEF TransferUnits
<1>6. ValidAmount(policy, FromMinorUnits(n, c))
  BY <1>1, RecordFareIsAmount
<1>7. /\ input.time \in Nat
      /\ input.previous # NULL => input.previous \in Nat
      /\ policy.transferWindow \in Nat
  BY <1>0, PolicyFacts DEF FareEvaluationInput
<1>8. CASE input.previous # NULL /\ input.previous > input.time
  <2>1. TransferIsEligible(policy, input.time, input.previous) = {}
    BY <1>8 DEF TransferIsEligible
  <2>2. ApplyTransfer(policy, input, FromMinorUnits(n, c)) = {}
    BY <2>1, <1>6 DEF ApplyTransfer
  <2> QED
    BY <1>1, <1>5, <1>8, <2>2
<1>9. CASE ~(input.previous # NULL /\ input.previous > input.time)
  <2>1. /\ Transfers(policy, input) =>
             TransferIsEligible(policy, input.time, input.previous) = {TRUE}
        /\ ~Transfers(policy, input) =>
             TransferIsEligible(policy, input.time, input.previous) = {FALSE}
    <3>1. CASE input.previous = NULL
      BY <3>1 DEF TransferIsEligible, Transfers
    <3>2. CASE input.previous # NULL
      <4>1. PICK p \in Nat : p = input.previous
        BY <3>2, <1>7
      <4>2. PICK w \in Nat : w = policy.transferWindow
        BY <1>7
      <4>3. PICK time \in Nat : time = input.time
        BY <1>7
      <4>4. ~(p > time)
        BY <4>1, <4>3, <3>2, <1>9
      <4>5. time - p <= w <=> time \in p..(p + w)
        BY <4>4, SMTT(30)
      <4>6. Transfers(policy, input) <=> time \in p..(p + w)
        BY <4>1, <4>2, <4>3, <3>2 DEF Transfers
      <4>7. TransferIsEligible(policy, time, p) = {time - p <= w}
        BY <4>1, <4>2, <4>4, <3>2 DEF TransferIsEligible
      <4>8. CASE Transfers(policy, input)
        <5>1. (time - p <= w) = TRUE
          BY <4>5, <4>6, <4>8
        <5> QED
          BY <4>1, <4>3, <4>7, <4>8, <5>1
      <4>9. CASE ~Transfers(policy, input)
        <5>1. (time - p <= w) = FALSE
          BY <4>5, <4>6, <4>9, SMTT(30)
        <5> QED
          BY <4>1, <4>3, <4>7, <4>9, <5>1
      <4> QED
        BY <4>8, <4>9
    <3> QED
      BY <3>1, <3>2
  <2>2. (IF Transfers(policy, input)
         THEN FromMinorUnits(Min({policy.transferDiscount.units, FromMinorUnits(n, c).units}), policy.currency)
         ELSE Zero(policy.currency)) = FromMinorUnits(t, c)
    <3>1. FromMinorUnits(n, c).units = n
      BY DEF FromMinorUnits
    <3> QED
      BY <3>1, <1>1, <1>2, <1>4, <1>5 DEF Zero, TransferUnits
  <2>3. CheckedSubtract(FromMinorUnits(n, c), FromMinorUnits(t, c)) = {FromMinorUnits(n - t, c)}
    BY SubtractPart, SMTT(30)
  <2>4. ApplyTransfer(policy, input, FromMinorUnits(n, c)) =
          {[discount |-> FromMinorUnits(t, c), fare |-> FromMinorUnits(n - t, c)]}
    <3>1. PICK fare : fare = FromMinorUnits(n, c)
      OBVIOUS
    <3>5. CASE Transfers(policy, input)
      <4>1. FromMinorUnits(Min({policy.transferDiscount.units, fare.units}), policy.currency) = FromMinorUnits(t, c)
        BY <2>2, <3>1, <3>5
      <4>2. ValidAmount(policy, fare)
        BY <1>6, <3>1
      <4>3. TransferIsEligible(policy, input.time, input.previous) = {TRUE}
        BY <2>1, <3>5
      <4>4. ApplyTransfer(policy, input, fare) =
              {[discount |-> FromMinorUnits(Min({policy.transferDiscount.units, fare.units}), policy.currency), fare |-> left] :
                 left \in CheckedSubtract(fare, FromMinorUnits(Min({policy.transferDiscount.units, fare.units}), policy.currency))}
        BY <4>2, <4>3, EligibleTransfer
      <4>5. ApplyTransfer(policy, input, fare) =
              {[discount |-> FromMinorUnits(t, c), fare |-> left] : left \in {FromMinorUnits(n - t, c)}}
        BY <2>3, <3>1, <4>1, <4>4
      <4> QED
        BY <3>1, <4>5
    <3>6. CASE ~Transfers(policy, input)
      <4>1. Zero(policy.currency) = FromMinorUnits(t, c)
        BY <2>2, <3>1, <3>6
      <4>2. ValidAmount(policy, fare)
        BY <1>6, <3>1
      <4>3. TransferIsEligible(policy, input.time, input.previous) = {FALSE}
        BY <2>1, <3>6
      <4>4. ApplyTransfer(policy, input, fare) =
              {[discount |-> Zero(policy.currency), fare |-> left] :
                 left \in CheckedSubtract(fare, Zero(policy.currency))}
        BY <4>2, <4>3, NoTransfer
      <4>5. ApplyTransfer(policy, input, fare) =
              {[discount |-> FromMinorUnits(t, c), fare |-> left] : left \in {FromMinorUnits(n - t, c)}}
        BY <2>3, <3>1, <4>1, <4>4
      <4> QED
        BY <3>1, <4>5
    <3> QED
      BY <3>5, <3>6
  <2> QED
    BY <1>1, <1>5, <1>9, <2>4
<1> QED
  BY <1>8, <1>9

(* The fare that apply_fare_caps leaves of n units. *)
CappedTo(policy, input, n) ==
    Min({n, Larger(policy.dailyCap.units - input.history.daily.units, 0),
         Larger(policy.weeklyCap.units - input.history.weekly.units, 0)})

(* A history that apply_fare_caps accepts. *)
HistoryValid(policy, history) ==
    /\ ValidAmount(policy, history.daily)
    /\ ValidAmount(policy, history.weekly)
    /\ history.daily.units <= history.weekly.units

LEMMA ApplyFareCapsIs ==
    ASSUME NEW policy, NEW input, Admitted(policy, input), NEW n \in 0..MaxUnits
    PROVE  LET m == CappedTo(policy, input, n)
               history == input.history
               sums == [dailySum |-> history.daily.units + m, weeklySum |-> history.weekly.units + m]
           IN  /\ ~HistoryValid(policy, history) =>
                    ApplyFareCaps(policy, history, FromMinorUnits(n, policy.currency)) = {}
               /\ HistoryValid(policy, history) =>
                    /\ m \in 0..n
                    /\ sums.dailySum \in Units /\ sums.weeklySum \in Units
                    /\ ApplyFareCaps(policy, history, FromMinorUnits(n, policy.currency)) =
                         {[fare |-> FromMinorUnits(m, policy.currency),
                           discount |-> FromMinorUnits(n - m, policy.currency), sums |-> sums]}
<1>SmallestOfThree. ASSUME NEW a \in Int, NEW b \in Int, NEW c \in Int
                    PROVE  /\ Min({a, b, c}) \in {a, b, c}
                           /\ Min({a, b, c}) <= a
                           /\ Min({a, b, c}) <= b
                           /\ Min({a, b, c}) <= c
  <2>. USE <1>SmallestOfThree
  <2>1. \E m \in {a, b, c} : \A y \in {a, b, c} : m <= y
    <3>1. CASE a <= b /\ a <= c
      BY <3>1, SMTT(30)
    <3>2. CASE b <= a /\ b <= c
      BY <3>2, SMTT(30)
    <3>3. CASE c <= a /\ c <= b
      BY <3>3, SMTT(30)
    <3> QED
      BY <3>1, <3>2, <3>3, SMTT(30)
  <2> QED
    BY <2>1 DEF Min
(* What is left of a cap after the charges of its period. *)
<1>AllowanceIs. ASSUME NEW c, NEW cap \in 0..MaxUnits, NEW charged \in 0..MaxUnits
                PROVE  /\ Larger(cap - charged, 0) \in 0..MaxUnits
                       /\ RemainingAllowance(FromMinorUnits(cap, c), FromMinorUnits(charged, c)) =
                            {FromMinorUnits(Larger(cap - charged, 0), c)}
  <2>. USE <1>AllowanceIs
  <2>1. Larger(cap - charged, 0) \in 0..MaxUnits
    BY FareEngineAssumption, SMTT(30) DEF Larger
  <2>2. CASE charged >= cap
    <3>1. Larger(cap - charged, 0) = 0
      BY <2>2, FareEngineAssumption, SMTT(30) DEF Larger
    <3> QED
      BY <3>1, <2>1, <2>2 DEF RemainingAllowance, Zero, FromMinorUnits
  <2>3. CASE ~(charged >= cap)
    <3>1. Larger(cap - charged, 0) = cap - charged /\ charged \in 0..cap
      BY <2>3, FareEngineAssumption, SMTT(30) DEF Larger
    <3>2. CheckedSubtract(FromMinorUnits(cap, c), FromMinorUnits(charged, c)) = {FromMinorUnits(cap - charged, c)}
      BY <3>1, SubtractPart
    <3>3. FromMinorUnits(cap, c).units = cap /\ FromMinorUnits(charged, c).units = charged
      BY DEF FromMinorUnits
    <3> QED
      BY <3>1, <3>2, <3>3, <2>1, <2>3 DEF RemainingAllowance
  <2> QED
    BY <2>2, <2>3
<1>0. ValidPolicy(policy) /\ input \in FareEvaluationInput
  BY DEF Admitted
<1>1. PICK c : c = policy.currency
  OBVIOUS
<1>2. PICK history : history = input.history
  OBVIOUS
<1>3. history.daily \in Money /\ history.weekly \in Money
  BY <1>0, <1>2 DEF FareEvaluationInput, FareCapHistory
<1>4. ValidAmount(policy, FromMinorUnits(n, c))
  BY <1>1, RecordFareIsAmount
<1>5. CASE ~HistoryValid(policy, history)
  BY <1>1, <1>2, <1>5 DEF ApplyFareCaps, HistoryValid
<1>6. CASE HistoryValid(policy, history)
  <2>1. PICK dd \in 0..MaxUnits : dd = history.daily.units /\ history.daily = FromMinorUnits(dd, c)
    BY <1>1, <1>3, <1>6, AmountFacts DEF HistoryValid
  <2>2. PICK ww \in 0..MaxUnits : ww = history.weekly.units /\ history.weekly = FromMinorUnits(ww, c)
    BY <1>1, <1>3, <1>6, AmountFacts DEF HistoryValid
  <2>3. PICK dc \in 0..MaxUnits : dc = policy.dailyCap.units /\ policy.dailyCap = FromMinorUnits(dc, c)
    BY <1>0, <1>1, PolicyFacts
  <2>4. PICK wc \in 0..MaxUnits : wc = policy.weeklyCap.units /\ policy.weeklyCap = FromMinorUnits(wc, c)
    BY <1>0, <1>1, PolicyFacts
  <2>5. PICK day \in 0..MaxUnits : /\ day = Larger(dc - dd, 0)
                                   /\ RemainingAllowance(policy.dailyCap, history.daily) = {FromMinorUnits(day, c)}
    <3>1. /\ Larger(dc - dd, 0) \in 0..MaxUnits
          /\ RemainingAllowance(FromMinorUnits(dc, c), FromMinorUnits(dd, c)) =
               {FromMinorUnits(Larger(dc - dd, 0), c)}
      BY <1>AllowanceIs
    <3> QED
      BY <2>1, <2>3, <3>1
  <2>6. PICK week \in 0..MaxUnits : /\ week = Larger(wc - ww, 0)
                                    /\ RemainingAllowance(policy.weeklyCap, history.weekly) = {FromMinorUnits(week, c)}
    <3>1. /\ Larger(wc - ww, 0) \in 0..MaxUnits
          /\ RemainingAllowance(FromMinorUnits(wc, c), FromMinorUnits(ww, c)) =
               {FromMinorUnits(Larger(wc - ww, 0), c)}
      BY <1>AllowanceIs
    <3> QED
      BY <2>2, <2>4, <3>1
  <2>7. PICK m \in 0..n : m = Min({n, day, week}) /\ m <= day /\ m <= week
    <3>1. n \in Int /\ day \in Int /\ week \in Int
      BY FareEngineAssumption, SMTT(30)
    <3>2. PICK m : m = Min({n, day, week})
      OBVIOUS
    <3>3. m \in {n, day, week} /\ m <= n /\ m <= day /\ m <= week
      BY <3>1, <3>2, <1>SmallestOfThree
    <3>4. m \in 0..n
      BY <3>3, FareEngineAssumption, SMTT(30)
    <3> QED
      BY <3>2, <3>3, <3>4
  <2>8. CappedTo(policy, input, n) = m
    BY <1>2, <2>1, <2>2, <2>3, <2>4, <2>5, <2>6, <2>7 DEF CappedTo
  <2>9. dd + m \in Units /\ ww + m \in Units
    BY <2>5, <2>6, <2>7, FareEngineAssumption, SMTT(30) DEF Larger, Units
  <2>10. CappedUnits(FromMinorUnits(n, c), FromMinorUnits(day, c), FromMinorUnits(week, c)) = m
    BY <2>7 DEF CappedUnits, FromMinorUnits
  <2>11. CheckedSubtract(FromMinorUnits(n, c), FromMinorUnits(m, c)) = {FromMinorUnits(n - m, c)}
    BY SubtractPart, SMTT(30)
  <2>12. PICK sums : sums = [dailySum |-> dd + m, weeklySum |-> ww + m]
    OBVIOUS
  <2>13. CapSums(history, FromMinorUnits(n, c), FromMinorUnits(m, c)) = sums
    BY <2>1, <2>2, <2>12 DEF CapSums, FromMinorUnits
  <2>14. /\ \A amount \in {history.daily, history.weekly, FromMinorUnits(n, c)} : ValidAmount(policy, amount)
         /\ history.daily.units <= history.weekly.units
    BY <1>4, <1>6 DEF HistoryValid
  <2>15. ApplyFareCaps(policy, history, FromMinorUnits(n, c)) =
           {[fare |-> FromMinorUnits(m, c), discount |-> FromMinorUnits(n - m, c), sums |-> sums]}
    BY <1>1, <2>5, <2>6, <2>10, <2>11, <2>13, <2>14, SMTT(30) DEF ApplyFareCaps
  <2> QED
    BY <1>1, <1>2, <1>6, <2>1, <2>2, <2>8, <2>9, <2>12, <2>15
<1> QED
  BY <1>2, <1>5, <1>6

(* The product's verdict on a journey, and the units it covers. *)
ProductOutcome(input) ==
    IF input.product = NULL THEN "not_presented" ELSE DetermineOutcome(input.product, input)

ProductUnits(input, n) == IF ProductOutcome(input) = "covered" THEN n ELSE 0

(* apply_transit_product never fails on a valid fare. *)
LEMMA ApplyTransitProductIs ==
    ASSUME NEW policy, NEW input, Admitted(policy, input), NEW n \in 0..MaxUnits
    PROVE  LET x == ProductUnits(input, n)
           IN  /\ x \in 0..n
               /\ ProductOutcome(input) \in ProductApplicationOutcome
               /\ ProductOutcome(input) = "not_presented" <=> input.product = NULL
               /\ ApplyTransitProduct(policy, input, FromMinorUnits(n, policy.currency)) =
                    {[outcome |-> ProductOutcome(input),
                      discount |-> FromMinorUnits(x, policy.currency),
                      fare |-> FromMinorUnits(n - x, policy.currency)]}
<1>1. PICK c : c = policy.currency
  OBVIOUS
<1>2. PICK x \in 0..n : x = ProductUnits(input, n)
  BY FareEngineAssumption, SMTT(30) DEF ProductUnits
<1>3. /\ ProductOutcome(input) \in ProductApplicationOutcome
      /\ ProductOutcome(input) = "not_presented" <=> input.product = NULL
  BY DEF ProductOutcome, DetermineOutcome, ProductApplicationOutcome
<1>4. ValidAmount(policy, FromMinorUnits(n, c))
  BY <1>1, RecordFareIsAmount
<1>5. (IF ProductOutcome(input) = "covered" THEN FromMinorUnits(n, c) ELSE Zero(policy.currency))
        = FromMinorUnits(x, c)
  BY <1>1, <1>2 DEF ProductUnits, Zero
<1>6. CheckedSubtract(FromMinorUnits(n, c), FromMinorUnits(x, c)) = {FromMinorUnits(n - x, c)}
  BY SubtractPart
<1>7. ApplyTransitProduct(policy, input, FromMinorUnits(n, c)) =
        {[outcome |-> ProductOutcome(input), discount |-> FromMinorUnits(x, c), fare |-> left] :
           left \in {FromMinorUnits(n - x, c)}}
  BY <1>4, <1>5, <1>6 DEF ApplyTransitProduct, ProductOutcome
<1> QED
  BY <1>1, <1>2, <1>3, <1>7

(* The outcome is one, and follows from the fare that the product leaves. *)
LEMMA OutcomesIs ==
    ASSUME NEW policy, NEW input, Admitted(policy, input), ValidAmount(policy, input.balance),
           NEW n \in 0..MaxUnits, NEW transfer, NEW caps, NEW product,
           product.outcome = ProductOutcome(input),
           product.fare = FromMinorUnits(n, policy.currency)
    PROVE  \E o \in FareEvaluationOutcome :
             /\ Outcomes(policy, input, transfer, caps, product) = {o}
             /\ input.product = NULL => /\ o.approved <=> input.balance.units >= n
                                        /\ o.approved => o.charged.units = n
             /\ input.product # NULL => o.charged.units = 0
<1>0. ValidPolicy(policy) /\ input \in FareEvaluationInput
  BY DEF Admitted
<1>1. PICK c \in Currency : c = policy.currency
  BY <1>0, PolicyFacts
<1>2. /\ ProductOutcome(input) \in ProductApplicationOutcome
      /\ ProductOutcome(input) = "not_presented" <=> input.product = NULL
  BY ApplyTransitProductIs
<1>3. 0 \in Units /\ n \in Units
  BY FareEngineAssumption, SMTT(30) DEF Units
<1>4. PICK b \in 0..MaxUnits : b = input.balance.units /\ input.balance = FromMinorUnits(b, c)
  <2>1. input.balance \in Money
    BY <1>0 DEF FareEvaluationInput
  <2> QED
    BY <1>1, <2>1, AmountFacts
<1>5. \A reason \in FareRejectionReason :
        Rejected(c, reason) \in FareEvaluationOutcome /\ Rejected(c, reason).charged.units = 0
          /\ ~Rejected(c, reason).approved
  BY DEF Rejected, FareEvaluationOutcome, Zero, FromMinorUnits
<1>6. \A u \in Units, reason \in FareApprovalReason :
        /\ Approved(FromMinorUnits(u, c), reason) \in FareEvaluationOutcome
        /\ Approved(FromMinorUnits(u, c), reason).charged.units = u
        /\ Approved(FromMinorUnits(u, c), reason).approved
  BY <1>1 DEF Approved, FareEvaluationOutcome, FromMinorUnits, Money
<1>7. CASE product.outcome = "covered"
  <2>1. Outcomes(policy, input, transfer, caps, product) =
          {Approved(FromMinorUnits(0, c), "transit_product")}
    BY <1>1, <1>7 DEF Outcomes, Zero
  <2>2. "transit_product" \in FareApprovalReason /\ input.product # NULL
    BY <1>2, <1>7 DEF FareApprovalReason
  <2> QED
    BY <1>3, <1>6, <2>1, <2>2
<1>8. CASE product.outcome = "not_presented"
  <2>1. input.product = NULL
    BY <1>2, <1>8
  <2>2. PICK reason \in FareApprovalReason : reason = StoredValueReason(transfer.discount, caps.discount)
    BY SMTT(30) DEF StoredValueReason, FareApprovalReason
  <2>3. Outcomes(policy, input, transfer, caps, product) =
          EvaluateStoredValue(FromMinorUnits(b, c), FromMinorUnits(n, c), reason)
    BY <1>1, <1>4, <1>8, <2>2 DEF Outcomes
  <2>4. CASE b < n
    <3>1. EvaluateStoredValue(FromMinorUnits(b, c), FromMinorUnits(n, c), reason) =
            {Rejected(c, "insufficient_stored_value")}
      BY <2>4 DEF EvaluateStoredValue, FromMinorUnits, Comparable
    <3>2. "insufficient_stored_value" \in FareRejectionReason /\ ~(b >= n)
      BY <2>4, FareEngineAssumption, SMTT(30) DEF FareRejectionReason
    <3> QED
      BY <1>4, <1>5, <2>1, <2>3, <3>1, <3>2
  <2>5. CASE ~(b < n)
    <3>1. EvaluateStoredValue(FromMinorUnits(b, c), FromMinorUnits(n, c), reason) =
            {Approved(FromMinorUnits(n, c), reason)}
      BY <2>5 DEF EvaluateStoredValue, FromMinorUnits, Comparable
    <3>2. b >= n
      BY <2>5, FareEngineAssumption, SMTT(30)
    <3> QED
      BY <1>3, <1>4, <1>6, <2>1, <2>3, <3>1, <3>2
  <2> QED
    BY <2>4, <2>5
<1>9. CASE product.outcome # "covered" /\ product.outcome # "not_presented"
  <2>1. Outcomes(policy, input, transfer, caps, product) = {Rejected(c, "product_invalid")}
    BY <1>1, <1>9 DEF Outcomes
  <2>2. "product_invalid" \in FareRejectionReason /\ input.product # NULL
    BY <1>2, <1>9 DEF FareRejectionReason
  <2> QED
    BY <1>5, <2>1, <2>2
<1> QED
  BY <1>7, <1>8, <1>9

(* evaluate_fare fails as soon as one stage fails, and otherwise returns the
   evidence of the stages. *)
LEMMA StagesCompose ==
    ASSUME NEW policy, NEW input, ValidAmount(policy, input.balance),
           NEW d, NEW t, NEW c, NEW p, NEW o,
           DiscountedFare(policy, input) = {d},
           ApplyTransfer(policy, input, d.fare) = {t},
           ApplyFareCaps(policy, input.history, t.fare) = {c},
           ApplyTransitProduct(policy, input, c.fare) = {p},
           Outcomes(policy, input, t, c, p) = {o}
    PROVE  EvaluateFare(policy, input) =
             {[outcome |-> o, discounted |-> d, transfer |-> t, caps |-> c, product |-> p]}
BY SMTT(30) DEF EvaluateFare

LEMMA StagesFail ==
    ASSUME NEW policy, NEW input
    PROVE  /\ ~ValidAmount(policy, input.balance) => EvaluateFare(policy, input) = {}
           /\ DiscountedFare(policy, input) = {} => EvaluateFare(policy, input) = {}
           /\ (\A d \in DiscountedFare(policy, input) : ApplyTransfer(policy, input, d.fare) = {}) =>
                EvaluateFare(policy, input) = {}
           /\ (\A d \in DiscountedFare(policy, input) :
                 \A t \in ApplyTransfer(policy, input, d.fare) :
                   ApplyFareCaps(policy, input.history, t.fare) = {}) =>
                EvaluateFare(policy, input) = {}
BY SMTT(30) DEF EvaluateFare

(* The evidence that evaluate_fare returns for a fare of full units reduced by d,
   t and x, capped to m. *)
EvidenceOf(policy, input, o, full, d, t, m, x) ==
    LET Cash(n) == FromMinorUnits(n, policy.currency)
    IN  [outcome |-> o,
         discounted |-> [before |-> Cash(full), discount |-> Cash(d), fare |-> Cash(full - d)],
         transfer |-> [discount |-> Cash(t), fare |-> Cash(full - d - t)],
         caps |-> [fare |-> Cash(m), discount |-> Cash(full - d - t - m),
                   sums |-> [dailySum |-> input.history.daily.units + m,
                             weeklySum |-> input.history.weekly.units + m]],
         product |-> [outcome |-> ProductOutcome(input), discount |-> Cash(x), fare |-> Cash(m - x)]]

(* The units that the stages subtract. *)
StageUnits(policy, input, full, d, t, m, x) ==
    /\ full \in 0..MaxUnits
    /\ d \in 0..full
    /\ t \in 0..(full - d)
    /\ m \in 0..(full - d - t)
    /\ x \in 0..m
    /\ input.product = NULL => x = 0
    /\ input.history.daily.units + m \in Units
    /\ input.history.weekly.units + m \in Units
    /\ m = ReferenceUnits(policy, input)

(* What the outcome says of a fare of n units. *)
OutcomeFollows(input, o, n) ==
    /\ o \in FareEvaluationOutcome
    /\ input.product = NULL => /\ o.approved <=> input.balance.units >= n
                               /\ o.approved => o.charged.units = n
    /\ input.product # NULL => o.charged.units = 0

(* The documented errors are those of the stages. *)
LEMMA NotErroneous ==
    ASSUME NEW policy, NEW input, Admitted(policy, input)
    PROVE  ~Erroneous(policy, input) <=>
             /\ ValidAmount(policy, input.balance)
             /\ HistoryValid(policy, input.history)
             /\ ~(input.previous # NULL /\ input.previous > input.time)
             /\ ~(FullFareUnits(policy, input) > MaxUnits)
<1>1. input.history.daily \in Money /\ input.history.weekly \in Money
  BY DEF Admitted, FareEvaluationInput, FareCapHistory
<1>2. input.history.daily.units \in Int /\ input.history.weekly.units \in Int
  BY <1>1, RangeOfUnits DEF Money
<1>3. ~(input.history.daily.units > input.history.weekly.units) <=>
        input.history.daily.units <= input.history.weekly.units
  BY <1>2, SMTT(30)
<1> QED
  BY <1>3 DEF Erroneous, HistoryValid

(* The stages give the reference fare. *)
LEMMA ReferenceIs ==
    ASSUME NEW policy, NEW input, Admitted(policy, input),
           NEW full \in 0..MaxUnits, full = FullFareUnits(policy, input),
           NEW d \in 0..full, d = (full * policy.discount[input.eligibility]) \div FullFare,
           NEW t, t = TransferUnits(policy, input, full - d)
    PROVE  ReferenceUnits(policy, input) = CappedTo(policy, input, full - d - t)
<1>1. PICK n \in Nat : n = full - d
  BY FareEngineAssumption, SMTT(30)
<1>2. PICK td \in Nat : td = policy.transferDiscount.units
  BY PolicyFacts, FareEngineAssumption, SMTT(30) DEF Admitted
<1>3. CASE Transfers(policy, input)
  <2>1. t = IF td <= n THEN td ELSE n
    BY <1>1, <1>2, <1>3 DEF TransferUnits
  <2>2. Larger(n - td, 0) = n - t
    BY <2>1, SMTT(30) DEF Larger
  <2> QED
    BY <1>1, <1>2, <1>3, <2>2 DEF ReferenceUnits, CappedTo
<1>4. CASE ~Transfers(policy, input)
  <2>1. t = 0
    BY <1>4 DEF TransferUnits
  <2>2. n - t = n
    BY <2>1, SMTT(30)
  <2> QED
    BY <1>1, <1>4, <2>2 DEF ReferenceUnits, CappedTo
<1> QED
  BY <1>3, <1>4

(* evaluate_fare fails on the documented errors and on nothing else; otherwise it
   returns the evidence of the stages and an outcome that follows from it. *)
LEMMA EvaluateFareIs ==
    ASSUME NEW policy, NEW input, Admitted(policy, input)
    PROVE  /\ Erroneous(policy, input) => EvaluateFare(policy, input) = {}
           /\ ~Erroneous(policy, input) =>
                \E full, d, t, m, x, o :
                  /\ StageUnits(policy, input, full, d, t, m, x)
                  /\ OutcomeFollows(input, o, m)
                  /\ EvaluateFare(policy, input) = {EvidenceOf(policy, input, o, full, d, t, m, x)}
<1>1. PICK full \in Nat : full = FullFareUnits(policy, input)
  BY DiscountedFareIs
<1>2. PICK d \in 0..full : d = (full * policy.discount[input.eligibility]) \div FullFare
  BY <1>1, DiscountedFareIs
<1>3. PICK c : c = policy.currency
  OBVIOUS
<1>4. PICK n : n = full - d
  OBVIOUS
<1>5. PICK first : first = [before |-> FromMinorUnits(full, c), discount |-> FromMinorUnits(d, c),
                            fare |-> FromMinorUnits(n, c)]
  OBVIOUS
<1>6. DiscountedFare(policy, input) = IF full > MaxUnits THEN {} ELSE {first}
  BY <1>1, <1>2, <1>3, <1>4, <1>5, DiscountedFareIs
<1>7. CASE ~ValidAmount(policy, input.balance)
  <2>1. Erroneous(policy, input)
    BY <1>7, NotErroneous
  <2> QED
    BY <1>7, <2>1, StagesFail
<1>8. CASE full > MaxUnits
  <2>1. Erroneous(policy, input)
    BY <1>1, <1>8, NotErroneous
  <2> QED
    BY <1>6, <1>8, <2>1, StagesFail
<1>9. ASSUME ValidAmount(policy, input.balance), ~(full > MaxUnits)
      PROVE  /\ Erroneous(policy, input) => EvaluateFare(policy, input) = {}
             /\ ~Erroneous(policy, input) =>
                  \E m, t, x, o :
                    /\ StageUnits(policy, input, full, d, t, m, x)
                    /\ OutcomeFollows(input, o, m)
                    /\ EvaluateFare(policy, input) = {EvidenceOf(policy, input, o, full, d, t, m, x)}
  <2>1. full \in 0..MaxUnits /\ n \in 0..MaxUnits
    BY <1>4, <1>9, FareEngineAssumption, SMTT(30)
  <2>2. DiscountedFare(policy, input) = {first} /\ first.fare = FromMinorUnits(n, c)
    BY <1>5, <1>6, <1>9
  <2>3. PICK t \in 0..n : t = TransferUnits(policy, input, n)
    BY <2>1, ApplyTransferIs
  <2>4. PICK r : r = n - t
    OBVIOUS
  <2>5. PICK second : second = [discount |-> FromMinorUnits(t, c), fare |-> FromMinorUnits(r, c)]
    OBVIOUS
  <2>6. ApplyTransfer(policy, input, FromMinorUnits(n, c)) =
          IF input.previous # NULL /\ input.previous > input.time THEN {} ELSE {second}
    BY <1>3, <2>1, <2>3, <2>4, <2>5, ApplyTransferIs
  <2>7. CASE input.previous # NULL /\ input.previous > input.time
    <3>1. Erroneous(policy, input)
      BY <2>7, NotErroneous
    <3>2. EvaluateFare(policy, input) = {}
      BY <2>2, <2>6, <2>7, StagesFail
    <3> QED
      BY <3>1, <3>2
  <2>8. ASSUME ~(input.previous # NULL /\ input.previous > input.time)
        PROVE  /\ Erroneous(policy, input) => EvaluateFare(policy, input) = {}
               /\ ~Erroneous(policy, input) =>
                    \E m, x, o :
                      /\ StageUnits(policy, input, full, d, t, m, x)
                      /\ OutcomeFollows(input, o, m)
                      /\ EvaluateFare(policy, input) = {EvidenceOf(policy, input, o, full, d, t, m, x)}
    <3>1. r \in 0..MaxUnits
      BY <2>1, <2>3, <2>4, FareEngineAssumption, SMTT(30)
    <3>2. ApplyTransfer(policy, input, first.fare) = {second} /\ second.fare = FromMinorUnits(r, c)
      BY <2>2, <2>5, <2>6, <2>8
    <3>3. CASE ~HistoryValid(policy, input.history)
      <4>1. Erroneous(policy, input)
        BY <3>3, NotErroneous
      <4>2. ApplyFareCaps(policy, input.history, FromMinorUnits(r, c)) = {}
        BY <1>3, <3>1, <3>3, ApplyFareCapsIs
      <4>3. EvaluateFare(policy, input) = {}
        BY <2>2, <3>2, <4>2, StagesFail
      <4> QED
        BY <4>1, <4>3
    <3>4. ASSUME HistoryValid(policy, input.history)
          PROVE  /\ Erroneous(policy, input) => EvaluateFare(policy, input) = {}
                 /\ ~Erroneous(policy, input) =>
                      \E m, x, o :
                        /\ StageUnits(policy, input, full, d, t, m, x)
                        /\ OutcomeFollows(input, o, m)
                        /\ EvaluateFare(policy, input) = {EvidenceOf(policy, input, o, full, d, t, m, x)}
      <4>1. PICK m : m = CappedTo(policy, input, r)
        OBVIOUS
      <4>2. PICK sums : sums = [dailySum |-> input.history.daily.units + m,
                                weeklySum |-> input.history.weekly.units + m]
        OBVIOUS
      <4>3. PICK third : third = [fare |-> FromMinorUnits(m, c), discount |-> FromMinorUnits(r - m, c),
                                  sums |-> sums]
        OBVIOUS
      <4>4. /\ m \in 0..r
            /\ input.history.daily.units + m \in Units
            /\ input.history.weekly.units + m \in Units
            /\ ApplyFareCaps(policy, input.history, FromMinorUnits(r, c)) = {third}
        BY <1>3, <3>1, <3>4, <4>1, <4>2, <4>3, ApplyFareCapsIs
      <4>5. m \in 0..MaxUnits
        BY <3>1, <4>4, FareEngineAssumption, SMTT(30)
      <4>6. PICK x : x = ProductUnits(input, m)
        OBVIOUS
      <4>7. PICK fourth : fourth = [outcome |-> ProductOutcome(input), discount |-> FromMinorUnits(x, c),
                                    fare |-> FromMinorUnits(m - x, c)]
        OBVIOUS
      <4>8. /\ x \in 0..m
            /\ ProductOutcome(input) = "not_presented" <=> input.product = NULL
            /\ ApplyTransitProduct(policy, input, FromMinorUnits(m, c)) = {fourth}
        BY <1>3, <4>5, <4>6, <4>7, ApplyTransitProductIs
      <4>9. input.product = NULL => x = 0 /\ m - x = m
        BY <4>5, <4>6, <4>8, FareEngineAssumption, SMTT(30) DEF ProductUnits
      <4>10. m - x \in 0..MaxUnits
        BY <4>5, <4>8, FareEngineAssumption, SMTT(30)
      <4>11. PICK o \in FareEvaluationOutcome :
               /\ Outcomes(policy, input, second, third, fourth) = {o}
               /\ input.product = NULL => /\ o.approved <=> input.balance.units >= m - x
                                          /\ o.approved => o.charged.units = m - x
               /\ input.product # NULL => o.charged.units = 0
        <5>1. /\ fourth.outcome = ProductOutcome(input)
              /\ fourth.fare = FromMinorUnits(m - x, policy.currency)
          BY <1>3, <4>7
        <5> QED
          BY <1>9, <4>10, <5>1, OutcomesIs, SMTT(30)
      <4>12. OutcomeFollows(input, o, m)
        BY <4>9, <4>11 DEF OutcomeFollows
      <4>13. m = ReferenceUnits(policy, input)
        <5>1. r = full - d - t
          BY <1>4, <2>4
        <5>2. t = TransferUnits(policy, input, full - d)
          BY <1>4, <2>3
        <5> QED
          BY <1>1, <1>2, <2>1, <4>1, <5>1, <5>2, ReferenceIs, SMTT(30)
      <4>14. StageUnits(policy, input, full, d, t, m, x)
        BY <1>2, <1>4, <2>1, <2>3, <2>4, <4>4, <4>8, <4>9, <4>13 DEF StageUnits
      <4>15. third.fare = FromMinorUnits(m, c)
        BY <4>3
      <4>16. EvaluateFare(policy, input) =
               {[outcome |-> o, discounted |-> first, transfer |-> second, caps |-> third, product |-> fourth]}
        BY <1>9, <2>2, <3>2, <4>4, <4>8, <4>11, <4>15, StagesCompose, SMTT(30)
      <4>17. EvidenceOf(policy, input, o, full, d, t, m, x) =
               [outcome |-> o, discounted |-> first, transfer |-> second, caps |-> third, product |-> fourth]
        BY <1>3, <1>4, <1>5, <2>4, <2>5, <4>2, <4>3, <4>7 DEF EvidenceOf
      <4>18. ~Erroneous(policy, input)
        BY <1>1, <1>9, <2>8, <3>4, NotErroneous
      <4> QED
        BY <4>12, <4>14, <4>16, <4>17, <4>18
    <3> QED
      BY <3>3, <3>4
  <2> QED
    BY <2>7, <2>8
<1> QED
  BY <1>7, <1>8, <1>9

(* Evidence accounts for every unit: what EvidenceAddsUp says of one evaluation. *)
Accounted(e) ==
    LET stages == {e.discounted, e.transfer, e.caps, e.product}
    IN  /\ e \in FareDecisionEvidence
        /\ \A stage \in stages : stage.fare.units >= 0 /\ stage.discount.units >= 0
        /\ e.discounted.before.units =
             e.product.fare.units + e.discounted.discount.units + e.transfer.discount.units
               + e.caps.discount.units + e.product.discount.units
        /\ {e.caps.sums.dailySum, e.caps.sums.weeklySum} \subseteq Units

LEMMA UnitsAddUp ==
    ASSUME NEW full \in Nat, NEW d \in 0..full, NEW t \in 0..(full - d), NEW m \in 0..(full - d - t),
           NEW x \in 0..m
    PROVE  full = (m - x) + d + t + (full - d - t - m) + x
BY SMTT(30)

(* Offline evaluation keeps the online evidence and replaces the outcome: by a
   rejection, or by a provisional approval of the same charge. *)
LEMMA OfflineIs ==
    ASSUME NEW policy, NEW input, NEW context,
           Admitted(policy, input), context \in OfflineEvaluationContext,
           NEW e \in EvaluateFareOffline(policy, input, context)
    PROVE  \E f \in EvaluateFare(policy, input) : \E o :
             /\ e = [f EXCEPT !.outcome = o]
             /\ \/ \E reason \in FareRejectionReason : o = Rejected(policy.currency, reason)
                \/ o = f.outcome /\ ~f.outcome.approved
                \/ /\ f.outcome.approved
                   /\ o = Approved(f.outcome.charged, "offline_provisional")
                   /\ ~(f.outcome.charged.units > context.limit.units)
                   /\ ~(context.policyCachedAt > input.time)
                   /\ ~(context.revocationCachedAt > input.time)
                   /\ ~(input.time - context.policyCachedAt > context.maximumPolicyAge)
                   /\ ~(input.time - context.revocationCachedAt > context.maximumRevocationAge)
<1>1. ValidAmount(policy, context.limit)
  BY DEF EvaluateFareOffline
<1>2. PICK a \in SnapshotAge(context.policyCachedAt, input.time),
           r \in SnapshotAge(context.revocationCachedAt, input.time),
           f \in EvaluateFare(policy, input) :
        e = CASE a > context.maximumPolicyAge ->
                   [f EXCEPT !.outcome = Rejected(policy.currency, "stale_policy")]
              [] a <= context.maximumPolicyAge /\ r > context.maximumRevocationAge ->
                   [f EXCEPT !.outcome = Rejected(policy.currency, "stale_revocation_data")]
              [] OTHER -> ApplyOfflineLimit(f, context.limit)
  BY <1>1, SMTT(30) DEF EvaluateFareOffline
<1>3. /\ ~(context.policyCachedAt > input.time) /\ a = input.time - context.policyCachedAt
      /\ ~(context.revocationCachedAt > input.time) /\ r = input.time - context.revocationCachedAt
  BY <1>2 DEF SnapshotAge
<1>4. /\ context.policyCachedAt \in Nat /\ context.maximumPolicyAge \in Nat
      /\ context.revocationCachedAt \in Nat /\ context.maximumRevocationAge \in Nat
      /\ input.time \in Nat
  BY DEF OfflineEvaluationContext, Admitted, FareEvaluationInput
<1>5. a \in Int /\ r \in Int
  BY <1>3, <1>4, SMTT(30)
<1>6. {"stale_policy", "stale_revocation_data", "offline_limit_exceeded"} \subseteq FareRejectionReason
  BY DEF FareRejectionReason
<1>7. CASE a > context.maximumPolicyAge
  <2>1. e = [f EXCEPT !.outcome = Rejected(policy.currency, "stale_policy")]
    BY <1>2, <1>4, <1>5, <1>7, SMTT(30)
  <2> QED
    BY <1>2, <1>6, <2>1
<1>8. CASE ~(a > context.maximumPolicyAge) /\ r > context.maximumRevocationAge
  <2>1. a <= context.maximumPolicyAge
    BY <1>4, <1>5, <1>8, SMTT(30)
  <2>2. e = [f EXCEPT !.outcome = Rejected(policy.currency, "stale_revocation_data")]
    BY <1>2, <1>8, <2>1
  <2> QED
    BY <1>2, <1>6, <2>2
<1>9. CASE ~(a > context.maximumPolicyAge) /\ ~(r > context.maximumRevocationAge)
  <2>1. e = ApplyOfflineLimit(f, context.limit)
    BY <1>2, <1>9
  <2>2. PICK o : o = IF ~f.outcome.approved THEN f.outcome
                     ELSE IF f.outcome.charged.units > context.limit.units
                     THEN Rejected(context.limit.currency, "offline_limit_exceeded")
                     ELSE Approved(f.outcome.charged, "offline_provisional")
    OBVIOUS
  <2>3. e = [f EXCEPT !.outcome = o]
    BY <2>1, <2>2 DEF ApplyOfflineLimit
  <2>4. context.limit.currency = policy.currency
    BY <1>1 DEF ValidAmount
  <2>5. CASE ~f.outcome.approved
    BY <1>2, <2>2, <2>3, <2>5
  <2>6. CASE f.outcome.approved /\ f.outcome.charged.units > context.limit.units
    <3>1. o = Rejected(policy.currency, "offline_limit_exceeded")
      BY <2>2, <2>4, <2>6
    <3> QED
      BY <1>2, <1>6, <2>3, <3>1
  <2>7. CASE f.outcome.approved /\ ~(f.outcome.charged.units > context.limit.units)
    <3>1. o = Approved(f.outcome.charged, "offline_provisional")
      BY <2>2, <2>7
    <3>2. /\ ~(input.time - context.policyCachedAt > context.maximumPolicyAge)
          /\ ~(input.time - context.revocationCachedAt > context.maximumRevocationAge)
      BY <1>3, <1>9
    <3> QED
      BY <1>2, <1>3, <2>3, <2>7, <3>1, <3>2
  <2> QED
    BY <2>5, <2>6, <2>7
<1> QED
  BY <1>7, <1>8, <1>9

(* What is stored after an evaluation: an admitted policy and input, a context,
   and the results of the two functions on them. *)
RulesInv ==
    evaluated # NULL =>
      /\ Admitted(evaluated.policy, evaluated.input)
      /\ evaluated.context \in OfflineEvaluationContext
      /\ evaluated.online = EvaluateFare(evaluated.policy, evaluated.input)
      /\ evaluated.offline =
           EvaluateFareOffline(evaluated.policy, evaluated.input, evaluated.context)

LEMMA RulesInvariant == RulesSpec => []RulesInv
<1>1. RulesInit => RulesInv
  BY DEF RulesInit, RulesInv
<1>2. RulesInv /\ [RulesNext]_evaluated => RulesInv'
  <2>1. SUFFICES ASSUME RulesInv, [RulesNext]_evaluated PROVE RulesInv'
    OBVIOUS
  <2>2. CASE UNCHANGED evaluated
    BY <2>1, <2>2 DEF RulesInv
  <2>3. CASE RulesNext
    <3>1. PICK policy \in RulesPolicy, input \in Input, context \in Context : Evaluate(policy, input, context)
      BY <2>3 DEF RulesNext
    <3>2. Admitted(policy, input) /\ context \in OfflineEvaluationContext
      BY <3>1 DEF Evaluate, Admitted
    <3>3. evaluated' = [policy |-> policy, input |-> input, context |-> context,
                        online |-> EvaluateFare(policy, input),
                        offline |-> EvaluateFareOffline(policy, input, context)]
      BY <3>1 DEF Evaluate
    <3> QED
      BY <3>2, <3>3 DEF RulesInv
  <2> QED
    BY <2>1, <2>2, <2>3
<1> QED
  BY <1>1, <1>2, PTL DEF RulesSpec

(* evaluate_fare charges the reference fare, on every policy and every input, and
   fails exactly on the errors it documents. *)
THEOREM ChargeAlwaysReference == RulesSpec => []ChargeIsReference
<1>1. RulesInv => ChargeIsReference
  <2>1. SUFFICES ASSUME RulesInv, evaluated # NULL PROVE ChargeIsReference
    BY DEF ChargeIsReference
  <2>2. PICK policy : policy = evaluated.policy
    OBVIOUS
  <2>3. PICK input : input = evaluated.input
    OBVIOUS
  <2>4. PICK online : online = evaluated.online
    OBVIOUS
  <2>5. Admitted(policy, input) /\ online = EvaluateFare(policy, input)
    BY <2>1, <2>2, <2>3, <2>4 DEF RulesInv
  <2>6. PICK reference : reference = ReferenceUnits(policy, input)
    OBVIOUS
  <2>7. /\ online = {} <=> Erroneous(policy, input)
        /\ \A e \in online :
             CASE input.product = NULL ->
                    /\ e.outcome.approved <=> input.balance.units >= reference
                    /\ e.outcome.approved => e.outcome.charged.units = reference
               [] OTHER -> e.outcome.charged.units = 0
    <3>1. CASE Erroneous(policy, input)
      <4>1. online = {}
        BY <2>5, <3>1, EvaluateFareIs
      <4> QED
        BY <3>1, <4>1
    <3>2. CASE ~Erroneous(policy, input)
      <4>1. PICK full, d, t, m, x, o :
              /\ StageUnits(policy, input, full, d, t, m, x)
              /\ OutcomeFollows(input, o, m)
              /\ EvaluateFare(policy, input) = {EvidenceOf(policy, input, o, full, d, t, m, x)}
        BY <2>5, <3>2, EvaluateFareIs
      <4>2. PICK e : e = EvidenceOf(policy, input, o, full, d, t, m, x)
        OBVIOUS
      <4>3. online = {e} /\ e.outcome = o
        BY <2>5, <4>1, <4>2 DEF EvidenceOf
      <4>4. m = reference
        BY <2>6, <4>1 DEF StageUnits
      <4> QED
        BY <3>2, <4>1, <4>3, <4>4 DEF OutcomeFollows
    <3> QED
      BY <3>1, <3>2
  <2> QED
    BY <2>2, <2>3, <2>4, <2>6, <2>7 DEF ChargeIsReference
<1> QED
  BY <1>1, RulesInvariant, PTL

(* The evidence accounts for every unit, online and offline, and the two sums that
   apply_fare_caps does not check stay in range. *)
THEOREM EvidenceAlwaysAddsUp == RulesSpec => []EvidenceAddsUp
<1>EvidenceAccounted. ASSUME NEW policy, NEW input, Admitted(policy, input),
                             NEW full, NEW d, NEW t, NEW m, NEW x, StageUnits(policy, input, full, d, t, m, x),
                             NEW o \in FareEvaluationOutcome
                      PROVE  Accounted(EvidenceOf(policy, input, o, full, d, t, m, x))
  <2>. USE <1>EvidenceAccounted
  <2>1. PICK c \in Currency : c = policy.currency
    BY PolicyFacts DEF Admitted
  <2>2. /\ full \in 0..MaxUnits
        /\ d \in 0..full
        /\ t \in 0..(full - d)
        /\ m \in 0..(full - d - t)
        /\ x \in 0..m
        /\ input.history.daily.units + m \in Units
        /\ input.history.weekly.units + m \in Units
    BY DEF StageUnits
  <2>3. full \in Nat /\ d \in Nat /\ t \in Nat /\ m \in Nat /\ x \in Nat /\ full <= MaxUnits
    BY <2>2, FareEngineAssumption, SMTT(30)
  <2>4. \A n \in 0..full : FromMinorUnits(n, c) \in Money /\ FromMinorUnits(n, c).units = n
    BY <2>3, FareEngineAssumption, SMTT(30) DEF FromMinorUnits, Money, Units
  <2>5. PICK a : a = full - d
    OBVIOUS
  <2>6. PICK b : b = full - d - t
    OBVIOUS
  <2>7. PICK g : g = full - d - t - m
    OBVIOUS
  <2>8. PICK h : h = m - x
    OBVIOUS
  <2>9. {full, d, a, t, b, m, g, x, h} \subseteq 0..full
    BY <2>2, <2>3, <2>5, <2>6, <2>7, <2>8, SMTT(30)
  <2>10. PICK first : first = [before |-> FromMinorUnits(full, c), discount |-> FromMinorUnits(d, c),
                               fare |-> FromMinorUnits(a, c)]
    OBVIOUS
  <2>11. PICK second : second = [discount |-> FromMinorUnits(t, c), fare |-> FromMinorUnits(b, c)]
    OBVIOUS
  <2>12. PICK sums : sums = [dailySum |-> input.history.daily.units + m,
                             weeklySum |-> input.history.weekly.units + m]
    OBVIOUS
  <2>13. PICK third : third = [fare |-> FromMinorUnits(m, c), discount |-> FromMinorUnits(g, c), sums |-> sums]
    OBVIOUS
  <2>14. PICK fourth : fourth = [outcome |-> ProductOutcome(input), discount |-> FromMinorUnits(x, c),
                                 fare |-> FromMinorUnits(h, c)]
    OBVIOUS
  <2>15. PICK e : e = [outcome |-> o, discounted |-> first, transfer |-> second, caps |-> third,
                       product |-> fourth]
    OBVIOUS
  <2>16. e = EvidenceOf(policy, input, o, full, d, t, m, x)
    BY <2>1, <2>5, <2>6, <2>7, <2>8, <2>10, <2>11, <2>12, <2>13, <2>14, <2>15 DEF EvidenceOf
  <2>17. e \in FareDecisionEvidence
    <3>1. first \in [before : Money, discount : Money, fare : Money]
      BY <2>4, <2>9, <2>10
    <3>2. second \in TransferApplication
      BY <2>4, <2>9, <2>11 DEF TransferApplication
    <3>3. sums \in [dailySum : Int, weeklySum : Int]
      BY <2>2, <2>12, RangeOfUnits
    <3>4. third \in FareCapApplication
      BY <2>4, <2>9, <2>13, <3>3 DEF FareCapApplication
    <3>5. ProductOutcome(input) \in ProductApplicationOutcome
      BY DEF ProductOutcome, DetermineOutcome, ProductApplicationOutcome
    <3>6. fourth \in ProductApplication
      BY <2>4, <2>9, <2>14, <3>5 DEF ProductApplication
    <3> QED
      BY <2>15, <3>1, <3>2, <3>4, <3>6 DEF FareDecisionEvidence
  <2>18. /\ first.before.units = full /\ first.discount.units = d /\ first.fare.units = a
         /\ second.discount.units = t /\ second.fare.units = b
         /\ third.discount.units = g /\ third.fare.units = m
         /\ fourth.discount.units = x /\ fourth.fare.units = h
    BY <2>4, <2>9, <2>10, <2>11, <2>13, <2>14
  <2>19. \A stage \in {first, second, third, fourth} : stage.fare.units >= 0 /\ stage.discount.units >= 0
    BY <2>3, <2>9, <2>18, SMTT(30)
  <2>20. full = h + d + t + g + x
    BY <2>2, <2>3, <2>7, <2>8, UnitsAddUp, SMTT(30)
  <2>21. /\ e.discounted = first /\ e.transfer = second /\ e.caps = third /\ e.product = fourth
         /\ third.sums = sums
    BY <2>13, <2>15
  <2>22. sums.dailySum \in Units /\ sums.weeklySum \in Units
    BY <2>2, <2>12
  <2> QED
    BY <2>16, <2>17, <2>18, <2>19, <2>20, <2>21, <2>22, SMTT(30) DEF Accounted
<1>1. RulesInv => EvidenceAddsUp
  <2>1. SUFFICES ASSUME RulesInv, evaluated # NULL PROVE EvidenceAddsUp
    BY DEF EvidenceAddsUp
  <2>2. PICK policy : policy = evaluated.policy
    OBVIOUS
  <2>3. PICK input : input = evaluated.input
    OBVIOUS
  <2>4. PICK context : context = evaluated.context
    OBVIOUS
  <2>5. /\ Admitted(policy, input)
        /\ context \in OfflineEvaluationContext
        /\ evaluated.online = EvaluateFare(policy, input)
        /\ evaluated.offline = EvaluateFareOffline(policy, input, context)
    BY <2>1, <2>2, <2>3, <2>4 DEF RulesInv
  <2>6. ASSUME NEW f \in EvaluateFare(policy, input)
        PROVE  \E full, d, t, m, x, o :
                 /\ StageUnits(policy, input, full, d, t, m, x)
                 /\ o \in FareEvaluationOutcome
                 /\ f = EvidenceOf(policy, input, o, full, d, t, m, x)
    BY <2>5, EvaluateFareIs DEF OutcomeFollows
  <2>7. \A e \in EvaluateFare(policy, input) : Accounted(e)
    BY <2>5, <2>6, <1>EvidenceAccounted, SMTT(30)
  <2>8. \A e \in EvaluateFareOffline(policy, input, context) : Accounted(e)
    <3>1. TAKE e \in EvaluateFareOffline(policy, input, context)
    <3>2. PICK f \in EvaluateFare(policy, input) : \E o :
            /\ e = [f EXCEPT !.outcome = o]
            /\ \/ \E reason \in FareRejectionReason : o = Rejected(policy.currency, reason)
               \/ o = f.outcome
               \/ f.outcome.approved /\ o = Approved(f.outcome.charged, "offline_provisional")
      BY <2>5, OfflineIs, SMTT(30)
    <3>0. PICK o :
            /\ e = [f EXCEPT !.outcome = o]
            /\ \/ \E reason \in FareRejectionReason : o = Rejected(policy.currency, reason)
               \/ o = f.outcome
               \/ f.outcome.approved /\ o = Approved(f.outcome.charged, "offline_provisional")
      BY <3>2
    <3>3. PICK full, d, t, m, x, p :
            /\ StageUnits(policy, input, full, d, t, m, x)
            /\ p \in FareEvaluationOutcome
            /\ f = EvidenceOf(policy, input, p, full, d, t, m, x)
      BY <2>6, <3>2
    <3>4. e = EvidenceOf(policy, input, o, full, d, t, m, x) /\ f.outcome = p
      BY <3>0, <3>3 DEF EvidenceOf
    <3>5. policy.currency \in Currency
      BY <2>5, PolicyFacts DEF Admitted
    <3>6. o \in FareEvaluationOutcome
      <4>1. \A reason \in FareRejectionReason : Rejected(policy.currency, reason) \in FareEvaluationOutcome
        BY <3>5 DEF Rejected, FareEvaluationOutcome
      <4>2. p.approved => p.charged \in Money /\ "offline_provisional" \in FareApprovalReason
        BY <3>3 DEF FareEvaluationOutcome, FareApprovalReason
      <4>3. p.approved => Approved(p.charged, "offline_provisional") \in FareEvaluationOutcome
        BY <4>2 DEF Approved, FareEvaluationOutcome
      <4> QED
        BY <3>0, <3>3, <3>4, <4>1, <4>3
    <3> QED
      BY <2>5, <3>3, <3>4, <3>6, <1>EvidenceAccounted
  <2>9. \A e \in evaluated.online \cup evaluated.offline : Accounted(e)
    BY <2>5, <2>7, <2>8
  <2> QED
    BY <2>9 DEF EvidenceAddsUp, Accounted
<1> QED
  BY <1>1, RulesInvariant, PTL

(* evaluate_fare_offline only restricts evaluate_fare. *)
THEOREM OfflineAlwaysStricter == RulesSpec => []OfflineIsStricter
<1>AgeInRange. ASSUME NEW now \in Nat, NEW at \in Nat, NEW age \in Nat, ~(at > now), ~(now - at > age)
               PROVE  now \in at..(at + age)
  BY <1>AgeInRange, SMTT(30)
<1>1. RulesInv => OfflineIsStricter
  <2>1. SUFFICES ASSUME RulesInv, evaluated # NULL PROVE OfflineIsStricter
    BY DEF OfflineIsStricter
  <2>2. PICK policy : policy = evaluated.policy
    OBVIOUS
  <2>3. PICK input : input = evaluated.input
    OBVIOUS
  <2>4. PICK context : context = evaluated.context
    OBVIOUS
  <2>5. /\ Admitted(policy, input)
        /\ context \in OfflineEvaluationContext
        /\ evaluated.online = EvaluateFare(policy, input)
        /\ evaluated.offline = EvaluateFareOffline(policy, input, context)
    BY <2>1, <2>2, <2>3, <2>4 DEF RulesInv
  <2>6. ASSUME NEW e \in EvaluateFareOffline(policy, input, context), e.outcome.approved
        PROVE  /\ \E f \in EvaluateFare(policy, input) :
                    f.outcome.approved /\ f.outcome.charged = e.outcome.charged
               /\ e.outcome.charged.units <= context.limit.units
               /\ input.time \in
                    context.policyCachedAt..(context.policyCachedAt + context.maximumPolicyAge)
               /\ input.time \in
                    context.revocationCachedAt
                      ..(context.revocationCachedAt + context.maximumRevocationAge)
    <3>1. PICK f \in EvaluateFare(policy, input) : \E o :
            /\ e = [f EXCEPT !.outcome = o]
            /\ \/ \E reason \in FareRejectionReason : o = Rejected(policy.currency, reason)
               \/ o = f.outcome /\ ~f.outcome.approved
               \/ /\ f.outcome.approved
                  /\ o = Approved(f.outcome.charged, "offline_provisional")
                  /\ ~(f.outcome.charged.units > context.limit.units)
                  /\ ~(context.policyCachedAt > input.time)
                  /\ ~(context.revocationCachedAt > input.time)
                  /\ ~(input.time - context.policyCachedAt > context.maximumPolicyAge)
                  /\ ~(input.time - context.revocationCachedAt > context.maximumRevocationAge)
      BY <2>5, OfflineIs
    <3>2. PICK full, d, t, m, x, p :
            p \in FareEvaluationOutcome /\ f = EvidenceOf(policy, input, p, full, d, t, m, x)
      BY <2>5, <3>1, EvaluateFareIs, SMTT(30) DEF OutcomeFollows
    <3>3. \A o : [f EXCEPT !.outcome = o].outcome = o
      BY <3>2 DEF EvidenceOf
    <3>4. \A reason : ~Rejected(policy.currency, reason).approved
      BY DEF Rejected
    <3>5. /\ f.outcome.approved
          /\ e.outcome = Approved(f.outcome.charged, "offline_provisional")
          /\ ~(f.outcome.charged.units > context.limit.units)
          /\ ~(context.policyCachedAt > input.time)
          /\ ~(context.revocationCachedAt > input.time)
          /\ ~(input.time - context.policyCachedAt > context.maximumPolicyAge)
          /\ ~(input.time - context.revocationCachedAt > context.maximumRevocationAge)
      BY <2>6, <3>1, <3>3, <3>4, SMTT(30)
    <3>6. e.outcome.charged = f.outcome.charged
      BY <3>5, SMTT(30) DEF Approved
    <3>7. /\ context.policyCachedAt \in Nat /\ context.maximumPolicyAge \in Nat
          /\ context.revocationCachedAt \in Nat /\ context.maximumRevocationAge \in Nat
          /\ input.time \in Nat
      BY <2>5 DEF OfflineEvaluationContext, Admitted, FareEvaluationInput
    <3>8. /\ input.time \in context.policyCachedAt..(context.policyCachedAt + context.maximumPolicyAge)
          /\ input.time \in
               context.revocationCachedAt..(context.revocationCachedAt + context.maximumRevocationAge)
      BY <3>5, <3>7, <1>AgeInRange
    <3>9. f.outcome.charged.units \in Int /\ context.limit.units \in Int
      <4>1. context.limit \in Money
        BY <2>5 DEF OfflineEvaluationContext
      <4>2. f.outcome = p
        BY <3>2 DEF EvidenceOf
      <4>3. p.charged \in Money
        BY <3>2, <3>5, <4>2 DEF FareEvaluationOutcome
      <4> QED
        BY <4>1, <4>2, <4>3, RangeOfUnits DEF Money
    <3>10. f.outcome.charged.units <= context.limit.units
      BY <3>5, <3>9, SMTT(30)
    <3> QED
      BY <3>1, <3>5, <3>6, <3>8, <3>10
  <2> QED
    BY <2>2, <2>3, <2>4, <2>5, <2>6, SMTT(30) DEF OfflineIsStricter
<1> QED
  BY <1>1, RulesInvariant, PTL

-----------------------------------------------------------------------------
(* Reader equipment *)

(* The argument: an aggregate is consistent (its reasons fit its status) and
   every call keeps it so, so a stored row loads as what was saved.  A session
   whose version is still the stored one has built its aggregate from the stored
   aggregate by calls, and calls respect the lifecycle; any other session cannot
   save. *)

(* What any number of calls make of an aggregate. *)
Builds(old, new) ==
    /\ old.status \in Terminal => new = old
    /\ new.status = "pending_registration" => old.status = "pending_registration"

ConsistentEquipment(e) == e \in ReaderEquipment /\ ValidLifecycleFields(e)

-----------------------------------------------------------------------------
(* Calls *)

(* An aggregate is the record of its four fields. *)
LEMMA AggregateFields ==
    ASSUME NEW e \in ReaderEquipment
    PROVE  e = [key |-> e.key, status |-> e.status,
                disablement |-> e.disablement, revocation |-> e.revocation]
  BY DEF ReaderEquipment

LEMMA NewIsConsistent ==
    ASSUME NEW key \in EquipmentKey
    PROVE  ConsistentEquipment(NewPending(key))
  BY RegistryAssumption
     DEF ConsistentEquipment, NewPending, ReaderEquipment, ReaderEquipmentStatus, ValidLifecycleFields

(* The eight calls of the aggregate. *)
LEMMA StatusCallsKept ==
    ASSUME NEW e, ConsistentEquipment(e),
           NEW f \in Activate(e) \cup MarkOffline(e) \cup MarkOnline(e)
    PROVE  ConsistentEquipment(f) /\ Builds(e, f)
  BY DEF ConsistentEquipment, Builds, Activate, MarkOffline, MarkOnline, Terminal,
         ReaderEquipment, ReaderEquipmentStatus, ValidLifecycleFields

LEMMA DisableKept ==
    ASSUME NEW e, ConsistentEquipment(e), NEW reason \in DisablementReason,
           NEW f \in Disable(e, reason) \cup Enable(e)
    PROVE  ConsistentEquipment(f) /\ Builds(e, f)
  BY RegistryAssumption
     DEF ConsistentEquipment, Builds, Disable, Enable, Terminal,
         ReaderEquipment, ReaderEquipmentStatus, ValidLifecycleFields

LEMMA EnableKept ==
    ASSUME NEW e, ConsistentEquipment(e), NEW f \in Enable(e)
    PROVE  ConsistentEquipment(f) /\ Builds(e, f)
  BY DEF ConsistentEquipment, Builds, Enable, Terminal,
         ReaderEquipment, ReaderEquipmentStatus, ValidLifecycleFields

LEMMA RevokeKept ==
    ASSUME NEW e, ConsistentEquipment(e), NEW reason \in RevocationReason,
           NEW f \in Revoke(e, reason)
    PROVE  ConsistentEquipment(f) /\ Builds(e, f)
  BY RegistryAssumption
     DEF ConsistentEquipment, Builds, Revoke, Terminal,
         ReaderEquipment, ReaderEquipmentStatus, ValidLifecycleFields

LEMMA DecommissionKept ==
    ASSUME NEW e, ConsistentEquipment(e), NEW f \in Decommission(e)
    PROVE  ConsistentEquipment(f) /\ Builds(e, f)
  BY DEF ConsistentEquipment, Builds, Decommission, Terminal,
         ReaderEquipment, ReaderEquipmentStatus, ValidLifecycleFields

LEMMA RotateKept ==
    ASSUME NEW e, ConsistentEquipment(e), NEW key \in EquipmentKey,
           NEW f \in RotateEquipmentKey(e, key)
    PROVE  ConsistentEquipment(f) /\ Builds(e, f)
  BY DEF ConsistentEquipment, Builds, RotateEquipmentKey, Terminal,
         ReaderEquipment, ReaderEquipmentStatus, ValidLifecycleFields

(* into_versioned rebuilds a consistent aggregate. *)
LEMMA ConsistentLoads ==
    ASSUME NEW row, ConsistentEquipment(row.aggregate)
    PROVE  IntoVersioned(row) = {row.aggregate}
(* The calls by which into_versioned rebuilds a status that has a reason, or
   is terminal. *)
<1>DisableRebuilds. ASSUME NEW e, ConsistentEquipment(e), e.status = "disabled"
                    PROVE  Disable(NewPending(e.key), e.disablement) = {e}
  <2>. USE <1>DisableRebuilds
  <2>. DEFINE new == NewPending(e.key)
              f == [new EXCEPT !.status = "disabled", !.disablement = e.disablement]
  <2>1. new \in ReaderEquipment /\ new.status = "pending_registration"
    BY RegistryAssumption DEF ConsistentEquipment, NewPending, ReaderEquipment, ReaderEquipmentStatus
  <2>2. new.key = e.key /\ new.disablement = NULL /\ new.revocation = NULL
    BY DEF NewPending
  <2>3. Disable(new, e.disablement) = {f}
    <3>. HIDE DEF new
    <3>. QED
      BY <2>1 DEF Disable
  <2>. HIDE DEF new
  <2>4. f \in ReaderEquipment /\ f.key = e.key /\ f.status = e.status
        /\ f.disablement = e.disablement /\ f.revocation = e.revocation
    BY <2>1, <2>2 DEF ConsistentEquipment, ReaderEquipment, ReaderEquipmentStatus, ValidLifecycleFields
  <2>5. f = e
    <3>. HIDE DEF f
    <3>. QED
      BY <2>4, AggregateFields DEF ConsistentEquipment
  <2>. QED
    BY <2>3, <2>5 DEF new
<1>RevokeRebuilds. ASSUME NEW e, ConsistentEquipment(e), e.status = "revoked"
                   PROVE  Revoke(NewPending(e.key), e.revocation) = {e}
  <2>. USE <1>RevokeRebuilds
  <2>. DEFINE new == NewPending(e.key)
              f == [new EXCEPT !.status = "revoked", !.disablement = NULL,
                             !.revocation = e.revocation]
  <2>1. new \in ReaderEquipment /\ new.status = "pending_registration"
    BY RegistryAssumption DEF ConsistentEquipment, NewPending, ReaderEquipment, ReaderEquipmentStatus
  <2>2. new.key = e.key /\ new.disablement = NULL /\ new.revocation = NULL
    BY DEF NewPending
  <2>3. Revoke(new, e.revocation) = {f}
    <3>. HIDE DEF new
    <3>. QED
      BY <2>1 DEF Revoke, Terminal
  <2>. HIDE DEF new
  <2>4. f \in ReaderEquipment /\ f.key = e.key /\ f.status = e.status
        /\ f.disablement = e.disablement /\ f.revocation = e.revocation
    BY <2>1, <2>2 DEF ConsistentEquipment, ReaderEquipment, ReaderEquipmentStatus, ValidLifecycleFields
  <2>5. f = e
    <3>. HIDE DEF f
    <3>. QED
      BY <2>4, AggregateFields DEF ConsistentEquipment
  <2>. QED
    BY <2>3, <2>5 DEF new
<1>DecommissionRebuilds. ASSUME NEW e, ConsistentEquipment(e), e.status = "decommissioned"
                         PROVE  Decommission(NewPending(e.key)) = {e}
  <2>. USE <1>DecommissionRebuilds
  <2>. DEFINE new == NewPending(e.key)
              f == [new EXCEPT !.status = "decommissioned", !.disablement = NULL,
                             !.revocation = NULL]
  <2>1. new \in ReaderEquipment /\ new.status = "pending_registration"
    BY RegistryAssumption DEF ConsistentEquipment, NewPending, ReaderEquipment, ReaderEquipmentStatus
  <2>2. new.key = e.key /\ new.disablement = NULL /\ new.revocation = NULL
    BY DEF NewPending
  <2>3. Decommission(new) = {f}
    <3>. HIDE DEF new
    <3>. QED
      BY <2>1 DEF Decommission, Terminal
  <2>. HIDE DEF new
  <2>4. f \in ReaderEquipment /\ f.key = e.key /\ f.status = e.status
        /\ f.disablement = e.disablement /\ f.revocation = e.revocation
    BY <2>1, <2>2 DEF ConsistentEquipment, ReaderEquipment, ReaderEquipmentStatus, ValidLifecycleFields
  <2>5. f = e
    <3>. HIDE DEF f
    <3>. QED
      BY <2>4, AggregateFields DEF ConsistentEquipment
  <2>. QED
    BY <2>3, <2>5 DEF new
<1>. DEFINE e == row.aggregate
            new == NewPending(e.key)
<1>1. /\ e \in ReaderEquipment
      /\ ValidLifecycleFields(e)
      /\ e = [key |-> e.key, status |-> e.status,
              disablement |-> e.disablement, revocation |-> e.revocation]
  BY AggregateFields DEF ConsistentEquipment
<1>2. new = [key |-> e.key, status |-> "pending_registration",
             disablement |-> NULL, revocation |-> NULL]
  BY DEF NewPending
<1>3. CASE e.status = "pending_registration"
  BY <1>1, <1>2, <1>3 DEF IntoVersioned, ValidLifecycleFields
<1>4. CASE e.status = "active"
  BY <1>1, <1>2, <1>4, SMTT(30) DEF IntoVersioned, ValidLifecycleFields, Activate
<1>5. CASE e.status = "offline"
  <2>1. Activate(new) = {[key |-> e.key, status |-> "active",
                          disablement |-> NULL, revocation |-> NULL]}
    BY <1>2, SMTT(30) DEF Activate
  <2>2. MarkOffline([key |-> e.key, status |-> "active",
                     disablement |-> NULL, revocation |-> NULL]) = {e}
    BY <1>1, <1>5, SMTT(30) DEF MarkOffline, ValidLifecycleFields
  <2>3. UNION {MarkOffline(a) : a \in Activate(new)} = {e}
    BY <2>1, <2>2
  <2>. QED
    BY <1>1, <1>5, <2>3 DEF IntoVersioned
<1>6. CASE e.status = "disabled"
  <2>1. Disable(new, e.disablement) = {e}
    BY <1>6, <1>DisableRebuilds
  <2>. QED
    BY <1>1, <1>6, <2>1 DEF IntoVersioned
<1>7. CASE e.status = "revoked"
  <2>1. Revoke(new, e.revocation) = {e}
    BY <1>7, <1>RevokeRebuilds
  <2>. QED
    BY <1>1, <1>7, <2>1 DEF IntoVersioned
<1>8. CASE e.status = "decommissioned"
  <2>1. Decommission(new) = {e}
    BY <1>8, <1>DecommissionRebuilds
  <2>. QED
    BY <1>1, <1>8, <2>1 DEF IntoVersioned
<1>. QED
  BY <1>1, <1>3, <1>4, <1>5, <1>6, <1>7, <1>8 DEF ReaderEquipment, ReaderEquipmentStatus

-----------------------------------------------------------------------------
(* The inductive invariant *)

RegistrySessionRow == [reader: Reader, aggregate: ReaderEquipment, version: Nat]

StoredConsistent ==
    \A r \in Reader : equipment[r] # NULL =>
      ValidLifecycleFields(equipment[r].aggregate) /\ equipment[r].version > 0

(* A loaded aggregate follows the stored one as long as its version is still
   the stored one. *)
FollowsRow(s) ==
    LET row == equipment[session[s].reader] IN
    /\ row # NULL
    /\ session[s].version <= row.version
    /\ session[s].version = row.version => Builds(row.aggregate, session[s].aggregate)

(* The aggregate of a session is consistent, a new one as well as a loaded one. *)
SessionsBuild ==
    \A s \in Session : session[s] # NULL =>
      /\ ValidLifecycleFields(session[s].aggregate)
      /\ session[s].version # 0 => FollowsRow(s)

RegistryInv == RegistryTypeOK /\ StoredConsistent /\ SessionsBuild

(* What the invariant says of a row and of a session. *)
LEMMA RegistryInvRow ==
    ASSUME RegistryInv, NEW r \in Reader, equipment[r] # NULL
    PROVE  /\ equipment[r] \in ReaderEquipmentRow
           /\ ConsistentEquipment(equipment[r].aggregate)
           /\ equipment[r].version \in Nat \ {0}
  BY SMTT(30) DEF RegistryInv, RegistryTypeOK, StoredConsistent, ConsistentEquipment, ReaderEquipmentRow

LEMMA RegistryInvSession ==
    ASSUME RegistryInv, NEW s \in Session, session[s] # NULL
    PROVE  /\ session[s] \in RegistrySessionRow
           /\ ConsistentEquipment(session[s].aggregate)
           /\ session[s].version # 0 => FollowsRow(s)
  BY DEF RegistryInv, RegistryTypeOK, SessionsBuild, ConsistentEquipment, RegistrySessionRow

LEMMA RegistryInvariant == RegistrySpec => []RegistryInv
<1>NewReaderKept. ASSUME RegistryInv, NEW s \in Session, NEW r \in Reader, NEW key \in EquipmentKey,
                         NewReader(s, r, key)
                  PROVE  RegistryInv'
  <2>. USE <1>NewReaderKept
  <2>. DEFINE new == [reader |-> r, aggregate |-> NewPending(key), version |-> 0]
  <2>1. new \in RegistrySessionRow /\ ValidLifecycleFields(new.aggregate) /\ new.version = 0
    BY NewIsConsistent DEF ConsistentEquipment, RegistrySessionRow
  <2>2. session' = [session EXCEPT ![s] = new] /\ equipment' = equipment
    BY DEF NewReader
  <2>. HIDE DEF new
  <2>3. RegistryTypeOK'
    BY <2>1, <2>2 DEF RegistryInv, RegistryTypeOK, RegistrySessionRow
  <2>4. StoredConsistent'
    BY <2>2 DEF RegistryInv, StoredConsistent
  <2>5. SessionsBuild'
    BY <2>1, <2>2 DEF RegistryInv, RegistryTypeOK, SessionsBuild, FollowsRow
  <2>. QED
    BY <2>3, <2>4, <2>5 DEF RegistryInv
<1>InsertReaderKept. ASSUME RegistryInv, NEW s \in Session, InsertReader(s)
                     PROVE  RegistryInv'
  <2>. USE <1>InsertReaderKept
  <2>. DEFINE r == session[s].reader
              row == [aggregate |-> session[s].aggregate, version |-> 1]
  <2>1. /\ session[s] # NULL /\ equipment[r] = NULL
        /\ equipment' = [equipment EXCEPT ![r] = row]
        /\ session' = [session EXCEPT ![s] = NULL]
    BY DEF InsertReader
  <2>2. /\ r \in Reader
        /\ row \in ReaderEquipmentRow
        /\ ValidLifecycleFields(row.aggregate)
        /\ row.version > 0
    BY <2>1, RegistryInvSession, SMTT(30) DEF RegistrySessionRow, ReaderEquipmentRow, ConsistentEquipment
  <2>. HIDE DEF r, row
  <2>3. RegistryTypeOK'
    BY <2>1, <2>2 DEF RegistryInv, RegistryTypeOK
  <2>4. StoredConsistent'
    BY <2>1, <2>2 DEF RegistryInv, RegistryTypeOK, StoredConsistent
  <2>5. SessionsBuild'
    <3>. SUFFICES ASSUME NEW t \in Session, session'[t] # NULL
                  PROVE  /\ ValidLifecycleFields(session'[t].aggregate)
                         /\ session'[t].version # 0 => FollowsRow(t)'
      BY DEF SessionsBuild
    <3>1. session'[t] = session[t] /\ session[t] # NULL
      BY <2>1 DEF RegistryInv, RegistryTypeOK
    <3>2. /\ session[t].reader \in Reader
          /\ ValidLifecycleFields(session[t].aggregate)
          /\ session[t].version # 0 => FollowsRow(t)
      BY <3>1, RegistryInvSession DEF RegistrySessionRow, ConsistentEquipment
    <3>3. ASSUME FollowsRow(t)
          PROVE  FollowsRow(t)'
      <4>1. session[t].reader # r
        BY <2>1, <3>3 DEF FollowsRow
      <4>2. equipment'[session[t].reader] = equipment[session[t].reader]
        BY <2>1, <3>2, <4>1 DEF RegistryInv, RegistryTypeOK
      <4>. QED
        BY <3>1, <3>3, <4>2 DEF FollowsRow
    <3>. QED
      BY <3>1, <3>2, <3>3
  <2>. QED
    BY <2>3, <2>4, <2>5 DEF RegistryInv
<1>FindReaderKept. ASSUME RegistryInv, NEW s \in Session, NEW r \in Reader, FindReader(s, r)
                   PROVE  RegistryInv'
  <2>. USE <1>FindReaderKept
  <2>. DEFINE loaded == [reader |-> r, aggregate |-> equipment[r].aggregate,
                         version |-> equipment[r].version]
  <2>1. equipment[r] # NULL /\ equipment' = equipment
    BY DEF FindReader
  <2>2. equipment[r] \in ReaderEquipmentRow /\ ConsistentEquipment(equipment[r].aggregate)
    BY <2>1, RegistryInvRow
  <2>3. IntoVersioned(equipment[r]) = {equipment[r].aggregate}
    BY <2>2, ConsistentLoads
  <2>4. session' = [session EXCEPT ![s] = loaded]
    BY <2>3 DEF FindReader
  <2>5. /\ loaded \in RegistrySessionRow
        /\ loaded.reader = r
        /\ loaded.aggregate = equipment[r].aggregate
        /\ loaded.version = equipment[r].version
        /\ equipment[r].version \in Nat
    BY <2>2 DEF RegistrySessionRow, ReaderEquipmentRow
  <2>. HIDE DEF loaded
  <2>6. RegistryTypeOK'
    BY <2>1, <2>4, <2>5 DEF RegistryInv, RegistryTypeOK, RegistrySessionRow
  <2>7. StoredConsistent'
    BY <2>1 DEF RegistryInv, StoredConsistent
  <2>8. Builds(equipment[r].aggregate, equipment[r].aggregate)
    BY DEF Builds
  <2>9. SessionsBuild'
    BY <2>1, <2>2, <2>4, <2>5, <2>8, RegistryInvSession, SMTT(30)
       DEF RegistryInv, RegistryTypeOK, SessionsBuild, FollowsRow, ConsistentEquipment
  <2>. QED
    BY <2>6, <2>7, <2>9 DEF RegistryInv
<1>CallReaderKept. ASSUME RegistryInv, NEW s \in Session, CallReader(s)
                   PROVE  RegistryInv'
  <2>. USE <1>CallReaderKept
  <2>CallsKept. ASSUME NEW e, ConsistentEquipment(e), NEW f \in Calls(e)
                PROVE  ConsistentEquipment(f) /\ Builds(e, f)
    <3>. USE <2>CallsKept
    <3>1. \/ f \in Activate(e) \cup MarkOffline(e) \cup MarkOnline(e)
          \/ f \in Enable(e)
          \/ f \in Decommission(e)
          \/ \E reason \in DisablementReason : f \in Disable(e, reason)
          \/ \E reason \in RevocationReason : f \in Revoke(e, reason)
          \/ \E key \in EquipmentKey : f \in RotateEquipmentKey(e, key)
      BY DEF Calls
    <3>. QED
      BY <3>1, StatusCallsKept, DisableKept, EnableKept, RevokeKept, DecommissionKept, RotateKept
  <2>BuildsTransitive. ASSUME NEW e, NEW f, NEW g, Builds(e, f), Builds(f, g)
                       PROVE  Builds(e, g)
    BY <2>BuildsTransitive DEF Builds
  <2>1. PICK e \in Calls(session[s].aggregate) : session' = [session EXCEPT ![s].aggregate = e]
    BY DEF CallReader
  <2>2. session[s] # NULL /\ equipment' = equipment
    BY DEF CallReader
  <2>3. ConsistentEquipment(e) /\ Builds(session[s].aggregate, e)
    BY <2>2, RegistryInvSession, <2>CallsKept
  <2>. DEFINE called == [session[s] EXCEPT !.aggregate = e]
  <2>4. /\ called \in RegistrySessionRow
        /\ called.aggregate = e
        /\ called.reader = session[s].reader
        /\ called.version = session[s].version
    BY <2>2, <2>3, RegistryInvSession DEF RegistrySessionRow, ConsistentEquipment
  <2>5. session' = [session EXCEPT ![s] = called]
    BY <2>1
  <2>. HIDE DEF called
  <2>6. RegistryTypeOK'
    BY <2>2, <2>4, <2>5 DEF RegistryInv, RegistryTypeOK, RegistrySessionRow
  <2>7. StoredConsistent'
    BY <2>2 DEF RegistryInv, StoredConsistent
  <2>8. \A row : Builds(row, session[s].aggregate) => Builds(row, e)
    BY <2>3, <2>BuildsTransitive
  <2>9. SessionsBuild'
    BY <2>2, <2>3, <2>4, <2>5, <2>8, RegistryInvSession
       DEF RegistryInv, RegistryTypeOK, SessionsBuild, FollowsRow, ConsistentEquipment
  <2>. QED
    BY <2>6, <2>7, <2>9 DEF RegistryInv
(* A save raises the stored version, so no other session of the same reader
   still holds the stored version. *)
<1>UpdateReaderKept. ASSUME RegistryInv, NEW s \in Session, UpdateReader(s)
                     PROVE  RegistryInv'
  <2>. USE <1>UpdateReaderKept
  <2>. DEFINE r == session[s].reader
              row == [aggregate |-> session[s].aggregate, version |-> session[s].version + 1]
  <2>1. /\ session[s] # NULL /\ session[s].version # 0
        /\ equipment[r].version = session[s].version
        /\ equipment' = [equipment EXCEPT ![r] = row]
        /\ session' = [session EXCEPT ![s] = NULL]
    BY DEF UpdateReader
  <2>2. /\ r \in Reader /\ session[s].version \in Nat
        /\ row \in ReaderEquipmentRow
        /\ ValidLifecycleFields(row.aggregate)
        /\ row.version = equipment[r].version + 1
        /\ row.version > 0
    BY <2>1, RegistryInvSession, SMTT(30) DEF RegistrySessionRow, ReaderEquipmentRow, ConsistentEquipment
  <2>3. row # NULL
    BY <2>2, RowAssumption
  <2>. HIDE DEF r, row
  <2>4. RegistryTypeOK'
    BY <2>1, <2>2 DEF RegistryInv, RegistryTypeOK
  <2>5. StoredConsistent'
    BY <2>1, <2>2 DEF RegistryInv, RegistryTypeOK, StoredConsistent
  <2>6. SessionsBuild'
    <3>. SUFFICES ASSUME NEW t \in Session, session'[t] # NULL
                  PROVE  /\ ValidLifecycleFields(session'[t].aggregate)
                         /\ session'[t].version # 0 => FollowsRow(t)'
      BY DEF SessionsBuild
    <3>1. t # s /\ session'[t] = session[t] /\ session[t] # NULL
      BY <2>1 DEF RegistryInv, RegistryTypeOK
    <3>2. /\ session[t].reader \in Reader
          /\ session[t].version \in Nat
          /\ ValidLifecycleFields(session[t].aggregate)
          /\ session[t].version # 0 => FollowsRow(t)
      BY <3>1, RegistryInvSession DEF RegistrySessionRow, ConsistentEquipment
    <3>3. CASE session[t].reader = r
      <4>1. equipment'[session[t].reader] = row
        BY <2>1, <2>2, <3>3 DEF RegistryInv, RegistryTypeOK
      <4>2. equipment[r].version \in Nat
        BY <2>1, <2>2
      <4>3. ASSUME FollowsRow(t)
            PROVE  session[t].version <= row.version /\ session[t].version # row.version
        BY <2>2, <3>2, <3>3, <4>2, <4>3, SMTT(30) DEF FollowsRow
      <4>. QED
        BY <2>3, <3>1, <3>2, <4>1, <4>3 DEF FollowsRow
    <3>4. CASE session[t].reader # r
      <4>1. equipment'[session[t].reader] = equipment[session[t].reader]
        BY <2>1, <3>2, <3>4 DEF RegistryInv, RegistryTypeOK
      <4>. QED
        BY <3>1, <3>2, <4>1 DEF FollowsRow
    <3>. QED
      BY <3>3, <3>4
  <2>. QED
    BY <2>4, <2>5, <2>6 DEF RegistryInv
<1>DropSessionKept. ASSUME RegistryInv, NEW s \in Session, DropSession(s)
                    PROVE  RegistryInv'
  BY <1>DropSessionKept DEF RegistryInv, RegistryTypeOK, StoredConsistent, SessionsBuild, FollowsRow, DropSession
<1>1. RegistryInit => RegistryInv
  BY DEF RegistryInit, RegistryInv, RegistryTypeOK, StoredConsistent, SessionsBuild
<1>2. RegistryInv /\ [RegistryNext]_registryVars => RegistryInv'
  <2>. SUFFICES ASSUME RegistryInv, [RegistryNext]_registryVars
                PROVE  RegistryInv'
    OBVIOUS
  <2>1. CASE RegistryNext
    BY <2>1, <1>NewReaderKept, <1>InsertReaderKept, <1>FindReaderKept, <1>CallReaderKept, <1>UpdateReaderKept,
       <1>DropSessionKept DEF RegistryNext
  <2>2. CASE UNCHANGED registryVars
    BY <2>2 DEF registryVars, RegistryInv, RegistryTypeOK, StoredConsistent, SessionsBuild, FollowsRow
  <2>. QED
    BY <2>1, <2>2
<1>. QED
  BY <1>1, <1>2, PTL DEF RegistrySpec

-----------------------------------------------------------------------------
(* The theorems *)

(* Rows and sessions keep their types: no call leaves the lifecycle states. *)
THEOREM RegistryTypesHold == RegistrySpec => []RegistryTypeOK
  BY RegistryInvariant, PTL DEF RegistryInv

(* Whatever the sessions call and save, into_versioned rebuilds every stored
   row into exactly the aggregate that was saved. *)
THEOREM StoredEquipmentAlwaysLoads == RegistrySpec => []StoredEquipmentLoads
<1>1. RegistryInv => StoredEquipmentLoads
  BY RegistryInvRow, ConsistentLoads DEF StoredEquipmentLoads
<1>. QED
  BY <1>1, RegistryInvariant, PTL

(* Revoked and decommissioned equipment stays as it is and no reader returns
   to registration, for any number of sessions that save what they loaded. *)
THEOREM TerminalEquipmentForever == RegistrySpec => TerminalForever
<1>. DEFINE Row(r) == equipment[r] # NULL /\ equipment'[r] # equipment[r]
                        => LifecycleStep(equipment[r], equipment'[r])
<1>1. RegistryInv /\ [RegistryNext]_registryVars
        => [\A r \in Reader : Row(r)]_registryVars
  <2>. SUFFICES ASSUME RegistryInv, RegistryNext, NEW r \in Reader,
                       equipment[r] # NULL, equipment'[r] # equipment[r]
                PROVE  LifecycleStep(equipment[r], equipment'[r])
    OBVIOUS
  <2>1. PICK s \in Session : UpdateReader(s)
    <3>1. ASSUME NEW t \in Session, InsertReader(t)
          PROVE  FALSE
      BY <3>1, RegistryInvSession DEF InsertReader, RegistryInv, RegistryTypeOK
    <3>2. ASSUME NEW t \in Session,
                 \/ \E q \in Reader, key \in EquipmentKey : NewReader(t, q, key)
                 \/ (\E q \in Reader : FindReader(t, q)) \/ CallReader(t) \/ DropSession(t)
          PROVE  FALSE
      BY <3>2 DEF NewReader, FindReader, CallReader, DropSession
    <3>. QED
      BY <3>1, <3>2 DEF RegistryNext
  <2>2. /\ session[s] # NULL /\ session[s].version # 0
        /\ equipment[session[s].reader].version = session[s].version
        /\ equipment' = [equipment EXCEPT ![session[s].reader] =
             [aggregate |-> session[s].aggregate, version |-> session[s].version + 1]]
    BY <2>1 DEF UpdateReader
  <2>3. r = session[s].reader
    BY <2>2 DEF RegistryInv, RegistryTypeOK
  <2>4. /\ equipment'[r].aggregate = session[s].aggregate
        /\ equipment'[r].version = equipment[r].version + 1
    BY <2>2, <2>3 DEF RegistryInv, RegistryTypeOK
  <2>5. Builds(equipment[r].aggregate, session[s].aggregate)
    BY <2>2, <2>3, RegistryInvSession DEF FollowsRow
  <2>. QED
    BY <2>4, <2>5 DEF LifecycleStep, Builds
<1>. QED
  BY <1>1, RegistryInvariant, PTL DEF RegistrySpec, TerminalForever

-----------------------------------------------------------------------------
(* Transit accounts *)

(* The argument: every call keeps an account well formed (its balance is in
   range and not negative) and follows it (closed stays, rider and currency do
   not change).  A session whose version is still the stored one loaded exactly
   the stored aggregate, so what it saves changes the stored balance by what it
   credited and debited. *)

(* What any number of calls make of an account. *)
Follows(old, new) ==
    /\ old.status = "closed" => new = old
    /\ new.rider = old.rider
    /\ new.balance.currency = old.balance.currency

-----------------------------------------------------------------------------
(* Money and calls *)

(* The balances of a well-formed account. *)
LEMMA BalanceType ==
    ASSUME NEW b
    PROVE  b \in {amount \in Money : ValidBalance(amount)}
             <=> /\ b \in [units: Int, currency: Currency]
                 /\ 0 <= b.units /\ b.units <= MaxUnits
  BY AccountsAssumption, SMTT(30) DEF Money, Units, ValidBalance

(* A credit or debit that succeeds yields a balance of the same currency. *)
LEMMA CreditDebitBalance ==
    ASSUME NEW b \in {amount \in Money : ValidBalance(amount)}, NEW amount \in Amount,
           NEW c \in Credit(b, amount) \cup Debit(b, amount)
    PROVE  /\ c \in {m \in Money : ValidBalance(m)}
           /\ c.currency = b.currency
<1>1. amount \in [units: Int, currency: Currency]
  BY AccountsAssumption, SMTT(30) DEF Money, Units
<1>2. b \in [units: Int, currency: Currency] /\ 0 <= b.units
  BY BalanceType
<1>3. CASE c \in Credit(b, amount)
  BY <1>1, <1>2, <1>3, AccountsAssumption, SMTT(30)
     DEF Credit, CheckedAdd, Checked, FromMinorUnits, Money, Units, ValidBalance
<1>4. CASE c \in Debit(b, amount)
  BY <1>1, <1>2, <1>4, AccountsAssumption, SMTT(30)
     DEF Debit, CheckedSubtract, Checked, FromMinorUnits, Money, Units, ValidBalance
<1>. QED
  BY <1>3, <1>4

(* The seven calls of the aggregate. *)
LEMMA StatusCallsFollow ==
    ASSUME NEW account \in TransitAccount, NEW e \in Eligibility,
           NEW new \in SuspendAccount(account) \cup ReactivateAccount(account)
                        \cup CloseAccount(account) \cup ChangeEligibility(account, e)
    PROVE  new \in TransitAccount /\ Follows(account, new)
<1>. DEFINE Balances == {amount \in Money : ValidBalance(amount)}
<1>1. account \in [rider: Rider, status: TransitAccountStatus, eligibility: Eligibility,
                   balance: Balances]
  BY DEF TransitAccount
<1>. HIDE DEF Balances
<1>2. /\ new \in [rider: Rider, status: TransitAccountStatus, eligibility: Eligibility,
                   balance: Balances]
      /\ new.rider = account.rider
      /\ new.balance = account.balance
      /\ account.status = "closed" => new = account
  BY <1>1 DEF SuspendAccount, ReactivateAccount, CloseAccount, ChangeEligibility,
              TransitAccountStatus
<1>. QED
  BY <1>2 DEF TransitAccount, Follows, Balances

LEMMA ValueCallsFollow ==
    ASSUME NEW account \in TransitAccount, NEW amount \in Amount,
           NEW new \in CreditStoredValue(account, amount) \cup DebitStoredValue(account, amount)
    PROVE  new \in TransitAccount /\ Follows(account, new)
<1>. DEFINE Balances == {m \in Money : ValidBalance(m)}
<1>1. account \in [rider: Rider, status: TransitAccountStatus, eligibility: Eligibility,
                   balance: Balances]
  BY DEF TransitAccount
<1>2. PICK b \in Credit(account.balance, amount) \cup Debit(account.balance, amount) :
        account.status # "closed" /\ new = [account EXCEPT !.balance = b]
  BY DEF CreditStoredValue, DebitStoredValue
<1>3. b \in Balances /\ b.currency = account.balance.currency
  BY <1>1, CreditDebitBalance
<1>. HIDE DEF Balances
<1>4. /\ new \in [rider: Rider, status: TransitAccountStatus, eligibility: Eligibility,
                   balance: Balances]
      /\ new.rider = account.rider
      /\ new.balance = b
  BY <1>1, <1>2, <1>3
<1>. QED
  BY <1>2, <1>3, <1>4 DEF TransitAccount, Follows, Balances

(* into_versioned rebuilds a well-formed account. *)
LEMMA AccountLoads ==
    ASSUME NEW row, row.aggregate \in TransitAccount
    PROVE  AccountIntoVersioned(row) = {row.aggregate}
<1>. DEFINE a == row.aggregate
            Fields(status) == [rider |-> a.rider, status |-> status,
                               eligibility |-> a.eligibility, balance |-> a.balance]
<1>1. /\ a = Fields(a.status)
      /\ a.status \in TransitAccountStatus
      /\ ValidBalance(a.balance)
  BY DEF TransitAccount
<1>2. NewAccount(a.rider, a.eligibility, a.balance) = {Fields("active")}
  BY <1>1 DEF NewAccount
<1>3. SuspendAccount(Fields("active")) = {Fields("suspended")}
  BY SMTT(30) DEF SuspendAccount
<1>4. CloseAccount(Fields("active")) = {Fields("closed")}
  BY SMTT(30) DEF CloseAccount
<1>. HIDE DEF Fields
<1>. QED
  BY <1>1, <1>2, <1>3, <1>4 DEF AccountIntoVersioned, TransitAccountStatus

-----------------------------------------------------------------------------
(* The inductive invariant *)

AccountSessionRow == [account: Account, aggregate: TransitAccount, loaded: TransitAccount,
               version: 1..MaxVersion]

AccountsType ==
    /\ accounts \in [Account -> TransitAccountRow \cup {NULL}]
    /\ accountSession \in [AccountSession -> AccountSessionRow \cup {NULL}]

(* A session follows what it loaded, and loaded the stored aggregate if its
   version is still the stored one. *)
SessionsFollow ==
    \A s \in AccountSession : accountSession[s] # NULL =>
      LET row == accounts[accountSession[s].account] IN
      /\ row # NULL
      /\ accountSession[s].version <= row.version
      /\ accountSession[s].version = row.version => accountSession[s].loaded = row.aggregate
      /\ Follows(accountSession[s].loaded, accountSession[s].aggregate)

AccountsInv == AccountsType /\ SessionsFollow

(* What the invariant says of a row and of a session. *)
LEMMA AccountInvRow ==
    ASSUME AccountsInv, NEW a \in Account, accounts[a] # NULL
    PROVE  /\ accounts[a] \in TransitAccountRow
           /\ accounts[a].aggregate \in TransitAccount
           /\ accounts[a].version \in 1..MaxVersion
  BY DEF AccountsInv, AccountsType, TransitAccountRow

LEMMA AccountInvSession ==
    ASSUME AccountsInv, NEW s \in AccountSession, accountSession[s] # NULL
    PROVE  LET held == accountSession[s]
               row == accounts[held.account]
           IN  /\ held \in AccountSessionRow
               /\ row # NULL
               /\ held.version <= row.version
               /\ held.version = row.version => held.loaded = row.aggregate
               /\ Follows(held.loaded, held.aggregate)
  BY DEF AccountsInv, AccountsType, SessionsFollow

LEMMA AccountsInvariant == AccountsSpec => []AccountsInv
<1>InsertAccountKept. ASSUME AccountsInv, NEW a \in Account, NEW rider \in Rider,
                             NEW eligibility \in Eligibility, NEW balance \in Money,
                             InsertAccount(a, rider, eligibility, balance)
                      PROVE  AccountsInv'
  <2>. USE <1>InsertAccountKept
  <2>1. PICK account \in NewAccount(rider, eligibility, balance) :
          accounts' = [accounts EXCEPT ![a] = [aggregate |-> account, version |-> 1]]
    BY DEF InsertAccount
  <2>. DEFINE row == [aggregate |-> account, version |-> 1]
  <2>2. account \in TransitAccount
    BY SMTT(30) DEF NewAccount, TransitAccount, TransitAccountStatus
  <2>3. row \in TransitAccountRow
    BY <2>2, AccountsAssumption, SMTT(30) DEF TransitAccountRow
  <2>4. accounts' = [accounts EXCEPT ![a] = row] /\ accounts[a] = NULL
        /\ accountSession' = accountSession
    BY <2>1 DEF InsertAccount
  <2>. HIDE DEF row
  <2>5. AccountsType'
    BY <2>3, <2>4 DEF AccountsInv, AccountsType
  <2>6. SessionsFollow'
    BY <2>4, AccountInvSession DEF AccountsInv, AccountsType, SessionsFollow, AccountSessionRow
  <2>. QED
    BY <2>5, <2>6 DEF AccountsInv
<1>FindAccountKept. ASSUME AccountsInv, NEW s \in AccountSession, NEW a \in Account, FindAccount(s, a)
                    PROVE  AccountsInv'
  <2>. USE <1>FindAccountKept
  <2>. DEFINE held == [account |-> a, aggregate |-> accounts[a].aggregate,
                       loaded |-> accounts[a].aggregate, version |-> accounts[a].version]
  <2>1. accounts[a] # NULL /\ accounts' = accounts
    BY DEF FindAccount
  <2>2. accounts[a].aggregate \in TransitAccount /\ accounts[a].version \in 1..MaxVersion
    BY <2>1, AccountInvRow
  <2>3. AccountIntoVersioned(accounts[a]) = {accounts[a].aggregate}
    BY <2>2, AccountLoads
  <2>4. accountSession' = [accountSession EXCEPT ![s] = held]
    BY <2>3 DEF FindAccount
  <2>5. /\ held \in AccountSessionRow
        /\ held.account = a
        /\ held.version = accounts[a].version
        /\ held.loaded = accounts[a].aggregate
        /\ held.aggregate = accounts[a].aggregate
    BY <2>2 DEF AccountSessionRow
  <2>6. Follows(accounts[a].aggregate, accounts[a].aggregate)
    BY DEF Follows
  <2>. HIDE DEF held
  <2>7. AccountsType'
    BY <2>1, <2>4, <2>5 DEF AccountsInv, AccountsType
  <2>8. SessionsFollow'
    BY <2>1, <2>2, <2>4, <2>5, <2>6, AccountInvSession, SMTT(30) DEF AccountsInv, AccountsType, SessionsFollow
  <2>. QED
    BY <2>7, <2>8 DEF AccountsInv
<1>CallAccountKept. ASSUME AccountsInv, NEW s \in AccountSession, CallAccount(s)
                    PROVE  AccountsInv'
  <2>. USE <1>CallAccountKept
  <2>CallsFollow. ASSUME NEW account \in TransitAccount, NEW new \in AccountCalls(account)
                  PROVE  new \in TransitAccount /\ Follows(account, new)
    <3>. USE <2>CallsFollow
    <3>1. account.eligibility \in Eligibility
      BY DEF TransitAccount
    <3>2. \/ new \in SuspendAccount(account) \cup ReactivateAccount(account) \cup CloseAccount(account)
          \/ \E e \in Eligibility : new \in ChangeEligibility(account, e)
          \/ \E amount \in Amount :
               new \in CreditStoredValue(account, amount) \cup DebitStoredValue(account, amount)
      BY DEF AccountCalls
    <3>. QED
      BY <3>1, <3>2, StatusCallsFollow, ValueCallsFollow
  <2>FollowsTransitive. ASSUME NEW a, NEW b, NEW c, Follows(a, b), Follows(b, c)
                        PROVE  Follows(a, c)
    BY <2>FollowsTransitive DEF Follows
  <2>1. PICK account \in AccountCalls(accountSession[s].aggregate) :
          accountSession' = [accountSession EXCEPT ![s].aggregate = account]
    BY DEF CallAccount
  <2>2. accountSession[s] # NULL /\ accounts' = accounts
    BY DEF CallAccount
  <2>3. accountSession[s] \in AccountSessionRow /\ accountSession[s].aggregate \in TransitAccount
    BY <2>2, AccountInvSession DEF AccountSessionRow
  <2>4. account \in TransitAccount /\ Follows(accountSession[s].aggregate, account)
    BY <2>3, <2>CallsFollow
  <2>. DEFINE held == [accountSession[s] EXCEPT !.aggregate = account]
  <2>5. /\ held \in AccountSessionRow
        /\ held.account = accountSession[s].account
        /\ held.version = accountSession[s].version
        /\ held.loaded = accountSession[s].loaded
        /\ held.aggregate = account
    BY <2>3, <2>4 DEF AccountSessionRow
  <2>6. accountSession' = [accountSession EXCEPT ![s] = held]
    BY <2>1
  <2>. HIDE DEF held
  <2>7. Follows(accountSession[s].loaded, account)
    BY <2>2, <2>4, AccountInvSession, <2>FollowsTransitive
  <2>8. AccountsType'
    BY <2>2, <2>5, <2>6 DEF AccountsInv, AccountsType
  <2>9. SessionsFollow'
    BY <2>2, <2>5, <2>6, <2>7, AccountInvSession DEF AccountsInv, AccountsType, SessionsFollow
  <2>. QED
    BY <2>8, <2>9 DEF AccountsInv
(* A save raises the stored version, so no other session of the same account
   still holds the stored version. *)
<1>UpdateAccountKept. ASSUME AccountsInv, NEW s \in AccountSession, UpdateAccount(s)
                      PROVE  AccountsInv'
  <2>. USE <1>UpdateAccountKept
  <2>. DEFINE a == accountSession[s].account
              row == [aggregate |-> accountSession[s].aggregate,
                      version |-> accountSession[s].version + 1]
  <2>1. /\ accountSession[s] # NULL
        /\ accountSession[s].version < MaxVersion
        /\ accounts[a].version = accountSession[s].version
        /\ accounts' = [accounts EXCEPT ![a] = row]
        /\ accountSession' = [accountSession EXCEPT ![s] = NULL]
    BY DEF UpdateAccount
  <2>2. accountSession[s] \in AccountSessionRow
    BY <2>1, AccountInvSession
  <2>3. /\ a \in Account
        /\ row \in TransitAccountRow
        /\ row.version = accounts[a].version + 1
        /\ accounts[a].version \in Nat
    BY <2>1, <2>2, AccountsAssumption, SMTT(30) DEF AccountSessionRow, TransitAccountRow
  <2>4. row # NULL
    BY <2>3, AccountRowAssumption
  <2>. HIDE DEF a, row
  <2>5. AccountsType'
    BY <2>1, <2>3 DEF AccountsInv, AccountsType
  <2>6. SessionsFollow'
    <3>. SUFFICES ASSUME NEW t \in AccountSession, accountSession'[t] # NULL
                  PROVE  LET held == accountSession'[t]
                             stored == accounts'[held.account]
                         IN  /\ stored # NULL
                             /\ held.version <= stored.version
                             /\ held.version = stored.version => held.loaded = stored.aggregate
                             /\ Follows(held.loaded, held.aggregate)
      BY DEF SessionsFollow
    <3>1. t # s /\ accountSession'[t] = accountSession[t] /\ accountSession[t] # NULL
      BY <2>1 DEF AccountsInv, AccountsType
    <3>2. LET held == accountSession[t]
              stored == accounts[held.account]
          IN  /\ held.account \in Account
              /\ held.version \in Nat
              /\ stored # NULL
              /\ held.version <= stored.version
              /\ held.version = stored.version => held.loaded = stored.aggregate
              /\ Follows(held.loaded, held.aggregate)
      BY <3>1, AccountInvSession, AccountsAssumption, SMTT(30) DEF AccountSessionRow
    <3>3. CASE accountSession[t].account = a
      <4>1. accounts'[accountSession[t].account] = row
        BY <2>1, <2>3, <3>3 DEF AccountsInv, AccountsType
      <4>. QED
        BY <2>3, <2>4, <3>1, <3>2, <3>3, <4>1, SMTT(30)
    <3>4. CASE accountSession[t].account # a
      <4>1. accounts'[accountSession[t].account] = accounts[accountSession[t].account]
        BY <2>1, <3>2, <3>4 DEF AccountsInv, AccountsType
      <4>. QED
        BY <3>1, <3>2, <4>1
    <3>. QED
      BY <3>3, <3>4
  <2>. QED
    BY <2>5, <2>6 DEF AccountsInv
<1>DropAccountKept. ASSUME AccountsInv, NEW s \in AccountSession, DropAccount(s)
                    PROVE  AccountsInv'
  BY <1>DropAccountKept DEF AccountsInv, AccountsType, SessionsFollow, DropAccount
<1>1. AccountsInit => AccountsInv
  BY DEF AccountsInit, AccountsInv, AccountsType, SessionsFollow
<1>2. AccountsInv /\ [AccountsNext]_accountVars => AccountsInv'
  <2>. SUFFICES ASSUME AccountsInv, [AccountsNext]_accountVars
                PROVE  AccountsInv'
    OBVIOUS
  <2>1. \A currency \in Currency : Zero(currency) \in Money
    BY AccountsAssumption, SMTT(30) DEF Zero, FromMinorUnits, Money, Units
  <2>2. CASE AccountsNext
    BY <2>1, <2>2, <1>InsertAccountKept, <1>FindAccountKept, <1>CallAccountKept, <1>UpdateAccountKept,
       <1>DropAccountKept, AccountsAssumption DEF AccountsNext
  <2>3. CASE UNCHANGED accountVars
    BY <2>3 DEF accountVars, AccountsInv, AccountsType, SessionsFollow
  <2>. QED
    BY <2>2, <2>3
<1>. QED
  BY <1>1, <1>2, PTL DEF AccountsSpec

(* What a save stores, and that its session loaded what it replaces. *)
LEMMA SaveReplacesLoaded ==
    ASSUME AccountsInv, NEW s \in AccountSession, UpdateAccount(s)
    PROVE  LET a == accountSession[s].account IN
           /\ accounts'[a].aggregate = accountSession[s].aggregate
           /\ accounts[a].aggregate = accountSession[s].loaded
           /\ Follows(accounts[a].aggregate, accounts'[a].aggregate)
<1>1. accountSession[s] # NULL
      /\ accounts[accountSession[s].account].version = accountSession[s].version
      /\ accounts' = [accounts EXCEPT ![accountSession[s].account] =
           [aggregate |-> accountSession[s].aggregate,
            version |-> accountSession[s].version + 1]]
  BY DEF UpdateAccount
<1>2. accountSession[s].account \in Account
  BY <1>1, AccountInvSession DEF AccountSessionRow
<1>3. accounts'[accountSession[s].account].aggregate = accountSession[s].aggregate
  BY <1>1, <1>2 DEF AccountsInv, AccountsType
<1>. QED
  BY <1>1, <1>3, AccountInvSession

-----------------------------------------------------------------------------
(* The theorems *)

(* Whatever the sessions call and save, a stored balance is in range and not
   negative, and into_versioned rebuilds the account that was saved. *)
THEOREM StoredAccountAlwaysLoads == AccountsSpec => []StoredAccountLoads
<1>1. AccountsInv => StoredAccountLoads
  BY AccountInvRow, AccountLoads DEF StoredAccountLoads
<1>. QED
  BY <1>1, AccountsInvariant, PTL

(* No credit or debit is lost: each save changes the stored balance by what
   its session credited and debited, for any number of sessions. *)
THEOREM BalanceAlwaysConserved == AccountsSpec => BalanceConserved
<1>. DEFINE Saved(s) ==
       accountSession[s] # NULL /\ accounts' # accounts /\ accountSession'[s] = NULL =>
         LET a == accountSession[s].account IN
         accounts'[a].aggregate.balance.units - accounts[a].aggregate.balance.units
           = accountSession[s].aggregate.balance.units
               - accountSession[s].loaded.balance.units
<1>1. AccountsInv /\ [AccountsNext]_accountVars
        => [\A s \in AccountSession : Saved(s)]_accountVars
  <2>. SUFFICES ASSUME AccountsInv, AccountsNext, NEW s \in AccountSession,
                       accountSession[s] # NULL, accounts' # accounts, accountSession'[s] = NULL
                PROVE  Saved(s)
    OBVIOUS
  <2>1. UpdateAccount(s)
    BY DEF AccountsNext, InsertAccount, FindAccount, CallAccount, UpdateAccount, DropAccount,
           AccountsInv, AccountsType
  <2>. QED
    BY <2>1, SaveReplacesLoaded
<1>. QED
  BY <1>1, AccountsInvariant, PTL DEF AccountsSpec, BalanceConserved

(* A closed account is never changed again, and no account changes its rider
   or its currency, for any number of sessions. *)
THEOREM ClosedAccountForever == AccountsSpec => ClosedForever
(* Only a save changes a stored account. *)
<1>OnlySaveChanges. ASSUME AccountsInv, AccountsNext, NEW a \in Account, accounts[a] # NULL,
                           accounts'[a] # accounts[a]
                    PROVE  \E s \in AccountSession : UpdateAccount(s) /\ accountSession[s].account = a
  <2>. USE <1>OnlySaveChanges
  <2>1. ASSUME NEW b \in Account, NEW rider, NEW eligibility, NEW balance,
               InsertAccount(b, rider, eligibility, balance)
        PROVE  FALSE
    BY <2>1 DEF InsertAccount, AccountsInv, AccountsType
  <2>2. ASSUME NEW t \in AccountSession,
               (\E b \in Account : FindAccount(t, b)) \/ CallAccount(t) \/ DropAccount(t)
        PROVE  FALSE
    BY <2>2 DEF FindAccount, CallAccount, DropAccount
  <2>3. ASSUME NEW t \in AccountSession, UpdateAccount(t)
        PROVE  accountSession[t].account = a
    BY <2>3 DEF UpdateAccount, AccountsInv, AccountsType
  <2>. QED
    BY <2>1, <2>2, <2>3 DEF AccountsNext
<1>. DEFINE Kept(a) ==
       accounts[a] # NULL =>
         LET old == accounts[a].aggregate
             new == accounts'[a].aggregate
         IN  /\ old.status = "closed" => new = old
             /\ new.rider = old.rider
             /\ new.balance.currency = old.balance.currency
<1>1. AccountsInv /\ [AccountsNext]_accountVars
        => [\A a \in Account : Kept(a)]_accountVars
  <2>. SUFFICES ASSUME AccountsInv, AccountsNext, NEW a \in Account, accounts[a] # NULL
                PROVE  Follows(accounts[a].aggregate, accounts'[a].aggregate)
    BY DEF Follows
  <2>1. CASE accounts'[a] = accounts[a]
    BY <2>1 DEF Follows
  <2>2. CASE accounts'[a] # accounts[a]
    BY <2>2, <1>OnlySaveChanges, SaveReplacesLoaded
  <2>. QED
    BY <2>1, <2>2
<1>. QED
  BY <1>1, AccountsInvariant, PTL DEF AccountsSpec, ClosedForever

-----------------------------------------------------------------------------
(* Fare transactions *)

(* The argument: the three invariants are inductive together.  A decision is
   only written over none, and an acceptance is only recorded for the decision
   that is stored. *)

(* A decision is a record, differs from NULL and charges nothing negative. *)
LEMMA DecisionFacts ==
    ASSUME NEW d \in FareDecision
    PROVE  d # NULL /\ d.charged >= 0
<1>1. d \in [approved : BOOLEAN, charged : Int, reason : ApprovalReason \cup RejectionReason]
      /\ d.charged >= 0
  <2>1. CASE \E c \in Charge, r \in ApprovalReason : d \in ApprovedDecision(c, r)
    <3>1. PICK c \in Charge, r \in ApprovalReason : d \in ApprovedDecision(c, r)
      BY <2>1
    <3>2. c \in Int /\ ~(c < 0) /\ d = [approved |-> TRUE, charged |-> c, reason |-> r]
      BY <3>1, TransactionsAssumption DEF ApprovedDecision
    <3>. QED
      BY <3>2, SMTT(30)
  <2>2. CASE \E r \in RejectionReason : d = RejectedDecision(r)
    BY <2>2, SMTT(30) DEF RejectedDecision
  <2>. QED
    BY <2>1, <2>2, SMTT(30) DEF FareDecision
<1>. QED
  BY <1>1, TransactionsAssumption

(* One transaction, as the invariant has it. *)
StatusMatches(x) ==
    /\ (x.status = "pending_decision") <=> (x.decision = NULL)
    /\ x.decision # NULL => x.decision.charged >= 0

TransactionsInv == TransactionsTypeOK /\ AcceptedIsStored /\ StatusMatchesDecision

(* One transaction across a step. *)
StepKept(old, new) ==
    /\ new # NULL
    /\ old.decision # NULL => new.decision = old.decision
    /\ old.status = "reconciled" => new.status = "reconciled"

(* A step changes nothing, adds an acceptance of what is stored, creates a
   transaction, decides one or reconciles one. *)
LEMMA StepPreserves ==
    ASSUME TransactionsInv, [TransactionsNext]_transactionVars
    PROVE  /\ TransactionsInv'
           /\ \A t \in Transaction : transactions[t] # NULL =>
                StepKept(transactions[t], transactions'[t])
(* What a call makes of the transaction it changes. *)
<1>DecidedTransaction. ASSUME TransactionsInv, NEW t \in Transaction, NEW d \in FareDecision,
                              transactions[t] # NULL, transactions[t].decision = NULL
                       PROVE  LET new == [transactions[t] EXCEPT !.decision = d, !.status = "decided"] IN
                              /\ new \in FareTransaction /\ new # NULL
                              /\ new.decision = d
                              /\ StatusMatches(new)
                              /\ StepKept(transactions[t], new)
  <2>. USE <1>DecidedTransaction
  <2>1. /\ transactions[t] \in FareTransaction
        /\ transactions[t].status = "pending_decision"
    BY DEF TransactionsInv, TransactionsTypeOK, StatusMatchesDecision
  <2>. DEFINE new == [transactions[t] EXCEPT !.decision = d, !.status = "decided"]
  <2>2. new \in FareTransaction /\ new.decision = d /\ new.status = "decided"
    BY <2>1 DEF FareTransaction, FareTransactionStatus
  <2>. HIDE DEF new
  <2>3. new # NULL
    BY <2>2, FareTransactionAssumption
  <2>4. StatusMatches(new) /\ StepKept(transactions[t], new)
    BY <2>1, <2>2, <2>3, DecisionFacts DEF StatusMatches, StepKept
  <2>. QED
    BY <2>2, <2>3, <2>4 DEF new
<1>ReconciledTransaction. ASSUME TransactionsInv, NEW t \in Transaction,
                                 transactions[t] # NULL, transactions[t].status = "decided"
                          PROVE  LET new == [transactions[t] EXCEPT !.status = "reconciled"] IN
                                 /\ new \in FareTransaction /\ new # NULL
                                 /\ new.decision = transactions[t].decision
                                 /\ StatusMatches(new)
                                 /\ StepKept(transactions[t], new)
  <2>. USE <1>ReconciledTransaction
  <2>1. transactions[t] \in FareTransaction /\ StatusMatches(transactions[t])
    BY DEF TransactionsInv, TransactionsTypeOK, StatusMatchesDecision, StatusMatches
  <2>. DEFINE new == [transactions[t] EXCEPT !.status = "reconciled"]
  <2>2. new \in FareTransaction /\ new.decision = transactions[t].decision
        /\ new.status = "reconciled"
    BY <2>1 DEF FareTransaction, FareTransactionStatus
  <2>. HIDE DEF new
  <2>3. new # NULL
    BY <2>2, FareTransactionAssumption
  <2>4. StatusMatches(new) /\ StepKept(transactions[t], new)
    BY <2>1, <2>2, <2>3 DEF StatusMatches, StepKept
  <2>. QED
    BY <2>2, <2>3, <2>4 DEF new
<1>1. ASSUME NEW t \in Transaction, NEW new \in FareTransaction, new # NULL,
             StatusMatches(new),
             transactions' = [transactions EXCEPT ![t] = new],
             transactions[t] # NULL => StepKept(transactions[t], new),
             \A a \in accepted : a[1] = t => new.decision = a[2],
             \/ accepted' = accepted
             \/ \E d \in FareDecision : accepted' = accepted \cup {<<t, d>>} /\ new.decision = d
      PROVE  /\ TransactionsInv'
             /\ \A u \in Transaction : transactions[u] # NULL =>
                  StepKept(transactions[u], transactions'[u])
  <2>1. /\ transactions \in [Transaction -> FareTransaction \cup {NULL}]
        /\ accepted \subseteq Transaction \X FareDecision
        /\ AcceptedIsStored
        /\ StatusMatchesDecision
    BY DEF TransactionsInv, TransactionsTypeOK
  <2>2. transactions'[t] = new /\ \A u \in Transaction \ {t} : transactions'[u] = transactions[u]
    BY <1>1, <2>1
  <2>3. TransactionsTypeOK'
    BY <1>1, <2>1, SMTT(30) DEF TransactionsTypeOK
  <2>4. AcceptedIsStored'
    BY <1>1, <2>1, <2>2, SMTT(30) DEF AcceptedIsStored
  <2>5. StatusMatchesDecision'
    BY <1>1, <2>1, <2>2 DEF StatusMatchesDecision, StatusMatches
  <2>6. \A u \in Transaction : transactions[u] # NULL => StepKept(transactions[u], transactions'[u])
    BY <1>1, <2>2 DEF StepKept
  <2>. QED
    BY <2>3, <2>4, <2>5, <2>6 DEF TransactionsInv
<1>2. ASSUME transactions' = transactions,
             \/ accepted' = accepted
             \/ \E t \in Transaction, d \in FareDecision :
                  /\ accepted' = accepted \cup {<<t, d>>}
                  /\ transactions[t] # NULL /\ transactions[t].decision = d
      PROVE  /\ TransactionsInv'
             /\ \A u \in Transaction : transactions[u] # NULL =>
                  StepKept(transactions[u], transactions'[u])
  BY <1>2, SMTT(30) DEF TransactionsInv, TransactionsTypeOK, AcceptedIsStored, StatusMatchesDecision, StepKept
<1>3. ASSUME NEW t \in Transaction, NEW mode \in FareProcessingMode, NewPendingTransaction(t, mode)
      PROVE  /\ TransactionsInv'
             /\ \A u \in Transaction : transactions[u] # NULL =>
                  StepKept(transactions[u], transactions'[u])
  <2>. DEFINE new == [mode |-> mode, status |-> "pending_decision", decision |-> NULL]
  <2>1. new \in FareTransaction /\ StatusMatches(new)
    BY DEF FareTransaction, FareTransactionStatus, StatusMatches
  <2>2. transactions[t] = NULL /\ transactions' = [transactions EXCEPT ![t] = new]
        /\ accepted' = accepted
    BY <1>3 DEF NewPendingTransaction
  <2>. HIDE DEF new
  <2>3. \A a \in accepted : a[1] # t
    BY <2>2 DEF TransactionsInv, AcceptedIsStored
  <2>. QED
    BY <1>1, <2>1, <2>2, <2>3, FareTransactionAssumption
<1>4. ASSUME NEW t \in Transaction, NEW d \in FareDecision, RecordDecision(t, d)
      PROVE  /\ TransactionsInv'
             /\ \A u \in Transaction : transactions[u] # NULL =>
                  StepKept(transactions[u], transactions'[u])
  <2>1. CASE transactions[t].decision = NULL
    <3>. DEFINE new == [transactions[t] EXCEPT !.decision = d, !.status = "decided"]
    <3>1. transactions[t] # NULL /\ transactions' = [transactions EXCEPT ![t] = new]
          /\ accepted' = accepted \cup {<<t, d>>}
      BY <1>4, <2>1, DecisionFacts DEF RecordDecision
    <3>2. /\ new \in FareTransaction /\ new # NULL /\ new.decision = d
          /\ StatusMatches(new) /\ StepKept(transactions[t], new)
      BY <2>1, <3>1, <1>DecidedTransaction
    <3>3. \A a \in accepted : a[1] # t
      BY <2>1, DecisionFacts DEF TransactionsInv, TransactionsTypeOK, AcceptedIsStored
    <3>. HIDE DEF new
    <3>. QED
      BY <1>1, <3>1, <3>2, <3>3
  <2>2. CASE transactions[t].decision # NULL
    BY <1>2, <1>4, <2>2 DEF RecordDecision, transactionVars
  <2>. QED
    BY <2>1, <2>2
<1>5. ASSUME NEW t \in Transaction, MarkReconciled(t)
      PROVE  /\ TransactionsInv'
             /\ \A u \in Transaction : transactions[u] # NULL =>
                  StepKept(transactions[u], transactions'[u])
  <2>1. CASE transactions[t].status = "decided"
    <3>. DEFINE new == [transactions[t] EXCEPT !.status = "reconciled"]
    <3>1. transactions[t] # NULL /\ transactions' = [transactions EXCEPT ![t] = new]
          /\ accepted' = accepted
      BY <1>5, <2>1 DEF MarkReconciled
    <3>2. /\ new \in FareTransaction /\ new # NULL
          /\ new.decision = transactions[t].decision
          /\ StatusMatches(new) /\ StepKept(transactions[t], new)
      BY <2>1, <3>1, <1>ReconciledTransaction
    <3>3. \A a \in accepted : a[1] = t => new.decision = a[2]
      BY <3>2 DEF TransactionsInv, AcceptedIsStored
    <3>. HIDE DEF new
    <3>. QED
      BY <1>1, <3>1, <3>2, <3>3
  <2>2. CASE transactions[t].status # "decided"
    BY <1>2, <1>5, <2>2 DEF MarkReconciled, transactionVars
  <2>. QED
    BY <2>1, <2>2
<1>6. CASE UNCHANGED transactionVars
  BY <1>2, <1>6 DEF transactionVars
<1>. QED
  BY <1>3, <1>4, <1>5, <1>6 DEF TransactionsNext

LEMMA TransactionsInvariant == TransactionsSpec => []TransactionsInv
<1>1. TransactionsInit => TransactionsInv
  BY DEF TransactionsInit, TransactionsInv, TransactionsTypeOK, AcceptedIsStored, StatusMatchesDecision
<1>2. TransactionsInv /\ [TransactionsNext]_transactionVars => TransactionsInv'
  BY StepPreserves
<1>. QED
  BY <1>1, <1>2, PTL DEF TransactionsSpec

-----------------------------------------------------------------------------
(* The theorems *)

(* All callers whose decision record_decision accepted agree with each other
   and with the stored decision. *)
THEOREM AcceptedAlwaysStored == TransactionsSpec => []AcceptedIsStored
<1>1. TransactionsInv => AcceptedIsStored
  BY DEF TransactionsInv
<1>. QED
  BY <1>1, TransactionsInvariant, PTL

(* The status tells whether there is a decision, and no stored decision
   charges a negative amount. *)
THEOREM StatusAlwaysMatches == TransactionsSpec => []StatusMatchesDecision
<1>1. TransactionsInv => StatusMatchesDecision
  BY DEF TransactionsInv
<1>. QED
  BY <1>1, TransactionsInvariant, PTL

(* Decisions are final and reconciliations are never undone. *)
THEOREM DecisionsFinal == TransactionsSpec => DecisionFinal
<1>1. TransactionsInv /\ [TransactionsNext]_transactionVars
        => [\A t \in Transaction : transactions[t] # NULL =>
              /\ transactions'[t] # NULL
              /\ transactions[t].decision # NULL =>
                   transactions'[t].decision = transactions[t].decision
              /\ transactions[t].status = "reconciled" =>
                   transactions'[t].status = "reconciled"]_transactionVars
  BY StepPreserves DEF StepKept
<1>. QED
  BY <1>1, TransactionsInvariant, PTL DEF TransactionsSpec, DecisionFinal

=============================================================================
