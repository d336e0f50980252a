----------------------------- MODULE FareEngine -----------------------------
(***************************************************************************)
(* The deterministic fare engine (crates/fare-engine/src): the rules of a  *)
(* fare policy as pure operators.  As in Money, an operator that can fail  *)
(* is the set of its results, {} for an error.                             *)
(***************************************************************************)
EXTENDS Money, FiniteSets, FiniteSetsExt, Absent, Eligibilities

CONSTANTS
    FullFare,     \* basis points of a full discount (10_000 in the code)
    Zone          \* fare zones, numbered from one

ASSUME FareEngineAssumption ==
    /\ MaxUnits \in Nat
    /\ FullFare \in Nat \ {0}
    /\ Zone \subseteq Nat \ {0}

-----------------------------------------------------------------------------
(* Fare policies *)

TransferWindow == Nat \ {0}

DiscountBasisPoints == 0..FullFare

(* rate_for: no rate can be configured for the standard classification. *)
EligibilityDiscounts ==
    {rates \in [Eligibility -> DiscountBasisPoints] :
       \A e \in Eligibility : e = "standard" => rates[e] = 0}

FarePolicyDefinition ==
    [currency : Currency, baseFare : Money, zoneSurcharge : Money,
     transferWindow : TransferWindow, transferDiscount : Money, dailyCap : Money,
     weeklyCap : Money, discount : EligibilityDiscounts]

ValidAmount(policy, amount) == amount.currency = policy.currency /\ amount.units >= 0

(* FarePolicy::validate *)
ValidPolicy(policy) ==
    /\ policy \in FarePolicyDefinition
    /\ \A amount \in {policy.baseFare, policy.zoneSurcharge, policy.transferDiscount,
                      policy.dailyCap, policy.weeklyCap} : ValidAmount(policy, amount)
    /\ policy.dailyCap.units >= policy.baseFare.units
    /\ policy.weeklyCap.units >= policy.dailyCap.units
    /\ policy.transferDiscount.units <= policy.baseFare.units

-----------------------------------------------------------------------------
(* Base fare, zones and eligibility *)

AbsDiff(a, b) == IF a >= b THEN a - b ELSE b - a

ZoneSurcharge(surcharge, zones) == Checked(surcharge.units * zones, surcharge.currency)

(* The division truncates: a discount is never rounded up. *)
Percentage(amount, rate) == Checked((amount.units * rate) \div FullFare, amount.currency)

(* The fare before discounts, the eligibility discount and what is left. *)
DiscountedFare(policy, input) ==
    LET zones == AbsDiff(input.origin, input.destination)
        before == UNION {CheckedAdd(policy.baseFare, s) :
                           s \in ZoneSurcharge(policy.zoneSurcharge, zones)}
        Discounted(fare) ==
          UNION {{[before |-> fare, discount |-> d, fare |-> left] :
                    left \in CheckedSubtract(fare, d)} :
                 d \in Percentage(fare, policy.discount[input.eligibility])}
    IN  UNION {Discounted(fare) : fare \in before}

-----------------------------------------------------------------------------
(* Transfers *)

(* The set of answers: {} when the previous fare is later than this one. *)
TransferIsEligible(policy, time, previous) ==
    IF previous = NULL THEN {FALSE}
    ELSE IF previous > time THEN {}
    ELSE {time - previous <= policy.transferWindow}

TransferApplication == [discount : Money, fare : Money]

ApplyTransfer(policy, input, fare) ==
    LET discount(eligible) ==
          IF eligible
          THEN FromMinorUnits(Min({policy.transferDiscount.units, fare.units}), policy.currency)
          ELSE Zero(policy.currency)
        applied(eligible) ==
          {[discount |-> discount(eligible), fare |-> left] :
             left \in CheckedSubtract(fare, discount(eligible))}
    IN  IF ValidAmount(policy, fare)
        THEN UNION {applied(eligible) :
                      eligible \in TransferIsEligible(policy, input.time, input.previous)}
        ELSE {}

-----------------------------------------------------------------------------
(* Daily and weekly caps *)

FareCapHistory == [daily : Money, weekly : Money]

FareCapApplication ==
    [fare : Money, discount : Money, sums : [dailySum : Int, weeklySum : Int]]

RemainingAllowance(cap, charged) ==
    IF charged.units >= cap.units THEN {Zero(cap.currency)} ELSE CheckedSubtract(cap, charged)

(* Plausible mistake in CappedUnits: the weekly cap is forgotten. *)
DailyCappedUnits(fare, daily, weekly) == Min({fare.units, daily.units})

CappedUnits(fare, daily, weekly) == Min({fare.units, daily.units, weekly.units})

(* Plausible mistake in CapSums: the fare is added before it is capped. *)
CapSumsBeforeCap(history, fare, capped) ==
    [dailySum |-> history.daily.units + fare.units, weeklySum |-> history.weekly.units + fare.units]

(* The two sums that tell whether a cap is reached; the code does not check them
   for overflow. *)
CapSums(history, fare, capped) ==
    [dailySum |-> history.daily.units + capped.units,
     weeklySum |-> history.weekly.units + capped.units]

ApplyFareCaps(policy, history, fare) ==
    LET capped(daily, weekly) ==
          FromMinorUnits(CappedUnits(fare, daily, weekly), policy.currency)
        applied(daily, weekly) ==
          {[fare |-> capped(daily, weekly), discount |-> d,
            sums |-> CapSums(history, fare, capped(daily, weekly))] :
             d \in CheckedSubtract(fare, capped(daily, weekly))}
    IN  IF /\ \A amount \in {history.daily, history.weekly, fare} : ValidAmount(policy, amount)
           /\ history.daily.units <= history.weekly.units
        THEN UNION {UNION {applied(daily, weekly) :
                             weekly \in RemainingAllowance(policy.weeklyCap, history.weekly)} :
                    daily \in RemainingAllowance(policy.dailyCap, history.daily)}
        ELSE {}

(* Plausible mistake in DailyCapReached: reported one unit early. *)
DailyCapNear(policy, caps) == caps.sums.dailySum + 1 >= policy.dailyCap.units

DailyCapReached(policy, caps) == caps.sums.dailySum >= policy.dailyCap.units
WeeklyCapReached(policy, caps) == caps.sums.weeklySum >= policy.weeklyCap.units

-----------------------------------------------------------------------------
(* Transit products: a validity interval and the set of zones they cover *)

ZoneRange(first, last) == IF first <= last THEN {{z \in Zone : first <= z /\ z <= last}} ELSE {}

Coverages == {Zone} \cup UNION {ZoneRange(a, b) : a \in Zone, b \in Zone}

TransitProductDefinition == [from : Nat, until : Nat, coverage : Coverages]

ValidProduct(product) == product \in TransitProductDefinition /\ product.from <= product.until

ProductApplicationOutcome ==
    {"not_presented", "covered", "not_yet_valid", "expired", "outside_zone_coverage"}

ProductApplication == [outcome : ProductApplicationOutcome, discount : Money, fare : Money]

DetermineOutcome(product, input) ==
    CASE input.time < product.from -> "not_yet_valid"
      [] input.time >= product.from /\ input.time > product.until -> "expired"
      [] OTHER -> IF {input.origin, input.destination} \subseteq product.coverage
                  THEN "covered" ELSE "outside_zone_coverage"

ApplyTransitProduct(policy, input, fare) ==
    LET outcome == IF input.product = NULL THEN "not_presented"
                   ELSE DetermineOutcome(input.product, input)
        discount == IF outcome = "covered" THEN fare ELSE Zero(policy.currency)
    IN  IF ValidAmount(policy, fare)
        THEN {[outcome |-> outcome, discount |-> discount, fare |-> left] :
                left \in CheckedSubtract(fare, discount)}
        ELSE {}

-----------------------------------------------------------------------------
(* The evaluation of a fare *)

FareEvaluationInput ==
    [time : Nat, origin : Zone, destination : Zone, eligibility : Eligibility,
     previous : Nat \cup {NULL}, history : FareCapHistory,
     product : TransitProductDefinition \cup {NULL}, balance : Money]

FareApprovalReason ==
    {"standard_fare", "transfer", "fare_cap", "transit_product", "offline_provisional"}

FareRejectionReason ==
    {"credential_revoked", "credential_expired", "account_suspended", "reader_disabled",
     "invalid_signature", "unsupported_protocol", "insufficient_stored_value",
     "product_invalid", "offline_limit_exceeded", "stale_policy", "stale_revocation_data"}

FareEvaluationOutcome ==
    [approved : {TRUE}, charged : Money, reason : FareApprovalReason]
    \cup [approved : {FALSE}, charged : {Zero(c) : c \in Currency}, reason : FareRejectionReason]

FareDecisionEvidence ==
    [outcome : FareEvaluationOutcome, discounted : [before : Money, discount : Money, fare : Money],
     transfer : TransferApplication, caps : FareCapApplication, product : ProductApplication]

Approved(charged, reason) == [approved |-> TRUE, charged |-> charged, reason |-> reason]
Rejected(currency, reason) == [approved |-> FALSE, charged |-> Zero(currency), reason |-> reason]

StoredValueReason(transferDiscount, capDiscount) ==
    CASE capDiscount.units > 0 -> "fare_cap"
      [] capDiscount.units <= 0 /\ transferDiscount.units > 0 -> "transfer"
      [] OTHER -> "standard_fare"

EvaluateStoredValue(balance, fare, reason) ==
    IF Comparable(balance, fare)
    THEN {IF balance.units < fare.units
          THEN Rejected(fare.currency, "insufficient_stored_value")
          ELSE Approved(fare, reason)}
    ELSE {}

Outcomes(policy, input, transfer, caps, product) ==
    CASE product.outcome = "covered" -> {Approved(Zero(policy.currency), "transit_product")}
      [] product.outcome = "not_presented" ->
           EvaluateStoredValue(input.balance, product.fare,
                               StoredValueReason(transfer.discount, caps.discount))
      [] OTHER -> {Rejected(policy.currency, "product_invalid")}

(* The outcome and the evidence of every stage. *)
EvaluateFare(policy, input) ==
    LET Decided(discounted, transfer, caps, product) ==
          {[outcome |-> o, discounted |-> discounted, transfer |-> transfer,
            caps |-> caps, product |-> product] :
             o \in Outcomes(policy, input, transfer, caps, product)}
        Covered(discounted, transfer, caps) ==
          UNION {Decided(discounted, transfer, caps, p) :
                   p \in ApplyTransitProduct(policy, input, caps.fare)}
        Capped(discounted, transfer) ==
          UNION {Covered(discounted, transfer, c) :
                   c \in ApplyFareCaps(policy, input.history, transfer.fare)}
        Transferred(discounted) ==
          UNION {Capped(discounted, t) : t \in ApplyTransfer(policy, input, discounted.fare)}
    IN  IF ValidAmount(policy, input.balance)
        THEN UNION {Transferred(d) : d \in DiscountedFare(policy, input)}
        ELSE {}

-----------------------------------------------------------------------------
(* Offline evaluation *)

OfflineEvaluationContext ==
    [policyCachedAt : Nat, maximumPolicyAge : Nat, revocationCachedAt : Nat,
     maximumRevocationAge : Nat, limit : Money]

(* {} when the snapshot is later than the fare event. *)
SnapshotAge(cachedAt, time) == IF cachedAt > time THEN {} ELSE {time - cachedAt}

(* Plausible mistake in ApplyOfflineLimit: the limit overrides a rejection. *)
LimitDecides(evaluation, limit) ==
    [evaluation EXCEPT !.outcome =
      IF evaluation.product.fare.units > limit.units
      THEN Rejected(limit.currency, "offline_limit_exceeded")
      ELSE Approved(evaluation.product.fare, "offline_provisional")]

ApplyOfflineLimit(evaluation, limit) ==
    [evaluation EXCEPT !.outcome =
      IF ~evaluation.outcome.approved THEN @
      ELSE IF evaluation.outcome.charged.units > limit.units
      THEN Rejected(limit.currency, "offline_limit_exceeded")
      ELSE Approved(evaluation.outcome.charged, "offline_provisional")]

EvaluateFareOffline(policy, input, context) ==
    LET limited(evaluation, policyAge, revocationAge) ==
          CASE policyAge > context.maximumPolicyAge ->
                 [evaluation EXCEPT !.outcome = Rejected(policy.currency, "stale_policy")]
            [] policyAge <= context.maximumPolicyAge
               /\ revocationAge > context.maximumRevocationAge ->
                 [evaluation EXCEPT
                    !.outcome = Rejected(policy.currency, "stale_revocation_data")]
            [] OTHER -> ApplyOfflineLimit(evaluation, context.limit)
    IN  IF ValidAmount(policy, context.limit)
        THEN UNION {UNION {{limited(e, a, r) : e \in EvaluateFare(policy, input)} :
                             r \in SnapshotAge(context.revocationCachedAt, input.time)} :
                    a \in SnapshotAge(context.policyCachedAt, input.time)}
        ELSE {}

=============================================================================
