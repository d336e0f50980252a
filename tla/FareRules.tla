------------------------------ MODULE FareRules ------------------------------
(***************************************************************************)
(* The fare engine on every policy and every input of a bounded set: one   *)
(* evaluation online and one offline, compared with a reference            *)
(* definition of the fare.                                                 *)
(***************************************************************************)
EXTENDS FareEngine

CONSTANTS
    RulesPolicy,  \* fare-policy definitions
    Input,        \* evaluation inputs
    Context       \* offline contexts

VARIABLE
    evaluated  \* a policy, an input and an offline context with the results of
               \* evaluate_fare and evaluate_fare_offline; NULL before

RulesInit == evaluated = NULL

Evaluate(policy, input, context) ==
    /\ ValidPolicy(policy)
    /\ input \in FareEvaluationInput
    /\ input.product = NULL \/ ValidProduct(input.product)
    /\ context \in OfflineEvaluationContext
    /\ evaluated' = [policy |-> policy, input |-> input, context |-> context,
                     online |-> EvaluateFare(policy, input),
                     offline |-> EvaluateFareOffline(policy, input, context)]

RulesNext ==
    /\ evaluated = NULL
    /\ \E policy \in RulesPolicy, input \in Input, context \in Context :
         Evaluate(policy, input, context)

RulesSpec == RulesInit /\ [][RulesNext]_evaluated

-----------------------------------------------------------------------------
(* The reference: one formula for the fare *)

Larger(a, b) == IF a >= b THEN a ELSE b

FullFareUnits(policy, input) ==
    policy.baseFare.units
      + policy.zoneSurcharge.units
          * Larger(input.origin - input.destination, input.destination - input.origin)

Transfers(policy, input) ==
    /\ input.previous # NULL
    /\ input.time \in input.previous..(input.previous + policy.transferWindow)

ReferenceUnits(policy, input) ==
    LET full == FullFareUnits(policy, input)
        discounted == full - (full * policy.discount[input.eligibility]) \div FullFare
        transferred == IF Transfers(policy, input)
                       THEN Larger(discounted - policy.transferDiscount.units, 0)
                       ELSE discounted
    IN  Min({transferred, Larger(policy.dailyCap.units - input.history.daily.units, 0),
             Larger(policy.weeklyCap.units - input.history.weekly.units, 0)})

(* The inputs that the engine documents as errors. *)
Erroneous(policy, input) ==
    \/ \E amount \in {input.balance, input.history.daily, input.history.weekly} :
         ~ValidAmount(policy, amount)
    \/ input.history.daily.units > input.history.weekly.units
    \/ input.previous # NULL /\ input.previous > input.time
    \/ FullFareUnits(policy, input) > MaxUnits

-----------------------------------------------------------------------------
(* Properties *)

(* The charge is the reference fare: rules are applied in their documented
   order, a product covers it entirely, and the fare is refused for lack of
   stored value exactly when the balance is smaller.  evaluate_fare fails
   exactly on the inputs it documents: none of the failures called unexpected
   (the subtractions of transfer.rs, cap.rs and product.rs) happens. *)
ChargeIsReference ==
    evaluated # NULL =>
      LET reference == ReferenceUnits(evaluated.policy, evaluated.input)
      IN  /\ evaluated.online = {} <=> Erroneous(evaluated.policy, evaluated.input)
          /\ \A e \in evaluated.online :
               CASE evaluated.input.product = NULL ->
                      /\ e.outcome.approved <=> evaluated.input.balance.units >= reference
                      /\ e.outcome.approved => e.outcome.charged.units = reference
                 [] OTHER -> e.outcome.charged.units = 0

(* The evidence accounts for every unit: the fare before discounts is the final
   fare and the four discounts, online and offline, no stage's fare or discount
   is negative, and the sums in apply_fare_caps that are not checked for
   overflow stay in the range of an i64, whatever was charged before. *)
EvidenceAddsUp ==
    evaluated # NULL => \A e \in evaluated.online \cup evaluated.offline :
      LET stages == {e.discounted, e.transfer, e.caps, e.product}
      IN  /\ e \in FareDecisionEvidence
          /\ \A stage \in stages : stage.fare.units >= 0 /\ stage.discount.units >= 0
          /\ e.discounted.before.units =
               e.product.fare.units + e.discounted.discount.units + e.transfer.discount.units
                 + e.caps.discount.units + e.product.discount.units
          /\ {e.caps.sums.dailySum, e.caps.sums.weeklySum} \subseteq Units

(* Offline evaluation only restricts: what it approves is approved online, for
   the same charge, within the limit and with both snapshots fresh. *)
OfflineIsStricter ==
    evaluated # NULL => \A e \in evaluated.offline : e.outcome.approved =>
      LET context == evaluated.context
      IN  /\ \E f \in evaluated.online :
               f.outcome.approved /\ f.outcome.charged = e.outcome.charged
          /\ e.outcome.charged.units <= context.limit.units
          /\ evaluated.input.time \in
               context.policyCachedAt..(context.policyCachedAt + context.maximumPolicyAge)
          /\ evaluated.input.time \in
               context.revocationCachedAt
                 ..(context.revocationCachedAt + context.maximumRevocationAge)

=============================================================================
