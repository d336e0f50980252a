-------------------------- MODULE ReaderSimulator --------------------------
(***************************************************************************)
(* The reader simulator (apps/reader-simulator/src: lib.rs,                *)
(* fare_processing.rs, scenario.rs): the lifecycle of a reader, its local  *)
(* sequence numbers, taps evaluated by the fare engine in the mode the     *)
(* connectivity selects, and scenarios of several actions.  The histories  *)
(* and the balance that a tap is evaluated with are the caller's; the      *)
(* caller here is one rider who records what was charged.                  *)
(***************************************************************************)
EXTENDS FareEngine, Sequences

CONSTANTS
    Policy,       \* fare-policy definitions
    Tap,          \* [time, origin, destination, eligibility, product] of a presentation
    Offline,      \* offline contexts
    MaxSequence,  \* largest local sequence number (2^64 - 1 in the code)
    MaxActions,   \* bound on the actions of a scenario
    Funds         \* stored value of the rider at first

VARIABLES
    state,         \* ReaderOperatingState
    nextSequence,  \* next_local_sequence
    scenario,      \* policy of the running scenario, NULL when none runs
    report,        \* steps of the running or the last scenario
    rider,         \* what the rider paid today, this week and last, and the balance
    reached        \* approved fares that reported the daily cap reached today:
                   \* [policy, covered], covered when a product paid for it

simulatorVars == <<state, nextSequence, scenario, report, rider, reached>>

ValidPolicies == {p \in Policy : ValidPolicy(p)}

Amount(units) == FromMinorUnits(units, "USD")

-----------------------------------------------------------------------------
(* Types *)

ReaderOperatingState == {"booting", "ready_online", "ready_offline", "stopped"}

ReaderConnectivity == {"connected", "disconnected"}

ScenarioFailureCategory ==
    {"reader_not_ready", "reader_state_transition", "sequence_exhausted", "fare_evaluation",
     "offline_evaluation", "missing_offline_context"}

ScenarioStepResult ==
    [kind : {"connectivity_changed"}, connectivity : ReaderConnectivity]
    \cup [kind : {"fare_processed"}, sequence : 1..(MaxSequence - 1),
          mode : {"online", "offline"}, approved : BOOLEAN, reason : STRING,
          charged : Nat, finalFare : Nat]
    \cup [kind : {"failed"}, category : ScenarioFailureCategory]

ScenarioStepRecord ==
    [number : 1..MaxActions, action : {"connectivity_change", "fare_presentation"},
     state : ReaderOperatingState, next : 1..MaxSequence, result : ScenarioStepResult]

-----------------------------------------------------------------------------
(* The lifecycle *)

SimulatorInit ==
    /\ state = "booting" /\ nextSequence = 1
    /\ scenario = NULL /\ report = <<>>
    /\ rider = [daily |-> 0, weekly |-> 0, balance |-> Funds, previous |-> NULL]
    /\ reached = {}

StateForConnectivity(connectivity) ==
    IF connectivity = "connected" THEN "ready_online" ELSE "ready_offline"

Ready == state \in {"ready_online", "ready_offline"}

ProcessingMode == IF state = "ready_online" THEN "online" ELSE "offline"

Start(connectivity) ==
    /\ scenario = NULL
    /\ state = "booting"
    /\ state' = StateForConnectivity(connectivity)
    /\ UNCHANGED <<nextSequence, scenario, report, rider, reached>>

Stop ==
    /\ scenario = NULL
    /\ state # "stopped"
    /\ state' = "stopped"
    /\ UNCHANGED <<nextSequence, scenario, report, rider, reached>>

(* A presentation without a fare also consumes a sequence number. *)
PresentCredential ==
    /\ scenario = NULL
    /\ Ready
    /\ nextSequence < MaxSequence
    /\ nextSequence' = nextSequence + 1
    /\ UNCHANGED <<state, scenario, report, rider, reached>>

-----------------------------------------------------------------------------
(* Scenarios *)

RunScenario(policy) ==
    /\ scenario = NULL
    /\ scenario' = policy
    /\ report' = <<>>
    /\ UNCHANGED <<state, nextSequence, rider, reached>>

FinishScenario ==
    /\ scenario # NULL
    /\ scenario' = NULL
    /\ UNCHANGED <<state, nextSequence, report, rider, reached>>

(* The record shows the reader after the action, which may have failed. *)
Record(action, result) ==
    /\ scenario # NULL
    /\ Len(report) < MaxActions
    /\ report' = Append(report, [number |-> Len(report) + 1, action |-> action,
                                 state |-> state', next |-> nextSequence', result |-> result])
    /\ UNCHANGED scenario

Failed(category) == [kind |-> "failed", category |-> category]

SetConnectivity(connectivity) ==
    /\ IF Ready
       THEN /\ state' = StateForConnectivity(connectivity)
            /\ UNCHANGED nextSequence
            /\ Record("connectivity_change",
                      [kind |-> "connectivity_changed", connectivity |-> connectivity])
       ELSE /\ UNCHANGED <<state, nextSequence>>
            /\ Record("connectivity_change", Failed("reader_state_transition"))
    /\ UNCHANGED <<rider, reached>>

-----------------------------------------------------------------------------
(* Taps *)

(* The journey: the same values reach the protocol message and the fare. *)
ReaderPresentationInput(tap) ==
    [time |-> tap.time, origin |-> tap.origin, destination |-> tap.destination]

(* ReaderFareContext::online when offline is NULL, ::offline when it is not *)
ReaderFareContext(tap, offline) ==
    [eligibility |-> tap.eligibility, previous |-> rider.previous,
     history |-> [daily |-> Amount(rider.daily), weekly |-> Amount(rider.weekly)],
     product |-> tap.product, balance |-> Amount(rider.balance), offline |-> offline]

EvaluationInput(input, context) ==
    [time |-> input.time, origin |-> input.origin, destination |-> input.destination,
     eligibility |-> context.eligibility, product |-> context.product,
     previous |-> context.previous, history |-> context.history,
     balance |-> context.balance]

(* The message that present_credential builds, before the number is consumed. *)
CredentialPresentation(input) ==
    [sequence |-> nextSequence, mode |-> ProcessingMode, time |-> input.time,
     origin |-> input.origin, destination |-> input.destination]

ReaderTapDecision(input, evaluation) ==
    [presentation |-> CredentialPresentation(input), evaluation |-> evaluation]

Evaluations(policy, tap, offline) ==
    LET context == ReaderFareContext(tap, offline)
        input   == EvaluationInput(ReaderPresentationInput(tap), context)
    IN  IF state = "ready_online" THEN EvaluateFare(policy, input)
        ELSE EvaluateFareOffline(policy, input, context.offline)

(* Why a tap is refused, in the order of process_fare; NULL when it is not.
   ZoneTranslationFailed cannot happen: both zone types refuse only zero. *)
Refusal(policy, tap, offline) ==
    IF ~Ready THEN "reader_not_ready"
    ELSE IF state = "ready_offline" /\ offline = NULL THEN "missing_offline_context"
    ELSE IF Evaluations(policy, tap, offline) = {}
    THEN IF state = "ready_online" THEN "fare_evaluation" ELSE "offline_evaluation"
    ELSE IF nextSequence >= MaxSequence THEN "sequence_exhausted"
    ELSE NULL

(* What the rider writes down after a decision.  The evidence reports the cap as
   if the fare had been charged, also when a product covers it. *)
Charge(tap, policy, evaluation) ==
    LET units == evaluation.outcome.charged.units
    IN  /\ rider' = IF evaluation.outcome.approved
                    THEN [daily |-> rider.daily + units, weekly |-> rider.weekly + units,
                          balance |-> rider.balance - units, previous |-> tap.time]
                    ELSE rider
        /\ reached' = IF evaluation.outcome.approved /\ DailyCapReached(policy, evaluation.caps)
                      THEN reached \cup {[policy |-> policy, covered |-> tap.product # NULL]}
                      ELSE reached

Processed(decision) ==
    LET outcome == decision.evaluation.outcome
    IN  [kind |-> "fare_processed", sequence |-> decision.presentation.sequence,
         mode |-> decision.presentation.mode, approved |-> outcome.approved,
         reason |-> outcome.reason, charged |-> outcome.charged.units,
         finalFare |-> decision.evaluation.product.fare.units]

(* Plausible mistake in ProcessFare: the sequence number is taken first. *)
ProcessFareSequenceFirst(tap, offline) ==
    /\ scenario # NULL
    /\ Refusal(scenario, tap, offline) \in {"fare_evaluation", "offline_evaluation"}
    /\ nextSequence < MaxSequence
    /\ nextSequence' = nextSequence + 1
    /\ UNCHANGED <<state, rider, reached>>
    /\ Record("fare_presentation", Failed(Refusal(scenario, tap, offline)))

ProcessFare(tap, offline) ==
    /\ scenario # NULL
    /\ UNCHANGED state
    /\ \/ /\ Refusal(scenario, tap, offline) # NULL
          /\ UNCHANGED <<nextSequence, rider, reached>>
          /\ Record("fare_presentation", Failed(Refusal(scenario, tap, offline)))
       \/ /\ Refusal(scenario, tap, offline) = NULL
          /\ nextSequence' = nextSequence + 1
          /\ \E evaluation \in Evaluations(scenario, tap, offline) :
               /\ Charge(tap, scenario, evaluation)
               /\ Record("fare_presentation",
                         Processed(ReaderTapDecision(ReaderPresentationInput(tap), evaluation)))

(* The rider's next day, in the same week or in a new one. *)
NewDay ==
    /\ scenario = NULL
    /\ rider.daily > 0
    /\ \E weekly \in {0, rider.weekly} :
         rider' = [rider EXCEPT !.daily = 0, !.weekly = weekly]
    /\ reached' = {}
    /\ UNCHANGED <<state, nextSequence, scenario, report>>

SimulatorNext ==
    \/ \E connectivity \in ReaderConnectivity :
         Start(connectivity) \/ SetConnectivity(connectivity)
    \/ Stop
    \/ PresentCredential
    \/ \E policy \in ValidPolicies : RunScenario(policy)
    \/ FinishScenario
    \/ \E tap \in Tap, offline \in {NULL} \cup Offline : ProcessFare(tap, offline)
    \/ NewDay

SimulatorSpec == SimulatorInit /\ [][SimulatorNext]_simulatorVars

-----------------------------------------------------------------------------
(* Properties *)

IsProcessed(step) == step.result.kind = "fare_processed"

(* The report of a scenario is a faithful record.  The sequence numbers have no
   gap and no repetition, whatever fails between two taps: a processed tap
   consumes exactly the number that was next, and no other step consumes one.  A
   tap is evaluated in the mode of the connectivity last set: an approval is
   provisional exactly when the reader was disconnected. *)
ReportFaithful ==
    /\ \A i \in DOMAIN report : report[i] \in ScenarioStepRecord
    /\ \A i, j \in DOMAIN report :
         LET taps == {k \in i..j : IsProcessed(report[k])}
         IN  i <= j /\ IsProcessed(report[i]) =>
               report[j].next = report[i].result.sequence + Cardinality(taps)
    /\ \A i \in DOMAIN report :
         i > 1 /\ ~IsProcessed(report[i]) => report[i].next = report[i - 1].next
    /\ \A i \in DOMAIN report : IsProcessed(report[i]) =>
         /\ report[i].result.mode =
              (IF report[i].state = "ready_online" THEN "online" ELSE "offline")
         /\ report[i].result.approved =>
              (report[i].result.mode = "offline") <=> (report[i].result.reason = "offline_provisional")
         /\ \A j \in 1..(i - 1) :
              (/\ report[j].result.kind = "connectivity_changed"
               /\ \A k \in (j + 1)..(i - 1) : report[k].action # "connectivity_change") =>
                report[i].state = StateForConnectivity(report[j].result.connectivity)

(* A rider whose history is kept from tap to tap is never charged beyond the
   caps of the policy in force, whichever policies were in force before; and
   once a fare paid from stored value reports the daily cap of a policy as
   reached, that policy charges nothing more that day.  The report of a fare
   that a product covered says less: nothing was charged, the cap need not be
   reached, and the policy may charge again. *)
CapsHold ==
    [][/\ rider'.daily > rider.daily =>
            /\ rider'.daily <= scenario.dailyCap.units
            /\ rider'.weekly <= scenario.weeklyCap.units
       /\ [policy |-> scenario, covered |-> FALSE] \in reached =>
            rider'.balance >= rider.balance]_simulatorVars

=============================================================================
