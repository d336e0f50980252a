---------------------------- MODULE MCComponents ----------------------------
(***************************************************************************)
(* Four components for TLC in one run.  They share no variable, so what    *)
(* one of them may do does not depend on the others, and it is enough to   *)
(* follow each one alone: a component moves only while the others are in   *)
(* their initial states.                                                   *)
(***************************************************************************)
EXTENDS EquipmentRegistry, TransitAccounts, FareTransactions, Telemetry, TLC

(* Every kind of amount: invalid, ordinary, and in another currency. *)
MCAmount == {FromMinorUnits(u, "USD") : u \in {-1, 1, 2}} \cup {FromMinorUnits(1, "CAD")}

MCCharge == {-1, 0, 2}

(* The handlers are interchangeable. *)
MCSymmetry == Permutations(Handler)

ComponentsInit == RegistryInit /\ AccountsInit /\ TransactionsInit /\ TelemetryInit

ComponentsNext ==
    \/ /\ AccountsInit /\ TransactionsInit /\ TelemetryInit
       /\ RegistryNext
       /\ UNCHANGED <<accountVars, transactionVars, telemetryVars>>
    \/ /\ RegistryInit /\ TransactionsInit /\ TelemetryInit
       /\ AccountsNext
       /\ UNCHANGED <<registryVars, transactionVars, telemetryVars>>
    \/ /\ RegistryInit /\ AccountsInit /\ TelemetryInit
       /\ TransactionsNext
       /\ UNCHANGED <<registryVars, accountVars, telemetryVars>>
    \/ /\ RegistryInit /\ AccountsInit /\ TransactionsInit
       /\ TelemetryNext
       /\ UNCHANGED <<registryVars, accountVars, transactionVars>>

ComponentsSpec ==
    /\ ComponentsInit
    /\ [][ComponentsNext]_<<registryVars, accountVars, transactionVars, telemetryVars>>

=============================================================================
