---------------------------- MODULE MCAlgorithms ----------------------------
(***************************************************************************)
(* FareRules, ReaderSimulator and Fingerprints for TLC in one run.  The    *)
(* first two share the fare engine, and no two of them share a variable:   *)
(* each one moves only while the others are in their initial state.        *)
(***************************************************************************)
EXTENDS FareRules, ReaderSimulator, Fingerprints

USD(n) == FromMinorUnits(n, "USD")

MCRulesPolicy ==
    {[currency |-> "USD", baseFare |-> USD(b), zoneSurcharge |-> USD(s),
      transferWindow |-> 1, transferDiscount |-> USD(t), dailyCap |-> USD(d),
      weeklyCap |-> USD(w), discount |-> [e \in Eligibility |-> IF e = "standard" THEN 0 ELSE r]] :
        b \in {0, 3}, s \in {1, 3}, t \in {0, 2}, d \in {3, 5}, w \in {5, 7}, r \in {0, 2}}

(* Charged amounts at and beyond the caps, and at the largest value. *)
MCHistory ==
    {[daily |-> USD(d), weekly |-> USD(w)] : d \in {0, 2, MaxUnits}, w \in {2, 4, MaxUnits}}
    \cup {[daily |-> Zero("CAD"), weekly |-> USD(1)]}

MCProduct ==
    {[from |-> 1, until |-> 2, coverage |-> c] : c \in {Zone, {1, 2}}}
    \cup {[from |-> 3, until |-> 4, coverage |-> Zone]}

MCInput ==
    {[time |-> 2, origin |-> z[1], destination |-> z[2],
      eligibility |-> IF z = <<1, 1>> THEN "standard" ELSE "youth", previous |-> p,
      history |-> h, product |-> x, balance |-> USD(b)] :
        z \in {<<1, 1>>, <<3, 1>>, <<2, 3>>}, p \in {NULL, 0, 1, 3}, h \in MCHistory,
        x \in {NULL} \cup MCProduct, b \in {-1, 2, 7}}

(* The policy, the revocation data, both or neither too old, or from the future. *)
MCContext ==
    {[policyCachedAt |-> c[1], maximumPolicyAge |-> 1, revocationCachedAt |-> c[2],
      maximumRevocationAge |-> 1, limit |-> USD(1)] :
        c \in {<<1, 1>>, <<1, 0>>, <<0, 0>>, <<3, 1>>}}

-----------------------------------------------------------------------------
(* The reader simulator *)

MCPolicy ==
    {[currency |-> "USD", baseFare |-> USD(2), zoneSurcharge |-> USD(1),
      transferWindow |-> 1, transferDiscount |-> USD(1), dailyCap |-> USD(c[1]),
      weeklyCap |-> USD(c[2]), discount |-> [e \in Eligibility |-> 0]] :
        c \in {<<3, 5>>, <<4, 4>>}}

MCTap ==
    {[time |-> j[1], origin |-> 1, destination |-> j[2], eligibility |-> "youth",
      product |-> NULL] : j \in {<<1, 2>>, <<3, 1>>, <<3, 2>>}}
    \cup {[time |-> 1, origin |-> 1, destination |-> 2, eligibility |-> "youth",
           product |-> [from |-> 1, until |-> 2, coverage |-> Zone]]}

MCOffline ==
    {[policyCachedAt |-> 1, maximumPolicyAge |-> 2, revocationCachedAt |-> 1,
      maximumRevocationAge |-> 1, limit |-> USD(2)],
     [policyCachedAt |-> 2, maximumPolicyAge |-> 2, revocationCachedAt |-> 1,
      maximumRevocationAge |-> 2, limit |-> USD(1)]}

-----------------------------------------------------------------------------
(* Fingerprints: texts of different lengths whose concatenations can coincide (3
   is also the reader), one or two entries, and every outcome. *)

Short == <<171>>
Long == <<171, 171>>
Ids == {<<1>>, <<2>>}

(* The entries of a request or acknowledgement: one entry, or two in order. *)
EntriesOf(New(_, _)) ==
    UNION {{<<e>> : e \in New(t, n)} : t \in Ids, n \in {1, 2}}
    \cup UNION {{<<e, f>> : e \in New(<<1>>, 1), f \in New(<<2>>, 2)},
                {<<e, f>> : e \in New(<<2>>, 1), f \in New(<<1>>, 2)}}

RequestEntries(t, n) ==
    {RequestEntry(t, n, envelope) : envelope \in {Short, Long, <<1>>}}

MCRequest ==
    {r \in {SynchronizationBatchRequest(1, environment, <<3>>, software, <<4>>,
              Head(entries).sequence, Last(entries).sequence, at, entries) :
              environment \in {Short, <<171, 3>>}, software \in {Short, <<3, 171>>},
              at \in {0, 256}, entries \in EntriesOf(RequestEntries)} :
       ValidRequest(r)}

AcknowledgementEntries(t, n) ==
    {e \in {AcknowledgementEntry(t, n, outcome, category, retryAt) :
              outcome \in SynchronizationEntryOutcome,
              category \in {NULL, Short, Long}, retryAt \in {NULL, 5}} :
       ValidOutcomeMetadata(e)}

MCAcknowledgement ==
    {a \in {[version |-> 1, environment |-> environment, reader |-> <<3>>, batch |-> <<4>>,
             first |-> Head(entries).sequence, last |-> Last(entries).sequence,
             receivedAt |-> 7, replayed |-> replayed, entries |-> entries] :
              environment \in {Short, Long}, replayed \in BOOLEAN,
              entries \in EntriesOf(AcknowledgementEntries)} :
       ValidAcknowledgement(a)}

-----------------------------------------------------------------------------

AlgorithmsInit == RulesInit /\ SimulatorInit /\ FingerprintsInit

AlgorithmsNext ==
    \/ /\ SimulatorInit /\ FingerprintsInit
       /\ RulesNext /\ UNCHANGED <<simulatorVars, fingerprintVars>>
    \/ /\ RulesInit /\ FingerprintsInit
       /\ SimulatorNext /\ UNCHANGED <<evaluated, fingerprintVars>>
    \/ /\ RulesInit /\ SimulatorInit
       /\ FingerprintsNext /\ UNCHANGED <<evaluated, simulatorVars>>

AlgorithmsSpec ==
    AlgorithmsInit /\ [][AlgorithmsNext]_<<evaluated, simulatorVars, fingerprintVars>>

=============================================================================
