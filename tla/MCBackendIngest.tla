--------------------------- MODULE MCBackendIngest ---------------------------
(***************************************************************************)
(* Requests for checking BackendIngest with TLC.                           *)
(***************************************************************************)
EXTENDS BackendIngest, SequencesExt

CONSTANTS b1, b2, t1, t2, r1, env, otherEnv

MCEnvelope(t) == [content |-> t, bytes |-> 1, object |-> TRUE]
LargeEnvelope(t) == [MCEnvelope(t) EXCEPT !.bytes = 3]

MCRequest(batch, entriesOf) ==
    SynchronizationBatchRequest(CurrentVersion, env, r1, "1.0", batch,
      Head(entriesOf).sequence, Last(entriesOf).sequence, 0, entriesOf)

E1 == RequestEntry(t1, 1, MCEnvelope(t1))
E2 == RequestEntry(t2, 2, MCEnvelope(t2))

First == MCRequest(b1, <<E1, E2>>)
Second == MCRequest(b2, <<E2>>)

(* Identities used a second time for something else: the batch of First, and
   its transaction under the sequence of another one. *)
Contradicting == MCRequest(b1, <<RequestEntry(t1, 2, MCEnvelope(t1))>>)

(* Messages that the API refuses, each for one reason of its own. *)
Unsorted == [MCRequest(b2, <<E2, E1>>) EXCEPT !.last = 2]
TooLarge == MCRequest(b2, <<RequestEntry(t1, 1, LargeEnvelope(t1)),
                            RequestEntry(t2, 2, LargeEnvelope(t2))>>)
NoObject == MCRequest(b2, <<RequestEntry(t1, 1, [MCEnvelope(t1) EXCEPT !.object = FALSE])>>)
Elsewhere == [First EXCEPT !.environment = otherEnv]
OldVersion == [First EXCEPT !.version = 0]

Races == {First, Second, Contradicting, Unsorted, NoObject}
Services == {First, Second, TooLarge, Elsewhere, OldVersion}

MCHeaders == {[key |-> b1, version |-> CurrentVersion], [key |-> b2, version |-> CurrentVersion],
              [key |-> b1, version |-> 0], [key |-> NULL, version |-> NULL]}

(* The service accepts every entry; other callers of the repository do not. *)
Review == {[outcome |-> "manual_review",
            category |-> "manual_review_required", retryAt |-> NULL]}

NoResult == {}

MCProtocolText == {env, otherEnv, "1.0"}
=============================================================================
