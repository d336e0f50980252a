----------------------------- MODULE Telemetry -----------------------------
(***************************************************************************)
(* Synchronization telemetry (crates/telemetry/src/lib.rs): counters that  *)
(* request handlers increment one at a time and that health requests, any  *)
(* number of them at once (apps/api/src/lib.rs), read one at a time.  All  *)
(* operations are relaxed atomics: each one is atomic, but neither the     *)
(* increments of one recording nor the loads of one snapshot are ordered,  *)
(* so both happen here in any order.                                       *)
(***************************************************************************)
EXTENDS Integers, FiniteSets, FiniteSetsExt, Functions, Absent

CONSTANTS
    Handler,      \* request handlers that run concurrently
    Monitor,      \* health requests that run concurrently
    Outcome,      \* SynchronizationEntryOutcome
    Category,     \* SynchronizationFailureCategory
    MaxEntries,   \* bound on the entries of an acknowledgement
    MaxRequests   \* bound on the requests that are started

(* The arrays of counters have a fixed size, and none is counted twice. *)
ASSUME TelemetryAssumption ==
    /\ IsFiniteSet(Handler) /\ IsFiniteSet(Outcome) /\ IsFiniteSet(Category)
    /\ MaxEntries \in Nat
    /\ Outcome \cap Category = {}
    /\ (Outcome \cup Category)
         \cap {"requests", "acknowledgements", "entries", "request_failures"} = {}

VARIABLES
    counters,   \* the atomic counters
    handler,    \* what each handler does: "idle" or "processing"
    pending,    \* increments a handler has issued and that did not happen yet
    recorded,   \* what the handlers recorded so far, as the counters should show it
    loading,    \* the counters each health request has loaded, NULL when it is none
    before      \* the counters when that health request began

snapshotVars == <<loading, before>>
telemetryVars == <<counters, handler, pending, recorded, snapshotVars>>

-----------------------------------------------------------------------------
(* Counters *)

Totals == {"requests", "acknowledgements", "entries", "request_failures"}

Counter == Totals \cup Outcome \cup Category

Zeros == [c \in Counter |-> 0]

Plus(f, g) == [c \in Counter |-> f[c] + g[c]]

Single(c) == [Zeros EXCEPT ![c] = 1]

-----------------------------------------------------------------------------
(* Recordings: the increments that each of them issues *)

RequestStarted == Single("requests")

(* An acknowledgement with the given number of entries of each outcome. *)
Acknowledgement(entries) ==
    [c \in Counter |-> CASE c = "acknowledgements" -> 1
                         [] c = "entries" -> SumFunctionOnSet(entries, Outcome)
                         [] c \in Outcome -> entries[c]
                         [] OTHER -> 0]

RequestFailure(category) == Plus(Single("request_failures"), Single(category))

-----------------------------------------------------------------------------
(* Handlers *)

TelemetryInit ==
    /\ counters = Zeros /\ recorded = Zeros
    /\ handler = [h \in Handler |-> "idle"]
    /\ pending = [h \in Handler |-> Zeros]
    /\ loading = [m \in Monitor |-> NULL] /\ before = [m \in Monitor |-> NULL]

Issue(h, increments) ==
    /\ pending' = [pending EXCEPT ![h] = Plus(@, increments)]
    /\ recorded' = Plus(recorded, increments)
    /\ UNCHANGED <<counters, snapshotVars>>

StartRequest(h) ==
    /\ handler[h] = "idle" /\ pending[h] = Zeros
    /\ recorded["requests"] < MaxRequests
    /\ handler' = [handler EXCEPT ![h] = "processing"]
    /\ Issue(h, RequestStarted)

AcknowledgeRequest(h) ==
    /\ handler[h] = "processing"
    /\ handler' = [handler EXCEPT ![h] = "idle"]
    /\ \E entries \in [Outcome -> 0..MaxEntries] :
         /\ SumFunctionOnSet(entries, Outcome) \in 1..MaxEntries
         /\ Issue(h, Acknowledgement(entries))

FailRequest(h) ==
    /\ handler[h] = "processing"
    /\ handler' = [handler EXCEPT ![h] = "idle"]
    /\ \E category \in Category : Issue(h, RequestFailure(category))

(* The client is gone: the handler is dropped at an await and records no result. *)
DropRequest(h) ==
    /\ handler[h] = "processing"
    /\ handler' = [handler EXCEPT ![h] = "idle"]
    /\ UNCHANGED <<counters, pending, recorded, snapshotVars>>

(* Plausible mistake in Increment: a load and a store.  Two handlers that load
   the same value count once. *)
IncrementLost(h, c) ==
    /\ pending[h][c] > 0
    /\ counters' = [counters EXCEPT ![c] = @ + 1]
    /\ \E H \in {{h, g} : g \in {k \in Handler : pending[k][c] > 0}} :
         pending' = [k \in Handler |-> IF k \in H THEN [pending[k] EXCEPT ![c] = @ - 1]
                                       ELSE pending[k]]
    /\ UNCHANGED <<handler, recorded, snapshotVars>>

Increment(h, c) ==
    /\ pending[h][c] > 0
    /\ counters' = [counters EXCEPT ![c] = @ + 1]
    /\ pending' = [pending EXCEPT ![h][c] = @ - 1]
    /\ UNCHANGED <<handler, recorded, snapshotVars>>

-----------------------------------------------------------------------------
(* Snapshots *)

Empty == [c \in {} |-> 0]

BeginSnapshot(m) ==
    /\ loading[m] = NULL
    /\ loading' = [loading EXCEPT ![m] = Empty]
    /\ before' = [before EXCEPT ![m] = counters]
    /\ UNCHANGED <<counters, handler, pending, recorded>>

Loaded(m, c, value) ==
    /\ loading[m] # NULL
    /\ c \notin DOMAIN loading[m]
    /\ loading' = [loading EXCEPT ![m] =
         [d \in DOMAIN loading[m] \cup {c} |-> IF d = c THEN value ELSE loading[m][d]]]
    /\ UNCHANGED <<counters, handler, pending, recorded, before>>

(* Plausible mistake in Load: a field of the answer is read from the counter of
   its neighbour. *)
LoadNeighbour(m, c) ==
    Loaded(m, c, counters[IF c = "entries" THEN "acknowledgements" ELSE c])

Load(m, c) == Loaded(m, c, counters[c])

EndSnapshot(m) ==
    /\ loading[m] # NULL
    /\ DOMAIN loading[m] = Counter
    /\ loading' = [loading EXCEPT ![m] = NULL]
    /\ before' = [before EXCEPT ![m] = NULL]
    /\ UNCHANGED <<counters, handler, pending, recorded>>

TelemetryNext ==
    \/ \E h \in Handler :
         \/ StartRequest(h) \/ AcknowledgeRequest(h) \/ FailRequest(h) \/ DropRequest(h)
         \/ \E c \in Counter : Increment(h, c)
    \/ \E m \in Monitor :
         \/ BeginSnapshot(m) \/ EndSnapshot(m)
         \/ \E c \in Counter : Load(m, c)

TelemetrySpec == TelemetryInit /\ [][TelemetryNext]_telemetryVars

-----------------------------------------------------------------------------
(* Properties *)

Consistent(f) ==
    /\ f["entries"] = SumFunctionOnSet(f, Outcome)
    /\ f["request_failures"] = SumFunctionOnSet(f, Category)
    /\ f["acknowledgements"] + f["request_failures"] <= f["requests"]

(* No increment is lost: when nothing is pending, the counters show exactly what
   was recorded and the totals agree with their details. *)
QuietIsConsistent ==
    (\A h \in Handler : pending[h] = Zeros) => counters = recorded /\ Consistent(counters)

(* Every value of a health answer is one its counter had while the answer was
   put together, however the loads of several health requests and the increments
   are ordered.  Values of different moments may disagree in one answer; when no
   request was recorded or still had to be counted meanwhile, the totals agree
   with their details. *)
SnapshotsAreCurrent ==
    \A m \in Monitor : loading[m] # NULL =>
      /\ \A c \in DOMAIN loading[m] :
           before[m][c] <= loading[m][c] /\ loading[m][c] <= counters[c]
      /\ DOMAIN loading[m] = Counter /\ before[m] = recorded => Consistent(loading[m])

=============================================================================
