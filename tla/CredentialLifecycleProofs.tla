---------------------- MODULE CredentialLifecycleProofs ----------------------
(***************************************************************************)
(* Proofs about CredentialLifecycle, for every set of credentials,         *)
(* accounts, reasons and units of work and every largest version.          *)
(*                                                                         *)
(* A unit of work is described by the rows and the events that it writes   *)
(* in all, whether it has executed the statement already or still plans    *)
(* to: its statements only move them from the plan to what is written.     *)
(***************************************************************************)
EXTENDS CredentialLifecycle, TLAPS

(* Zenon proves the leaves that cite no other prover. *)
USE ZenonT(30)

-----------------------------------------------------------------------------
(* The inductive invariant *)

(* What every aggregate satisfies that the methods of id lead to. *)
Valid(id, aggregate) ==
    /\ aggregate \in FareCredential
    /\ ValidLifecycleFields(aggregate)
    /\ aggregate.replacement # id

(* What a method may do to an aggregate of id. *)
ChangeOf(id, old, new) ==
    /\ new.account = old.account
    /\ old.status \in Terminal => new = old
    /\ id \notin DirectCredential => new.status # old.status

(* w writes the row of id, or the event. *)
HasRow(w, id, row) ==
    \/ id \in DOMAIN w.rows /\ w.rows[id] = row
    \/ \E i \in DOMAIN w.plan :
         w.plan[i].op = "save" /\ w.plan[i].id = id /\ w.plan[i].row = row

HasEvent(w, e) ==
    \/ e \in w.events
    \/ \E i \in DOMAIN w.plan : w.plan[i].op = "append" /\ w.plan[i].event = e

(* The row was computed from the stored one of the version before it, which may
   have changed since. *)
Follows(id, row) ==
    IF row.version = 1
    THEN row.aggregate = NewPending(row.aggregate.account)
    ELSE /\ credentials[id] # NULL
         /\ credentials[id].version >= row.version - 1
         /\ credentials[id].version = row.version - 1 =>
              ChangeOf(id, credentials[id].aggregate, row.aggregate)

(* e is the event of the row that is written with it. *)
Describes(e, id, row) ==
    /\ e.version = row.version
    /\ e.payload.current = row.aggregate.status
    /\ IF row.version = 1
       THEN /\ e.payload.name = "fare_credential.issued"
            /\ e.payload.account = row.aggregate.account
       ELSE credentials[id].version = row.version - 1 =>
              e.payload.previous = credentials[id].aggregate.status

Statement ==
    [op: {"save"}, id: Credential, expected: Nat, row: [aggregate: FareCredential, version: Nat]]
    \cup [op: {"append"}, event: [version: Nat \ {0}, payload: {e.payload : e \in CredentialEvent}]]

PlanOK(plan) ==
    /\ plan \in Seq(Statement)
    /\ Len(plan) <= 4
    /\ \A i \in DOMAIN plan : plan[i].op = "save" =>
         plan[i].row.version = plan[i].expected + 1
    /\ \A i, j \in DOMAIN plan : i < j /\ plan[j].op = "save" => plan[i].op = "save"

(* A row that w writes, with the event and the successor that go with it. *)
RowOK(w, id, row) ==
    /\ id \in Credential
    /\ row \in [aggregate: FareCredential, version: Nat \ {0}]
    /\ Valid(id, row.aggregate)
    /\ Follows(id, row)
    /\ id \notin DirectCredential => \E e : HasEvent(w, e) /\ e.payload.aggregate = id
    /\ id \notin DirectCredential /\ row.aggregate.status = "replaced" =>
         \E successor : /\ HasRow(w, row.aggregate.replacement, successor)
                        /\ successor.version = 1
                        /\ successor.aggregate.account = row.aggregate.account

EventOK(w, e) ==
    \E row : HasRow(w, e.payload.aggregate, row) /\ Describes(e, e.payload.aggregate, row)

(* What w writes in all: one row of a credential and one event of it, and one
   row that names a successor. *)
IntentOK(w) ==
    /\ \A id, row : HasRow(w, id, row) => RowOK(w, id, row)
    /\ \A id, row, other : HasRow(w, id, row) /\ HasRow(w, id, other) => row = other
    /\ \A id, row, i, r : /\ HasRow(w, id, row) /\ row.aggregate.replacement # NULL
                          /\ HasRow(w, i, r) /\ r.aggregate.replacement # NULL
                          => id = i
    /\ \A e : HasEvent(w, e) => EventOK(w, e)
    /\ \A e, f : HasEvent(w, e) /\ HasEvent(w, f) /\ e.payload.aggregate = f.payload.aggregate
         => e = f

(* What w has written and locks. *)
WrittenOK(w) ==
    /\ \A id \in DOMAIN w.rows :
         /\ w.rows[id] \in FareCredentialRow
         /\ IF w.rows[id].version = 1 THEN credentials[id] = NULL
            ELSE credentials[id] # NULL /\ credentials[id].version = w.rows[id].version - 1
         /\ ~ReplacementTaken(id, w.rows[id].aggregate)
    /\ \A e \in w.events : e \in CredentialEvent /\ e.payload.aggregate \in DOMAIN w.rows

UnitOK(w) == PlanOK(w.plan) /\ IntentOK(w) /\ WrittenOK(w)

(* Two open units have written no common key. *)
Apart(v, w) ==
    /\ DOMAIN v.rows \cap DOMAIN w.rows = {}
    /\ \A i \in DOMAIN v.rows, j \in DOMAIN w.rows :
         v.rows[i].aggregate.replacement # NULL =>
           v.rows[i].aggregate.replacement # w.rows[j].aggregate.replacement

Open(u, w) == unit[u] = w /\ w # NULL

UnitsOK ==
    /\ DOMAIN unit = Unit
    /\ \A u \in Unit : \A w : Open(u, w) => UnitOK(w)
    /\ \A u, v \in Unit : \A w, x : u # v /\ Open(u, w) /\ Open(v, x) => Apart(w, x)

Log(id) == {e \in events : e.payload.aggregate = id}

Last(id) == IF credentials[id] = NULL THEN 0 ELSE credentials[id].version

(* EventLogExact, with the events told apart by their versions. *)
LogOK(id) ==
    /\ \A e \in Log(id) : e.version \in 1..Last(id)
    /\ \A n \in 1..Last(id) : \E e \in Log(id) : e.version = n
    /\ \A e, f \in Log(id) : e.version = f.version => e = f
    /\ \A e \in Log(id) :
         /\ e.version = 1 => /\ e.payload.name = "fare_credential.issued"
                             /\ e.payload.account = credentials[id].aggregate.account
         /\ e.version = Last(id) => e.payload.current = credentials[id].aggregate.status
         /\ \A f \in Log(id) : f.version = e.version + 1 =>
              f.payload.previous = e.payload.current

IsReplaced(id) == credentials[id] # NULL /\ credentials[id].aggregate.status = "replaced"

Successor(id) == credentials[id].aggregate.replacement

SuccessorsOK ==
    /\ \A id \in Credential \ DirectCredential : IsReplaced(id) =>
         /\ credentials[Successor(id)] # NULL
         /\ credentials[Successor(id)].aggregate.account = credentials[id].aggregate.account
    /\ \A id, other \in Credential :
         IsReplaced(id) /\ IsReplaced(other) /\ Successor(id) = Successor(other) => id = other
    /\ \A set \in SUBSET {id \in Credential \ DirectCredential : IsReplaced(id)} :
         set # {} => \E id \in set : Successor(id) \notin set

TablesOK ==
    /\ credentials \in [Credential -> FareCredentialRow \cup {NULL}]
    /\ \A id \in Credential : credentials[id] # NULL => Valid(id, credentials[id].aggregate)
    /\ events \subseteq CredentialEvent
    /\ \A id \in Credential \ DirectCredential : LogOK(id)
    /\ SuccessorsOK

CredentialInd == TablesOK /\ UnitsOK

-----------------------------------------------------------------------------
(* The methods of the aggregate *)

LEMMA NewPendingValid ==
    ASSUME NEW id \in Credential, NEW account \in Account
    PROVE  Valid(id, NewPending(account)) /\ NewPending(account).account = account
  BY CredentialAssumption
     DEF Valid, NewPending, FareCredential, FareCredentialStatus, ValidLifecycleFields

(* What every method keeps: its result is valid again, belongs to the same
   account and is the aggregate itself when that is in a terminal status. *)
MethodResult(id, old, new) ==
    /\ Valid(id, new)
    /\ new.account = old.account
    /\ old.status \in Terminal => new = old

LEMMA ActivateResult ==
    ASSUME NEW id \in Credential, NEW c, Valid(id, c), NEW d \in Activate(c)
    PROVE  MethodResult(id, c, d) /\ d.status = "active"
  BY CredentialAssumption
     DEF Valid, Activate, MethodResult, FareCredential, FareCredentialStatus, Terminal,
         ValidLifecycleFields

LEMMA SuspendResult ==
    ASSUME NEW id \in Credential, NEW c, Valid(id, c), NEW d \in Suspend(c)
    PROVE  MethodResult(id, c, d) /\ d.status = "suspended"
  BY CredentialAssumption
     DEF Valid, Suspend, MethodResult, FareCredential, FareCredentialStatus, Terminal,
         ValidLifecycleFields

LEMMA RevokeResult ==
    ASSUME NEW id \in Credential, NEW c, Valid(id, c),
           NEW reason \in RevocationReason, NEW d \in Revoke(c, reason)
    PROVE  MethodResult(id, c, d) /\ d.status = "revoked"
  BY CredentialAssumption
     DEF Valid, Revoke, MethodResult, FareCredential, FareCredentialStatus, Terminal,
         ValidLifecycleFields

LEMMA ExpireResult ==
    ASSUME NEW id \in Credential, NEW c, Valid(id, c), NEW d \in Expire(c)
    PROVE  MethodResult(id, c, d)
  BY CredentialAssumption
     DEF Valid, Expire, MethodResult, FareCredential, FareCredentialStatus, Terminal,
         ValidLifecycleFields

LEMMA ReplaceWithResult ==
    ASSUME NEW id \in Credential, NEW c, Valid(id, c),
           NEW r \in Credential, NEW d \in ReplaceWith(id, c, r)
    PROVE  MethodResult(id, c, d) /\ d.status = "replaced" /\ d.replacement = r /\ r # id
  BY CredentialAssumption
     DEF Valid, ReplaceWith, MethodResult, FareCredential, FareCredentialStatus, Terminal,
         ValidLifecycleFields

LEMMA CredentialCallsResult ==
    ASSUME NEW id \in Credential, NEW c, Valid(id, c), NEW d \in CredentialCalls(id, c)
    PROVE  MethodResult(id, c, d)
<1>1. \/ d \in Activate(c) \/ d \in Suspend(c) \/ d \in Expire(c)
      \/ \E reason \in RevocationReason : d \in Revoke(c, reason)
      \/ \E r \in Credential : d \in ReplaceWith(id, c, r)
  BY DEF CredentialCalls
<1>. QED
  BY <1>1, ActivateResult, SuspendResult, RevokeResult, ExpireResult, ReplaceWithResult

(* into_versioned rebuilds exactly the row of a valid aggregate. *)
LEMMA ValidLoads ==
    ASSUME NEW id \in Credential, NEW row \in FareCredentialRow, Valid(id, row.aggregate)
    PROVE  IntoVersioned(id, row) = {row}
<1>SameFields. ASSUME NEW c \in FareCredential, NEW d \in FareCredential,
                      c.account = d.account, c.status = d.status, c.reason = d.reason,
                      c.replacement = d.replacement
               PROVE  c = d
  BY <1>SameFields, SMTT(30) DEF FareCredential
<1>. DEFINE c == row.aggregate
            pending == NewPending(c.account)
            active == [account |-> c.account, status |-> "active",
                       reason |-> NULL, replacement |-> NULL]
<1>1. /\ c \in FareCredential /\ ValidLifecycleFields(c) /\ c.replacement # id
      /\ row = [aggregate |-> c, version |-> row.version]
  BY DEF Valid, FareCredentialRow
<1>2. c = [account |-> c.account, status |-> c.status, reason |-> c.reason,
           replacement |-> c.replacement]
  BY <1>1 DEF FareCredential
<1>3. Activate(pending) = {active}
  BY SMTT(30) DEF Activate, NewPending
<1>. HIDE DEF c
<1>. DEFINE Rebuilt(set) == IntoVersioned(id, row) =
                              {[aggregate |-> d, version |-> row.version] : d \in set}
<1>4. ASSUME Rebuilt({c})
      PROVE  IntoVersioned(id, row) = {row}
  BY <1>1, <1>4
<1>5. CASE c.status = "pending"
  <2>1. c = pending
    BY <1>1, <1>2, <1>5 DEF ValidLifecycleFields, NewPending
  <2>. QED
    BY <1>1, <1>5, <2>1 DEF IntoVersioned, c
<1>6. CASE c.status = "active"
  <2>1. c = active
    BY <1>1, <1>2, <1>6 DEF ValidLifecycleFields, NewPending
  <2>. QED
    BY <1>1, <1>3, <1>6, <2>1 DEF IntoVersioned, c
<1>7. CASE c.status = "suspended"
  <2>0. c = [account |-> c.account, status |-> "suspended", reason |-> NULL,
             replacement |-> NULL]
    BY <1>1, <1>2, <1>7 DEF ValidLifecycleFields
  <2>1. Suspend(active) = {c}
    <3>1. Suspend(active) = {[account |-> c.account, status |-> "suspended", reason |-> NULL,
                     replacement |-> NULL]}
      BY SMTT(30) DEF Suspend
    <3>. QED
      BY <2>0, <3>1
  <2>. HIDE DEF pending, active
  <2>2. UNION {Suspend(d) : d \in {active}} = {c}
    BY <2>1
  <2>3. Rebuilt(UNION {Suspend(d) : d \in {active}})
    BY <1>1, <1>3, <1>7 DEF IntoVersioned, c, pending
  <2>. QED
    BY <1>4, <2>2, <2>3
<1>8. CASE c.status = "revoked"
  <2>1. Revoke(pending, c.reason) = {c}
    <3>. DEFINE d == [pending EXCEPT !.status = "revoked", !.reason = c.reason, !.replacement = NULL]
    <3>1. Revoke(pending, c.reason) = {d}
      <4>1. pending.status = "pending"
        BY DEF NewPending
      <4>. HIDE DEF pending, active
      <4>. QED
        BY <4>1 DEF Revoke, Terminal
    <3>2. pending \in FareCredential
      BY <1>1 DEF NewPending, FareCredential, FareCredentialStatus
    <3>3. /\ d \in FareCredential /\ d.account = c.account /\ d.status = c.status
          /\ d.reason = c.reason /\ d.replacement = c.replacement
      <4>1. pending.account = c.account
        BY DEF NewPending
      <4>. HIDE DEF pending, active
      <4>. QED
        BY <1>1, <1>8, <3>2, <4>1
           DEF FareCredential, FareCredentialStatus, ValidLifecycleFields
    <3>. QED
      BY <1>1, <3>1, <3>3, <1>SameFields
  <2>. HIDE DEF pending, active
  <2>2. Rebuilt(Revoke(pending, c.reason))
    BY <1>1, <1>8 DEF IntoVersioned, c, pending
  <2>. QED
    BY <1>4, <2>1, <2>2
<1>9. CASE c.status = "expired"
  <2>1. Expire(pending) = {c}
    <3>. DEFINE d == [pending EXCEPT !.status = "expired", !.reason = NULL, !.replacement = NULL]
    <3>1. Expire(pending) = {d}
      <4>1. pending.status = "pending"
        BY DEF NewPending
      <4>. HIDE DEF pending, active
      <4>. QED
        BY <4>1 DEF Expire, Terminal
    <3>2. pending \in FareCredential
      BY <1>1 DEF NewPending, FareCredential, FareCredentialStatus
    <3>3. /\ d \in FareCredential /\ d.account = c.account /\ d.status = c.status
          /\ d.reason = c.reason /\ d.replacement = c.replacement
      <4>1. pending.account = c.account
        BY DEF NewPending
      <4>. HIDE DEF pending, active
      <4>. QED
        BY <1>1, <1>9, <3>2, <4>1
           DEF FareCredential, FareCredentialStatus, ValidLifecycleFields
    <3>. QED
      BY <1>1, <3>1, <3>3, <1>SameFields
  <2>. HIDE DEF pending, active
  <2>2. Rebuilt(Expire(pending))
    BY <1>1, <1>9 DEF IntoVersioned, c, pending
  <2>. QED
    BY <1>4, <2>1, <2>2
<1>10. CASE c.status = "replaced"
  <2>1. ReplaceWith(id, active, c.replacement) = {c}
    <3>. DEFINE d == [active EXCEPT !.status = "replaced", !.reason = NULL,
                              !.replacement = c.replacement]
    <3>1. ReplaceWith(id, active, c.replacement) = {d}
      <4>1. active.status = "active"
        BY DEF NewPending
      <4>. HIDE DEF pending, active
      <4>. QED
        BY <1>1, <4>1 DEF ReplaceWith
    <3>2. active \in FareCredential
      BY <1>1 DEF NewPending, FareCredential, FareCredentialStatus
    <3>3. /\ d \in FareCredential /\ d.account = c.account /\ d.status = c.status
          /\ d.reason = c.reason /\ d.replacement = c.replacement
      <4>1. active.account = c.account
        BY DEF NewPending
      <4>. HIDE DEF pending, active
      <4>. QED
        BY <1>1, <1>10, <3>2, <4>1
           DEF FareCredential, FareCredentialStatus, ValidLifecycleFields
    <3>. QED
      BY <1>1, <3>1, <3>3, <1>SameFields
  <2>. HIDE DEF pending, active
  <2>2. UNION {ReplaceWith(id, d, c.replacement) : d \in {active}} = {c}
    BY <2>1
  <2>3. Rebuilt(UNION {ReplaceWith(id, d, c.replacement) : d \in {active}})
    BY <1>1, <1>3, <1>10 DEF IntoVersioned, c, pending
  <2>. QED
    BY <1>4, <2>2, <2>3
<1>. QED
  BY <1>1, <1>5, <1>6, <1>7, <1>8, <1>9, <1>10 DEF FareCredential, FareCredentialStatus

LEMMA LoadedIsStored ==
    ASSUME TablesOK, NEW id \in Credential
    PROVE  Loaded(id) = IF credentials[id] = NULL THEN {} ELSE {credentials[id]}
  BY ValidLoads DEF TablesOK, Loaded

-----------------------------------------------------------------------------
(* What an open unit of work relies on *)

(* A stored row never goes away and changes only with its version. *)
Grow ==
    \A id \in Credential : credentials[id] # NULL =>
      /\ credentials'[id] # NULL
      /\ credentials'[id] = credentials[id] \/ credentials'[id].version > credentials[id].version

StoredRows == credentials \in [Credential -> FareCredentialRow \cup {NULL}]

LEMMA IntentStays ==
    ASSUME StoredRows, StoredRows', Grow, NEW w, IntentOK(w)
    PROVE  IntentOK(w)'
<1>FollowsStays. ASSUME StoredRows, StoredRows', Grow, NEW id \in Credential, NEW row,
                        row.version \in Nat \ {0}, Follows(id, row)
                 PROVE  Follows(id, row)'
  <2>. USE <1>FollowsStays
  <2>1. CASE row.version = 1
    BY <2>1 DEF Follows
  <2>2. CASE row.version # 1
    <3>1. /\ credentials[id] # NULL /\ credentials[id].version >= row.version - 1
          /\ credentials[id].version = row.version - 1 =>
               ChangeOf(id, credentials[id].aggregate, row.aggregate)
      BY <2>2 DEF Follows
    <3>2. credentials[id].version \in Nat /\ (credentials'[id] # NULL => credentials'[id].version \in Nat)
      BY <3>1, CredentialAssumption, SMTT(30) DEF StoredRows, FareCredentialRow
    <3>3. CASE credentials'[id] = credentials[id]
      BY <2>2, <3>1, <3>3 DEF Follows, ChangeOf
    <3>4. CASE credentials'[id] # NULL /\ credentials'[id].version > credentials[id].version
      BY <2>2, <3>1, <3>2, <3>4, SMTT(30) DEF Follows
    <3>. QED
      BY <3>1, <3>3, <3>4 DEF Grow
  <2>. QED
    BY <2>1, <2>2
<1>DescribesStays. ASSUME StoredRows, StoredRows', Grow, NEW id \in Credential, NEW row,
                          row.version \in Nat \ {0}, Follows(id, row), NEW e, Describes(e, id, row)
                   PROVE  Describes(e, id, row)'
  <2>. USE <1>DescribesStays
  <2>1. CASE row.version = 1
    BY <2>1 DEF Describes
  <2>2. CASE row.version # 1
    <3>1. /\ credentials[id] # NULL /\ credentials[id].version >= row.version - 1
      BY <2>2 DEF Follows
    <3>2. credentials[id].version \in Nat /\ (credentials'[id] # NULL => credentials'[id].version \in Nat)
      BY <3>1, CredentialAssumption, SMTT(30) DEF StoredRows, FareCredentialRow
    <3>3. CASE credentials'[id] = credentials[id]
      BY <2>2, <3>1, <3>3 DEF Describes
    <3>4. CASE credentials'[id] # NULL /\ credentials'[id].version > credentials[id].version
      BY <2>2, <3>1, <3>2, <3>4, SMTT(30) DEF Describes
    <3>. QED
      BY <3>1, <3>3, <3>4 DEF Grow
  <2>. QED
    BY <2>1, <2>2
<1>1. \A id, row : HasRow(w, id, row)' <=> HasRow(w, id, row)
  BY DEF HasRow
<1>2. \A e : HasEvent(w, e)' <=> HasEvent(w, e)
  BY DEF HasEvent
<1>3. ASSUME NEW id, NEW row, HasRow(w, id, row)
      PROVE  RowOK(w, id, row)'
  <2>1. RowOK(w, id, row)
    BY <1>3 DEF IntentOK
  <2>2. Follows(id, row)'
    BY <2>1, <1>FollowsStays DEF RowOK
  <2>3. Valid(id, row.aggregate)'
    BY <2>1 DEF RowOK, Valid
  <2>. QED
    BY <1>1, <1>2, <2>1, <2>2, <2>3 DEF RowOK
<1>4. ASSUME NEW e, HasEvent(w, e)
      PROVE  EventOK(w, e)'
  <2>1. PICK row : HasRow(w, e.payload.aggregate, row) /\ Describes(e, e.payload.aggregate, row)
    BY <1>4 DEF IntentOK, EventOK
  <2>2. RowOK(w, e.payload.aggregate, row)
    BY <2>1 DEF IntentOK
  <2>3. Describes(e, e.payload.aggregate, row)'
    BY <2>1, <2>2, <1>DescribesStays DEF RowOK
  <2>. QED
    BY <1>1, <2>1, <2>3 DEF EventOK
<1>. QED
  BY <1>1, <1>2, <1>3, <1>4 DEF IntentOK

(* What is written in all does not depend on how much of it is done. *)
LEMMA SameIntent ==
    ASSUME NEW w, NEW x, IntentOK(w),
           \A id, row : HasRow(x, id, row) <=> HasRow(w, id, row),
           \A e : HasEvent(x, e) <=> HasEvent(w, e)
    PROVE  IntentOK(x)
<1>1. \A id, row : RowOK(w, id, row) => RowOK(x, id, row)
  BY DEF RowOK
<1>2. \A e : EventOK(w, e) => EventOK(x, e)
  BY DEF EventOK
<1>. QED
  BY <1>1, <1>2 DEF IntentOK

-----------------------------------------------------------------------------
(* The beginning of a unit of work *)

LEMMA SaveStatement ==
    ASSUME NEW id \in Credential, NEW aggregate, Valid(id, aggregate), NEW expected \in Nat
    PROVE  /\ Save(id, aggregate, expected) \in Statement
           /\ Save(id, aggregate, expected).op = "save"
           /\ Save(id, aggregate, expected).id = id
           /\ Save(id, aggregate, expected).expected = expected
           /\ Save(id, aggregate, expected).row = [aggregate |-> aggregate, version |-> expected + 1]
  BY SMTT(30) DEF Save, Statement, Valid

Payload == {e.payload : e \in CredentialEvent}

LEMMA AppendStatement ==
    ASSUME NEW e \in [version: Nat \ {0}, payload: Payload]
    PROVE  /\ AppendEvent(e) \in Statement
           /\ AppendEvent(e).op = "append"
           /\ AppendEvent(e).event = e
  BY DEF AppendEvent, Statement, Payload

LEMMA BegunWritten ==
    ASSUME NEW plan
    PROVE  WrittenOK(Begun(plan)) /\ DOMAIN Begun(plan).rows = {} /\ Begun(plan).plan = plan
<1>1. Begun(plan).rows = <<>> /\ Begun(plan).events = {} /\ Begun(plan).plan = plan
  BY DEF Begun
<1>2. DOMAIN Begun(plan).rows = {}
  BY <1>1, SMTT(30)
<1>. QED
  BY <1>1, <1>2 DEF WrittenOK

(* A changed credential, saved and announced. *)
LEMMA BegunChange ==
    ASSUME NEW id \in Credential, NEW aggregate, NEW expected \in Nat, NEW row,
           row = [aggregate |-> aggregate, version |-> expected + 1],
           Valid(id, aggregate), Follows(id, row), aggregate.status # "replaced",
           NEW e \in [version: Nat \ {0}, payload: Payload],
           e.payload.aggregate = id, Describes(e, id, row)
    PROVE  UnitOK(Begun(<< Save(id, aggregate, expected), AppendEvent(e) >>))
<1>. DEFINE save == Save(id, aggregate, expected)
            append == AppendEvent(e)
            plan == << save, append >>
            w == Begun(plan)
<1>1. /\ save \in Statement /\ save.op = "save" /\ save.id = id /\ save.row = row
      /\ save.expected = expected
  BY SaveStatement, SMTT(30)
<1>2. append \in Statement /\ append.op = "append" /\ append.event = e
  BY AppendStatement
<1>0. /\ row.aggregate = aggregate /\ row.version = expected + 1
      /\ row \in [aggregate: FareCredential, version: Nat \ {0}]
  BY SMTT(30) DEF Valid
<1>. HIDE DEF save, append
<1>3. plan \in Seq(Statement) /\ Len(plan) = 2 /\ plan[1] = save /\ plan[2] = append
      /\ DOMAIN plan = 1..2
  BY <1>1, <1>2, SMTT(30)
<1>. HIDE DEF plan
<1>4. PlanOK(plan)
  BY <1>0, <1>1, <1>2, <1>3, SMTT(30) DEF PlanOK
<1>5. WrittenOK(w) /\ DOMAIN w.rows = {} /\ w.plan = plan /\ w.events = {}
  BY BegunWritten DEF Begun
<1>. HIDE DEF w
<1>6. \A i, r : HasRow(w, i, r) <=> i = id /\ r = row
  BY <1>1, <1>2, <1>3, <1>5, SMTT(30) DEF HasRow
<1>7. \A f : HasEvent(w, f) <=> f = e
  BY <1>1, <1>2, <1>3, <1>5, SMTT(30) DEF HasEvent
<1>8. RowOK(w, id, row)
  BY <1>0, <1>7 DEF RowOK
<1>9. EventOK(w, e)
  BY <1>6 DEF EventOK
<1>10. IntentOK(w)
  BY <1>6, <1>7, <1>8, <1>9, SMTT(30) DEF IntentOK
<1>. QED
  BY <1>4, <1>5, <1>10 DEF UnitOK, plan, save, append, w

(* A changed credential, only saved. *)
LEMMA BegunSave ==
    ASSUME NEW id \in Credential \cap DirectCredential,
           NEW aggregate, NEW expected \in Nat, NEW row,
           row = [aggregate |-> aggregate, version |-> expected + 1],
           Valid(id, aggregate), Follows(id, row)
    PROVE  UnitOK(Begun(<< Save(id, aggregate, expected) >>))
<1>. DEFINE save == Save(id, aggregate, expected)
            plan == << save >>
            w == Begun(plan)
<1>1. /\ save \in Statement /\ save.op = "save" /\ save.id = id /\ save.row = row
      /\ save.expected = expected
  BY SaveStatement, SMTT(30)
<1>0. /\ row.aggregate = aggregate /\ row.version = expected + 1
      /\ row \in [aggregate: FareCredential, version: Nat \ {0}]
  BY SMTT(30) DEF Valid
<1>. HIDE DEF save
<1>3. plan \in Seq(Statement) /\ Len(plan) = 1 /\ plan[1] = save /\ DOMAIN plan = 1..1
  BY <1>1, SMTT(30)
<1>. HIDE DEF plan
<1>4. PlanOK(plan)
  BY <1>0, <1>1, <1>3, SMTT(30) DEF PlanOK
<1>5. WrittenOK(w) /\ DOMAIN w.rows = {} /\ w.plan = plan /\ w.events = {}
  BY BegunWritten DEF Begun
<1>. HIDE DEF w
<1>6. \A i, r : HasRow(w, i, r) <=> i = id /\ r = row
  BY <1>1, <1>3, <1>5, SMTT(30) DEF HasRow
<1>7. \A f : ~HasEvent(w, f)
  BY <1>1, <1>3, <1>5, SMTT(30) DEF HasEvent
<1>8. RowOK(w, id, row)
  BY <1>0 DEF RowOK
<1>9. IntentOK(w)
  BY <1>6, <1>7, <1>8, SMTT(30) DEF IntentOK
<1>. QED
  BY <1>4, <1>5, <1>9 DEF UnitOK, plan, save, w

(* A credential and its successor. *)
LEMMA BegunReplacement ==
    ASSUME NEW id \in Credential, NEW aggregate, NEW expected \in Nat \ {0}, NEW row,
           row = [aggregate |-> aggregate, version |-> expected + 1],
           Valid(id, aggregate), Follows(id, row),
           NEW successor \in Credential, successor # id, aggregate.replacement = successor,
           NEW new, new = [aggregate |-> NewPending(aggregate.account), version |-> 1],
           NEW e \in [version: Nat \ {0}, payload: Payload],
           e.payload.aggregate = id, Describes(e, id, row),
           NEW f \in [version: Nat \ {0}, payload: Payload],
           f.payload.aggregate = successor, Describes(f, successor, new)
    PROVE  UnitOK(Begun(<< Save(id, aggregate, expected),
                           Save(successor, NewPending(aggregate.account), MustNotExist),
                           AppendEvent(e), AppendEvent(f) >>))
<1>. DEFINE pending == NewPending(aggregate.account)
            save == Save(id, aggregate, expected)
            insert == Save(successor, pending, MustNotExist)
            append == AppendEvent(e)
            issue == AppendEvent(f)
            plan == << save, insert, append, issue >>
            w == Begun(plan)
<1>1. aggregate.account \in Account
  BY DEF Valid, FareCredential
<1>2. Valid(successor, pending) /\ pending.account = aggregate.account
      /\ pending.status # "replaced" /\ pending.replacement = NULL
  BY <1>1, NewPendingValid DEF NewPending
<1>. HIDE DEF pending
<1>3. /\ save \in Statement /\ save.op = "save" /\ save.id = id /\ save.row = row
      /\ save.expected = expected
  BY SaveStatement, SMTT(30)
<1>4. /\ insert \in Statement /\ insert.op = "save" /\ insert.id = successor
      /\ insert.row = new /\ insert.expected = 0
  <2>1. new = [aggregate |-> pending, version |-> 0 + 1]
    BY SMTT(30) DEF pending
  <2>. QED
    BY <1>2, <2>1, SaveStatement, SMTT(30) DEF MustNotExist
<1>5. append \in Statement /\ append.op = "append" /\ append.event = e
  BY AppendStatement
<1>6. issue \in Statement /\ issue.op = "append" /\ issue.event = f
  BY AppendStatement
<1>7. /\ row.aggregate = aggregate /\ row.version = expected + 1
      /\ row \in [aggregate: FareCredential, version: Nat \ {0}]
  BY SMTT(30) DEF Valid
<1>8. /\ new.aggregate = pending /\ new.version = 1
      /\ new \in [aggregate: FareCredential, version: Nat \ {0}]
  BY <1>2, SMTT(30) DEF Valid, pending
<1>. HIDE DEF save, insert, append, issue
<1>9. /\ plan \in Seq(Statement) /\ Len(plan) = 4 /\ DOMAIN plan = 1..4
      /\ plan[1] = save /\ plan[2] = insert /\ plan[3] = append /\ plan[4] = issue
  BY <1>3, <1>4, <1>5, <1>6, SMTT(30)
<1>. HIDE DEF plan
<1>10. PlanOK(plan)
  <2>1. \A i \in DOMAIN plan : i = 1 \/ i = 2 \/ i = 3 \/ i = 4
    BY <1>9, SMTT(30)
  <2>2. \A i \in DOMAIN plan : plan[i].op = "save" <=> i \in 1..2
    BY <1>3, <1>4, <1>5, <1>6, <1>9, <2>1, SMTT(30)
  <2>3. \A i \in 1..2 : plan[i].row.version = plan[i].expected + 1
    BY <1>3, <1>4, <1>7, <1>8, <1>9, SMTT(30)
  <2>4. \A i, j \in DOMAIN plan : i < j /\ j \in 1..2 => i \in 1..2
    BY <1>9, SMTT(30)
  <2>. QED
    BY <1>9, <2>2, <2>3, <2>4, SMTT(30) DEF PlanOK
<1>11. WrittenOK(w) /\ DOMAIN w.rows = {} /\ w.plan = plan /\ w.events = {}
  BY BegunWritten DEF Begun
<1>. HIDE DEF w
<1>12. \A i, r : HasRow(w, i, r) <=> \/ i = id /\ r = row
                                     \/ i = successor /\ r = new
  BY <1>3, <1>4, <1>5, <1>6, <1>9, <1>11, SMTT(30) DEF HasRow
<1>13. \A g : HasEvent(w, g) <=> g = e \/ g = f
  BY <1>3, <1>4, <1>5, <1>6, <1>9, <1>11, SMTT(30) DEF HasEvent
<1>14. RowOK(w, id, row)
  BY <1>2, <1>7, <1>8, <1>12, <1>13 DEF RowOK
<1>15. Follows(successor, new)
  BY <1>2, <1>8 DEF Follows, pending
<1>16. RowOK(w, successor, new)
  BY <1>2, <1>8, <1>13, <1>15 DEF RowOK
<1>17. EventOK(w, e) /\ EventOK(w, f)
  BY <1>12 DEF EventOK
<1>18. IntentOK(w)
  BY <1>2, <1>8, <1>12, <1>13, <1>14, <1>16, <1>17, SMTT(30) DEF IntentOK
<1>. QED
  BY <1>10, <1>11, <1>18 DEF UnitOK, plan, save, insert, append, issue, pending, w

-----------------------------------------------------------------------------
(* A step of one unit that leaves the tables alone *)

LEMMA UnitSame ==
    ASSUME NEW w, UnitOK(w), UNCHANGED credentials
    PROVE  UnitOK(w)'
<1>1. \A id, row : Follows(id, row)' <=> Follows(id, row)
  BY DEF Follows
<1>2. \A e, id, row : Describes(e, id, row)' <=> Describes(e, id, row)
  BY DEF Describes
<1>3. \A id, aggregate : ReplacementTaken(id, aggregate)' <=> ReplacementTaken(id, aggregate)
  BY DEF ReplacementTaken
<1>4. \A id, row : RowOK(w, id, row)' <=> RowOK(w, id, row)
  BY <1>1 DEF RowOK, HasRow, HasEvent
<1>5. \A e : EventOK(w, e)' <=> EventOK(w, e)
  BY <1>2 DEF EventOK, HasRow
<1>6. IntentOK(w)'
  BY <1>4, <1>5 DEF UnitOK, IntentOK, HasRow, HasEvent
<1>7. WrittenOK(w)'
  BY <1>3 DEF UnitOK, WrittenOK
<1>8. PlanOK(w.plan)'
  BY DEF UnitOK, PlanOK
<1>. QED
  BY <1>6, <1>7, <1>8 DEF UnitOK

LEMMA UnitStep ==
    ASSUME CredentialInd, UNCHANGED <<credentials, events>>,
           NEW u \in Unit, NEW x, unit' = [unit EXCEPT ![u] = x],
           x # NULL => /\ UnitOK(x)
                       /\ \A v \in Unit : \A w : u # v /\ Open(v, w) => Apart(x, w) /\ Apart(w, x)
    PROVE  CredentialInd'
<1>1. TablesOK'
  BY SMTT(30) DEF CredentialInd, TablesOK, LogOK, Log, Last, SuccessorsOK, IsReplaced, Successor
<1>2. DOMAIN unit' = Unit /\ unit'[u] = x /\ \A v \in Unit : v # u => unit'[v] = unit[v]
  BY DEF CredentialInd, UnitsOK
<1>3. \A v \in Unit : \A w : Open(v, w)' => \/ v = u /\ w = x /\ x # NULL
                                            \/ v # u /\ Open(v, w)
  BY <1>2 DEF Open
<1>4. ASSUME NEW v \in Unit, NEW w, Open(v, w)'
      PROVE  UnitOK(w)'
  BY <1>3, <1>4, UnitSame DEF CredentialInd, UnitsOK
<1>5. ASSUME NEW v1 \in Unit, NEW v2 \in Unit, NEW w1, NEW w2, v1 # v2,
             Open(v1, w1)', Open(v2, w2)'
      PROVE  Apart(w1, w2)
  BY <1>3, <1>5, SMTT(30) DEF CredentialInd, UnitsOK
<1>6. UnitsOK'
  BY <1>2, <1>4, <1>5, SMTT(30) DEF UnitsOK, Apart
<1>. QED
  BY <1>1, <1>6 DEF CredentialInd

LEMMA EndInv ==
    ASSUME CredentialInd, UNCHANGED <<credentials, events>>, NEW u \in Unit, End(u)
    PROVE  CredentialInd'
  BY UnitStep DEF End

LEMMA StartInv ==
    ASSUME CredentialInd, NEW u \in Unit, NEW plan, Start(u, plan), UnitOK(Begun(plan))
    PROVE  CredentialInd'
<1>1. PICK x : x = Begun(plan)
  OBVIOUS
<1>2. DOMAIN x.rows = {}
  BY <1>1, BegunWritten
<1>3. \A w : Apart(x, w) /\ Apart(w, x)
  BY <1>2 DEF Apart
<1>. QED
  BY <1>1, <1>3, UnitStep DEF Start, tables

-----------------------------------------------------------------------------
(* The use cases *)

LEMMA PayloadFields ==
    /\ \A name \in {"fare_credential.issued", "fare_credential.status_changed"},
          id \in Credential, previous \in FareCredentialStatus \cup {NULL},
          current \in FareCredentialStatus, account \in Account \cup {NULL} :
         [name |-> name, aggregate |-> id, previous |-> previous, current |-> current,
          account |-> account] \in Payload
    /\ \A n \in 1..MaxVersion, payload \in Payload :
         [version |-> n, payload |-> payload] \in CredentialEvent
<1>. DEFINE P == [name: EventNames.fare_credential, aggregate: Credential,
                  previous: FareCredentialStatus \cup {NULL}, current: FareCredentialStatus,
                  account: Account \cup {NULL}]
<1>1. EventNames.fare_credential = {"fare_credential.issued", "fare_credential.status_changed"}
  BY DEF EventNames
<1>2. CredentialEvent = [version: 1..MaxVersion, payload: P]
  BY DEF CredentialEvent
<1>3. \A name \in {"fare_credential.issued", "fare_credential.status_changed"},
         id \in Credential, previous \in FareCredentialStatus \cup {NULL},
         current \in FareCredentialStatus, account \in Account \cup {NULL} :
        [name |-> name, aggregate |-> id, previous |-> previous, current |-> current,
         account |-> account] \in P
  BY <1>1
<1>. HIDE DEF P
<1>4. 1 \in 1..MaxVersion
  BY CredentialAssumption, SMTT(30)
<1>5. ASSUME NEW p \in P
      PROVE  p \in Payload
  <2>1. [version |-> 1, payload |-> p] \in CredentialEvent
    BY <1>2, <1>4
  <2>. QED
    BY <2>1, SMTT(30) DEF Payload
<1>6. Payload \subseteq P
  BY <1>2 DEF Payload
<1>. QED
  BY <1>2, <1>3, <1>5, <1>6

LEMMA IssuedEvent ==
    ASSUME NEW id \in Credential, NEW a \in Account, NEW e \in Issued(id, a)
    PROVE  /\ e \in [version: Nat \ {0}, payload: Payload]
           /\ e.payload.aggregate = id
           /\ Describes(e, id, [aggregate |-> NewPending(a), version |-> 1])
<1>. DEFINE p == [name |-> "fare_credential.issued", aggregate |-> id, previous |-> NULL,
                  current |-> "pending", account |-> a]
<1>1. e = [version |-> 1, payload |-> p]
  BY DEF Issued, NewEvent
<1>2. p \in Payload
  BY PayloadFields DEF FareCredentialStatus
<1>3. e.version = 1 /\ e.payload = p
  BY <1>1
<1>4. e \in [version: Nat \ {0}, payload: Payload]
  <2>. HIDE DEF p
  <2>. QED
    BY <1>1, <1>2, SMTT(30)
<1>. QED
  BY <1>3, <1>4, SMTT(30) DEF Describes, NewPending

LEMMA ChangedEvent ==
    ASSUME NEW id \in Credential, NEW n \in Nat \ {0},
           NEW previous \in FareCredentialStatus, NEW current \in FareCredentialStatus,
           NEW e \in StatusChanged(id, n, previous, current)
    PROVE  /\ e \in [version: Nat \ {0}, payload: Payload]
           /\ e.version = n
           /\ e.payload.aggregate = id
           /\ e.payload.previous = previous
           /\ e.payload.current = current
<1>. DEFINE p == [name |-> "fare_credential.status_changed", aggregate |-> id,
                  previous |-> previous, current |-> current, account |-> NULL]
<1>1. e = [version |-> n, payload |-> p]
  BY DEF StatusChanged, NewEvent
<1>2. p \in Payload
  BY PayloadFields
<1>3. e.version = n /\ e.payload = p
  BY <1>1
<1>4. e \in [version: Nat \ {0}, payload: Payload]
  <2>. HIDE DEF p
  <2>. QED
    BY <1>1, <1>2
<1>. QED
  BY <1>3, <1>4, SMTT(30)

LEMMA IssueInv ==
    ASSUME CredentialInd, NEW u \in Unit, NEW a \in Account, NEW id \in Credential,
           IssueFareCredential(u, a, id)
    PROVE  CredentialInd'
<1>1. PICK e \in Issued(id, a) :
        Start(u, << Save(id, NewPending(a), MustNotExist), AppendEvent(e) >>)
  BY DEF IssueFareCredential
<1>. DEFINE row == [aggregate |-> NewPending(a), version |-> 0 + 1]
<1>2. Valid(id, NewPending(a)) /\ NewPending(a).account = a /\ NewPending(a).status # "replaced"
  BY NewPendingValid DEF NewPending
<1>3. row.version = 1 /\ row.aggregate = NewPending(a)
      /\ row = [aggregate |-> NewPending(a), version |-> 1]
  BY SMTT(30)
<1>4. Follows(id, row)
  BY <1>2, <1>3 DEF Follows
<1>5. /\ e \in [version: Nat \ {0}, payload: Payload]
      /\ e.payload.aggregate = id
      /\ Describes(e, id, row)
  BY <1>3, IssuedEvent
<1>. HIDE DEF row
<1>6. row = [aggregate |-> NewPending(a), version |-> 0 + 1]
  BY DEF row
<1>7. UnitOK(Begun(<< Save(id, NewPending(a), 0), AppendEvent(e) >>))
  BY <1>2, <1>4, <1>5, <1>6, BegunChange
<1>. QED
  BY <1>1, <1>7, StartInv DEF MustNotExist

(* The stored row of a credential, as a use case loads it. *)
LEMMA LoadedRow ==
    ASSUME CredentialInd, NEW id \in Credential, NEW row \in Loaded(id)
    PROVE  /\ credentials[id] # NULL /\ row = credentials[id]
           /\ row.version \in Nat \ {0}
           /\ Valid(id, row.aggregate)
  BY LoadedIsStored, CredentialAssumption, SMTT(30) DEF CredentialInd, TablesOK, FareCredentialRow

LEMMA ChangeStatusInv ==
    ASSUME CredentialInd, NEW u \in Unit, NEW id \in Credential, NEW row \in Loaded(id),
           NEW changed, MethodResult(id, row.aggregate, changed),
           changed.status # row.aggregate.status, changed.status # "replaced",
           ChangeStatus(u, id, row, changed)
    PROVE  CredentialInd'
<1>1. /\ credentials[id] # NULL /\ row = credentials[id]
      /\ row.version \in Nat \ {0}
      /\ Valid(id, row.aggregate)
  BY LoadedRow
<1>2. /\ Valid(id, changed) /\ changed.account = row.aggregate.account
      /\ row.aggregate.status \in Terminal => changed = row.aggregate
      /\ changed.status \in FareCredentialStatus /\ row.aggregate.status \in FareCredentialStatus
  BY <1>1 DEF MethodResult, Valid, FareCredential
<1>3. PICK e \in StatusChanged(id, row.version + 1, row.aggregate.status, changed.status) :
        Start(u, << Save(id, changed, row.version), AppendEvent(e) >>)
  BY DEF ChangeStatus
<1>4. /\ e \in [version: Nat \ {0}, payload: Payload]
      /\ e.version = row.version + 1 /\ e.payload.aggregate = id
      /\ e.payload.previous = row.aggregate.status /\ e.payload.current = changed.status
  BY <1>1, <1>2, ChangedEvent, SMTT(30)
<1>5. PICK new : new = [aggregate |-> changed, version |-> row.version + 1]
  OBVIOUS
<1>6. new.aggregate = changed /\ new.version = row.version + 1
  BY <1>5
<1>7. Follows(id, new)
  BY <1>1, <1>2, <1>6, SMTT(30) DEF Follows, ChangeOf
<1>8. Describes(e, id, new)
  BY <1>1, <1>4, <1>6, SMTT(30) DEF Describes
<1>9. row.version \in Nat
  BY <1>1
<1>10. UnitOK(Begun(<< Save(id, changed, row.version), AppendEvent(e) >>))
  BY <1>2, <1>4, <1>5, <1>7, <1>8, <1>9, BegunChange
<1>. QED
  BY <1>3, <1>10, StartInv

LEMMA ReplaceInv ==
    ASSUME CredentialInd, NEW u \in Unit, NEW id \in Credential, NEW successor \in Credential,
           ReplaceFareCredential(u, id, successor)
    PROVE  CredentialInd'
<1>0. PICK row \in Loaded(id) : \E replaced \in ReplaceWith(id, row.aggregate, successor) :
        /\ row.aggregate.status # "replaced"
        /\ \E event \in StatusChanged(id, row.version + 1, row.aggregate.status, "replaced"),
              issued \in Issued(successor, row.aggregate.account) :
             Start(u, << Save(id, replaced, row.version),
                         Save(successor, NewPending(row.aggregate.account), MustNotExist),
                         AppendEvent(event), AppendEvent(issued) >>)
  BY DEF ReplaceFareCredential
<1>1. PICK replaced \in ReplaceWith(id, row.aggregate, successor) :
        /\ row.aggregate.status # "replaced"
        /\ \E event \in StatusChanged(id, row.version + 1, row.aggregate.status, "replaced"),
              issued \in Issued(successor, row.aggregate.account) :
             Start(u, << Save(id, replaced, row.version),
                         Save(successor, NewPending(row.aggregate.account), MustNotExist),
                         AppendEvent(event), AppendEvent(issued) >>)
  BY <1>0
<1>2. /\ credentials[id] # NULL /\ row = credentials[id]
      /\ row.version \in Nat \ {0}
      /\ Valid(id, row.aggregate)
  BY <1>1, LoadedRow
<1>3. /\ MethodResult(id, row.aggregate, replaced)
      /\ replaced.status = "replaced" /\ replaced.replacement = successor /\ successor # id
  BY <1>1, <1>2, ReplaceWithResult, SMTT(30)
<1>4. /\ Valid(id, replaced) /\ replaced.account = row.aggregate.account
      /\ row.aggregate.status \in Terminal => replaced = row.aggregate
      /\ row.aggregate.account \in Account
      /\ "replaced" \in FareCredentialStatus /\ row.aggregate.status \in FareCredentialStatus
  BY <1>2, <1>3 DEF MethodResult, Valid, FareCredential, FareCredentialStatus
<1>5. PICK e \in StatusChanged(id, row.version + 1, row.aggregate.status, "replaced"),
           f \in Issued(successor, row.aggregate.account) :
        Start(u, << Save(id, replaced, row.version),
                    Save(successor, NewPending(row.aggregate.account), MustNotExist),
                    AppendEvent(e), AppendEvent(f) >>)
  BY <1>1
<1>6. /\ e \in [version: Nat \ {0}, payload: Payload]
      /\ e.version = row.version + 1 /\ e.payload.aggregate = id
      /\ e.payload.previous = row.aggregate.status /\ e.payload.current = "replaced"
  BY <1>2, <1>4, <1>5, ChangedEvent, SMTT(30)
<1>7. PICK new : new = [aggregate |-> replaced, version |-> row.version + 1]
  OBVIOUS
<1>8. new.aggregate = replaced /\ new.version = row.version + 1
  BY <1>7
<1>9. Follows(id, new)
  BY <1>1, <1>2, <1>3, <1>4, <1>8, SMTT(30) DEF Follows, ChangeOf
<1>10. Describes(e, id, new)
  BY <1>2, <1>3, <1>6, <1>8, SMTT(30) DEF Describes
<1>11. PICK pending : pending = [aggregate |-> NewPending(replaced.account), version |-> 1]
  OBVIOUS
<1>12. /\ f \in [version: Nat \ {0}, payload: Payload]
       /\ f.payload.aggregate = successor
       /\ Describes(f, successor, pending)
  BY <1>4, <1>5, <1>11, IssuedEvent
<1>13. UnitOK(Begun(<< Save(id, replaced, row.version),
                       Save(successor, NewPending(replaced.account), MustNotExist),
                       AppendEvent(e), AppendEvent(f) >>))
  BY <1>2, <1>3, <1>4, <1>6, <1>7, <1>9, <1>10, <1>11, <1>12, BegunReplacement
<1>. QED
  BY <1>4, <1>5, <1>13, StartInv

LEMMA SaveInv ==
    ASSUME CredentialInd, NEW u \in Unit, NEW id \in Credential, SaveFareCredential(u, id)
    PROVE  CredentialInd'
<1>0. PICK row \in Loaded(id) : \E changed \in CredentialCalls(id, row.aggregate) :
        Start(u, << Save(id, changed, row.version) >>)
  BY DEF SaveFareCredential
<1>1. PICK changed \in CredentialCalls(id, row.aggregate) :
        Start(u, << Save(id, changed, row.version) >>)
  BY <1>0
<1>2. /\ credentials[id] # NULL /\ row = credentials[id]
      /\ row.version \in Nat \ {0} /\ row.version \in Nat
      /\ Valid(id, row.aggregate)
  BY LoadedRow
<1>3. /\ Valid(id, changed) /\ changed.account = row.aggregate.account
      /\ row.aggregate.status \in Terminal => changed = row.aggregate
  BY <1>1, <1>2, CredentialCallsResult, SMTT(30) DEF MethodResult
<1>4. id \in Credential \cap DirectCredential
  BY DEF SaveFareCredential
<1>5. PICK new : new = [aggregate |-> changed, version |-> row.version + 1]
  OBVIOUS
<1>6. new.aggregate = changed /\ new.version = row.version + 1
  BY <1>5
<1>7. Follows(id, new)
  BY <1>2, <1>3, <1>4, <1>6, SMTT(30) DEF Follows, ChangeOf
<1>8. UnitOK(Begun(<< Save(id, changed, row.version) >>))
  BY <1>2, <1>3, <1>4, <1>5, <1>7, BegunSave
<1>. QED
  BY <1>1, <1>8, StartInv

-----------------------------------------------------------------------------
(* A statement moves what it writes from the plan to what is written *)

Executed(w) ==
    LET statement == Head(w.plan) IN
    [plan |-> Tail(w.plan),
     rows |-> IF statement.op = "save"
              THEN [id \in DOMAIN w.rows \cup {statement.id} |->
                      IF id = statement.id THEN statement.row ELSE w.rows[id]]
              ELSE w.rows,
     events |-> IF statement.op = "append" THEN w.events \cup {statement.event} ELSE w.events]

LEMMA PlanSplits ==
    ASSUME NEW plan, PlanOK(plan), plan # <<>>
    PROVE  /\ Head(plan) = plan[1] /\ 1 \in DOMAIN plan /\ plan[1] \in Statement
           /\ PlanOK(Tail(plan))
           /\ \A i \in DOMAIN plan : i = 1 \/ (i - 1 \in DOMAIN Tail(plan) /\ Tail(plan)[i - 1] = plan[i])
           /\ \A i \in DOMAIN Tail(plan) : i + 1 \in DOMAIN plan /\ Tail(plan)[i] = plan[i + 1]
<1>1. /\ plan \in Seq(Statement) /\ Len(plan) \in Nat /\ Len(plan) >= 1
      /\ DOMAIN plan = 1..Len(plan)
  BY SMTT(30) DEF PlanOK
<1>2. /\ Head(plan) = plan[1] /\ plan[1] \in Statement
      /\ Tail(plan) \in Seq(Statement) /\ Len(Tail(plan)) = Len(plan) - 1
      /\ \A i \in 1..(Len(plan) - 1) : Tail(plan)[i] = plan[i + 1]
  BY <1>1, SMTT(30)
<1>3. DOMAIN Tail(plan) = 1..(Len(plan) - 1)
  BY <1>2, SMTT(30)
<1>4. \A i \in DOMAIN Tail(plan) : i + 1 \in DOMAIN plan /\ Tail(plan)[i] = plan[i + 1]
  BY <1>1, <1>2, <1>3, SMTT(30)
<1>5. ASSUME NEW i \in DOMAIN plan, i # 1
      PROVE  i - 1 \in DOMAIN Tail(plan) /\ Tail(plan)[i - 1] = plan[i]
  <2>1. i - 1 \in 1..(Len(plan) - 1) /\ (i - 1) + 1 = i
    BY <1>1, <1>5, SMTT(30)
  <2>2. Tail(plan)[i - 1] = plan[(i - 1) + 1]
    BY <1>2, <2>1
  <2>. QED
    BY <1>3, <2>1, <2>2
<1>6. PlanOK(Tail(plan))
  <2>1. Len(Tail(plan)) <= 4
    BY <1>1, <1>2, SMTT(30) DEF PlanOK
  <2>2. ASSUME NEW i \in DOMAIN Tail(plan), Tail(plan)[i].op = "save"
        PROVE  Tail(plan)[i].row.version = Tail(plan)[i].expected + 1
    BY <1>4, <2>2, SMTT(30) DEF PlanOK
  <2>3. ASSUME NEW i \in DOMAIN Tail(plan), NEW j \in DOMAIN Tail(plan), i < j,
               Tail(plan)[j].op = "save"
        PROVE  Tail(plan)[i].op = "save"
    <3>1. i + 1 < j + 1
      BY <1>3, <2>3, SMTT(30)
    <3>. QED
      BY <1>4, <2>3, <3>1 DEF PlanOK
  <2>. QED
    BY <1>2, <2>1, <2>2, <2>3 DEF PlanOK
<1>7. 1 \in DOMAIN plan
  BY <1>1, SMTT(30)
<1>8. \A i \in DOMAIN plan : i = 1 \/ (i - 1 \in DOMAIN Tail(plan) /\ Tail(plan)[i - 1] = plan[i])
  BY <1>5
<1>9. Head(plan) = plan[1] /\ plan[1] \in Statement
  BY <1>2
<1>. QED
  BY <1>4, <1>6, <1>7, <1>8, <1>9

-----------------------------------------------------------------------------
(* The commit *)

(* The unit w has executed its plan and its writes become visible. *)
Commits(w) ==
    /\ UnitOK(w)
    /\ w.plan = <<>>
    /\ credentials' = [id \in Credential |-> IF id \in DOMAIN w.rows THEN w.rows[id]
                                             ELSE credentials[id]]
    /\ events' = events \cup w.events

(* A row that is committed: what it replaces, and its event. *)
LEMMA CommittedRow ==
    ASSUME TablesOK, NEW w, Commits(w), NEW id \in DOMAIN w.rows
    PROVE  /\ id \in Credential
           /\ credentials'[id] = w.rows[id]
           /\ w.rows[id] \in FareCredentialRow /\ w.rows[id] # NULL
           /\ w.rows[id].version \in Nat \ {0}
           /\ Valid(id, w.rows[id].aggregate)
           /\ w.rows[id].version = Last(id) + 1
           /\ credentials[id] = NULL =>
                w.rows[id].aggregate = NewPending(w.rows[id].aggregate.account)
           /\ credentials[id] # NULL =>
                ChangeOf(id, credentials[id].aggregate, w.rows[id].aggregate)
<1>1. HasRow(w, id, w.rows[id])
  BY DEF HasRow
<1>2. PICK row : row = w.rows[id]
  OBVIOUS
<1>3. RowOK(w, id, row)
  BY <1>1, <1>2 DEF Commits, UnitOK, IntentOK
<1>4. /\ row \in FareCredentialRow
      /\ IF row.version = 1 THEN credentials[id] = NULL
         ELSE credentials[id] # NULL /\ credentials[id].version = row.version - 1
  BY <1>2 DEF Commits, UnitOK, WrittenOK
<1>5. /\ id \in Credential /\ row.version \in Nat \ {0} /\ Valid(id, row.aggregate)
      /\ Follows(id, row)
  BY <1>3 DEF RowOK
<1>6. row.version = Last(id) + 1
  BY <1>4, <1>5, SMTT(30) DEF Last
<1>7. credentials'[id] = row
  BY <1>2, <1>5 DEF Commits
<1>8. row # NULL
  BY <1>4, CredentialAssumption
<1>9. credentials[id] = NULL => row.aggregate = NewPending(row.aggregate.account)
  BY <1>4, <1>5 DEF Follows
<1>10. credentials[id] # NULL => ChangeOf(id, credentials[id].aggregate, row.aggregate)
  BY <1>4, <1>5 DEF Follows
<1>. QED
  BY <1>2, <1>4, <1>5, <1>6, <1>7, <1>8, <1>9, <1>10

LEMMA OtherRow ==
    ASSUME NEW w, Commits(w), NEW id \in Credential, id \notin DOMAIN w.rows
    PROVE  credentials'[id] = credentials[id]
  BY DEF Commits

LEMMA CommittedTable ==
    ASSUME TablesOK, NEW w, Commits(w)
    PROVE  /\ StoredRows /\ StoredRows' /\ Grow
           /\ \A id \in Credential : credentials'[id] # NULL => Valid(id, credentials'[id].aggregate)
           /\ events' \subseteq CredentialEvent
<1>1. StoredRows
  BY DEF TablesOK, StoredRows
<1>2. StoredRows'
  <2>1. \A id \in Credential : credentials'[id] \in FareCredentialRow \cup {NULL}
    BY <1>1, CommittedRow, OtherRow DEF StoredRows
  <2>2. credentials' = [id \in Credential |-> credentials'[id]]
    BY DEF Commits
  <2>. QED
    BY <2>1, <2>2 DEF StoredRows
<1>3. Grow
  <2>. SUFFICES ASSUME NEW id \in Credential, credentials[id] # NULL
                PROVE  /\ credentials'[id] # NULL
                       /\ \/ credentials'[id] = credentials[id]
                          \/ credentials'[id].version > credentials[id].version
    BY DEF Grow
  <2>1. CASE id \in DOMAIN w.rows
    <3>1. credentials[id].version \in Nat
      BY <1>1, CredentialAssumption, SMTT(30) DEF StoredRows, FareCredentialRow
    <3>. QED
      BY <2>1, <3>1, CommittedRow, SMTT(30) DEF Last
  <2>2. CASE id \notin DOMAIN w.rows
    BY <2>2, OtherRow
  <2>. QED
    BY <2>1, <2>2
<1>4. \A id \in Credential : credentials'[id] # NULL => Valid(id, credentials'[id].aggregate)
  BY CommittedRow, OtherRow DEF TablesOK
<1>5. events' \subseteq CredentialEvent
  BY DEF TablesOK, Commits, UnitOK, WrittenOK
<1>. QED
  BY <1>1, <1>2, <1>3, <1>4, <1>5

(* The event of a committed row. *)
LEMMA CommittedEvent ==
    ASSUME TablesOK, NEW w, Commits(w), NEW id \in DOMAIN w.rows, id \notin DirectCredential
    PROVE  \E e : /\ {f \in w.events : f.payload.aggregate = id} = {e}
                  /\ Describes(e, id, w.rows[id])
<1>1. HasRow(w, id, w.rows[id])
  BY DEF HasRow
<1>2. PICK row : row = w.rows[id]
  OBVIOUS
<1>3. RowOK(w, id, row)
  BY <1>1, <1>2 DEF Commits, UnitOK, IntentOK
<1>4. PICK e : HasEvent(w, e) /\ e.payload.aggregate = id
  BY <1>3 DEF RowOK
<1>5. DOMAIN w.plan = {}
  BY SMTT(30) DEF Commits
<1>6. \A f : HasEvent(w, f) <=> f \in w.events
  BY <1>5 DEF HasEvent
<1>7. {f \in w.events : f.payload.aggregate = id} = {e}
  BY <1>4, <1>6 DEF Commits, UnitOK, IntentOK
<1>8. PICK r : HasRow(w, id, r) /\ Describes(e, id, r)
  BY <1>4 DEF Commits, UnitOK, IntentOK, EventOK
<1>9. r = row
  BY <1>1, <1>2, <1>8 DEF Commits, UnitOK, IntentOK
<1>. QED
  BY <1>2, <1>7, <1>8, <1>9

LEMMA CommitUnits ==
    ASSUME CredentialInd, NEW u \in Unit, NEW w, Open(u, w), Commits(w),
           unit' = [unit EXCEPT ![u] = NULL]
    PROVE  UnitsOK'
<1>1. StoredRows /\ StoredRows' /\ Grow
  BY CommittedTable DEF CredentialInd
<1>2. DOMAIN unit' = Unit /\ unit'[u] = NULL /\ \A v \in Unit : v # u => unit'[v] = unit[v]
  BY DEF CredentialInd, UnitsOK
<1>3. \A v \in Unit : \A x : Open(v, x)' => v # u /\ Open(v, x)
  BY <1>2 DEF Open
<1>4. ASSUME NEW v \in Unit, NEW x, Open(v, x)'
      PROVE  UnitOK(x)'
  <2>1. UnitOK(x) /\ Apart(x, w)
    BY <1>3, <1>4 DEF CredentialInd, UnitsOK
  <2>2. IntentOK(x)'
    BY <1>1, <2>1, IntentStays DEF UnitOK
  <2>3. ASSUME NEW id \in DOMAIN x.rows
        PROVE  id \in Credential /\ credentials'[id] = credentials[id]
    <3>1. HasRow(x, id, x.rows[id])
      BY DEF HasRow
    <3>2. RowOK(x, id, x.rows[id])
      BY <2>1, <3>1 DEF UnitOK, IntentOK
    <3>. QED
      BY <2>1, <3>2, OtherRow DEF RowOK, Apart
  <2>4. ASSUME NEW id \in DOMAIN x.rows
        PROVE  ~ReplacementTaken(id, x.rows[id].aggregate)'
    <3>1. ~ReplacementTaken(id, x.rows[id].aggregate)
      BY <2>1 DEF UnitOK, WrittenOK
    <3>2. ASSUME NEW other \in Credential \ {id}, x.rows[id].aggregate.replacement # NULL,
                 credentials'[other] # NULL
          PROVE  credentials'[other].aggregate.replacement # x.rows[id].aggregate.replacement
      <4>1. CASE other \in DOMAIN w.rows
        BY <2>1, <3>2, <4>1, CommittedRow, SMTT(30) DEF Apart, CredentialInd
      <4>2. CASE other \notin DOMAIN w.rows
        BY <3>1, <3>2, <4>2, OtherRow DEF ReplacementTaken
      <4>. QED
        BY <4>1, <4>2
    <3>. QED
      BY <3>2 DEF ReplacementTaken
  <2>5. WrittenOK(x)'
    BY <2>1, <2>3, <2>4 DEF UnitOK, WrittenOK
  <2>6. PlanOK(x.plan)'
    BY <2>1 DEF UnitOK, PlanOK
  <2>. QED
    BY <2>2, <2>5, <2>6 DEF UnitOK
<1>5. ASSUME NEW v1 \in Unit, NEW v2 \in Unit, NEW w1, NEW w2, v1 # v2,
             Open(v1, w1)', Open(v2, w2)'
      PROVE  Apart(w1, w2)
  BY <1>3, <1>5 DEF CredentialInd, UnitsOK
<1>6. \A v \in Unit : \A x : Open(v, x)' => UnitOK(x)'
  BY <1>4
<1>7. \A v1, v2 \in Unit : \A w1, w2 : v1 # v2 /\ Open(v1, w1)' /\ Open(v2, w2)' => Apart(w1, w2)
  BY <1>5
<1>. QED
  BY <1>2, <1>6, <1>7 DEF UnitsOK, Apart

(* A commit in terms of what the unit has written. *)
LEMMA CommitKinds ==
    ASSUME CredentialInd, NEW u \in Unit, Commit(u)
    PROVE  /\ unit' = [unit EXCEPT ![u] = NULL]
           /\ \/ UNCHANGED <<credentials, events>>
              \/ \E w : Open(u, w) /\ Commits(w)
<1>1. PICK w : w = unit[u]
  OBVIOUS
<1>2. w # NULL /\ w.plan = <<>>
  BY <1>1 DEF Commit
<1>3. Open(u, w) /\ UnitOK(w)
  BY <1>1, <1>2 DEF Open, CredentialInd, UnitsOK
<1>4. CASE ReplacementsExist(CommittedRows(u))
  <2>1. /\ credentials' = [id \in Credential |-> IF id \in DOMAIN w.rows THEN w.rows[id]
                                                 ELSE credentials[id]]
        /\ events' = events \cup w.events
    BY <1>1, <1>4 DEF Commit, CommittedRows
  <2>. QED
    BY <1>2, <1>3, <2>1 DEF Commits, Commit, End
<1>5. CASE ~ReplacementsExist(CommittedRows(u))
  BY <1>5 DEF Commit, End, tables
<1>. QED
  BY <1>4, <1>5

LEMMA CredentialInvariant == Spec => []CredentialInd
<1>CredentialInitInv. ASSUME Init
                      PROVE  CredentialInd
  <2>. USE <1>CredentialInitInv
  <2>1. /\ credentials = [id \in Credential |-> NULL] /\ events = {}
        /\ unit = [u \in Unit |-> NULL]
    BY DEF Init
  <2>2. \A id \in Credential : credentials[id] = NULL /\ Log(id) = {} /\ Last(id) = 0
    BY <2>1 DEF Log, Last
  <2>3. \A id \in Credential : LogOK(id)
    BY <2>2, SMTT(30) DEF LogOK
  <2>4. SuccessorsOK
    BY <2>2 DEF SuccessorsOK, IsReplaced
  <2>5. UnitsOK
    BY <2>1 DEF UnitsOK, Open
  <2>. QED
    BY <2>1, <2>2, <2>3, <2>4, <2>5 DEF CredentialInd, TablesOK
<1>CredentialNextInv. ASSUME CredentialInd, [Next]_vars
                      PROVE  CredentialInd'
  <2>. USE <1>CredentialNextInv
  <2>UseCaseInv. ASSUME CredentialInd, NEW u \in Unit, UseCase(u)
                 PROVE  CredentialInd'
    <3>. USE <2>UseCaseInv
    <3>1. ASSUME NEW id \in Credential, ActivateFareCredential(u, id)
          PROVE  CredentialInd'
      <4>1. PICK row \in Loaded(id) : \E changed \in Activate(row.aggregate) :
              row.aggregate.status # "active" /\ ChangeStatus(u, id, row, changed)
        BY <3>1 DEF ActivateFareCredential
      <4>2. PICK changed \in Activate(row.aggregate) :
              row.aggregate.status # "active" /\ ChangeStatus(u, id, row, changed)
        BY <4>1
      <4>. QED
        BY <4>1, <4>2, LoadedRow, ActivateResult, ChangeStatusInv
    <3>2. ASSUME NEW id \in Credential, SuspendFareCredential(u, id)
          PROVE  CredentialInd'
      <4>1. PICK row \in Loaded(id) : \E changed \in Suspend(row.aggregate) :
              row.aggregate.status # "suspended" /\ ChangeStatus(u, id, row, changed)
        BY <3>2 DEF SuspendFareCredential
      <4>2. PICK changed \in Suspend(row.aggregate) :
              row.aggregate.status # "suspended" /\ ChangeStatus(u, id, row, changed)
        BY <4>1
      <4>. QED
        BY <4>1, <4>2, LoadedRow, SuspendResult, ChangeStatusInv
    <3>3. ASSUME NEW id \in Credential, NEW reason \in RevocationReason,
                 RevokeFareCredential(u, id, reason)
          PROVE  CredentialInd'
      <4>1. PICK row \in Loaded(id) : \E changed \in Revoke(row.aggregate, reason) :
              row.aggregate.status # "revoked" /\ ChangeStatus(u, id, row, changed)
        BY <3>3 DEF RevokeFareCredential
      <4>2. PICK changed \in Revoke(row.aggregate, reason) :
              row.aggregate.status # "revoked" /\ ChangeStatus(u, id, row, changed)
        BY <4>1
      <4>. QED
        BY <4>1, <4>2, LoadedRow, RevokeResult, ChangeStatusInv
    <3>. QED
      BY <3>1, <3>2, <3>3, IssueInv, ReplaceInv, SaveInv DEF UseCase
  <2>ExecuteInv. ASSUME CredentialInd, NEW u \in Unit, Execute(u)
                 PROVE  CredentialInd'
    <3>. USE <2>ExecuteInv
    <3>ExecutedIntent. ASSUME NEW w, UnitOK(w), w.plan # <<>>
                       PROVE  IntentOK(Executed(w))
      <4>. USE <3>ExecutedIntent
      <4>. DEFINE x == Executed(w)
                  s == Head(w.plan)
      <4>1. /\ s = w.plan[1] /\ 1 \in DOMAIN w.plan
            /\ \A i \in DOMAIN w.plan :
                 i = 1 \/ (i - 1 \in DOMAIN Tail(w.plan) /\ Tail(w.plan)[i - 1] = w.plan[i])
            /\ \A i \in DOMAIN Tail(w.plan) : i + 1 \in DOMAIN w.plan /\ Tail(w.plan)[i] = w.plan[i + 1]
        BY PlanSplits DEF UnitOK
      <4>2. /\ x.plan = Tail(w.plan)
            /\ s.op = "save" => x.rows = [id \in DOMAIN w.rows \cup {s.id} |->
                                            IF id = s.id THEN s.row ELSE w.rows[id]]
            /\ s.op # "save" => x.rows = w.rows
            /\ s.op = "append" => x.events = w.events \cup {s.event}
            /\ s.op # "append" => x.events = w.events
        BY DEF Executed
      <4>. HIDE DEF x, s
      <4>3. ASSUME NEW i \in DOMAIN w.plan
            PROVE  w.plan[i] = s \/ \E j \in DOMAIN x.plan : x.plan[j] = w.plan[i]
        <5>1. CASE i = 1
          BY <4>1, <5>1
        <5>2. CASE i - 1 \in DOMAIN x.plan /\ x.plan[i - 1] = w.plan[i]
          BY <5>2
        <5>. QED
          BY <4>1, <4>2, <5>1, <5>2
      <4>4. ASSUME NEW j \in DOMAIN x.plan
            PROVE  \E i \in DOMAIN w.plan : x.plan[j] = w.plan[i]
        <5>1. j + 1 \in DOMAIN w.plan /\ x.plan[j] = w.plan[j + 1]
          BY <4>1, <4>2
        <5>. QED
          BY <5>1
      <4>5. ASSUME NEW id, NEW row
            PROVE  HasRow(x, id, row) <=> HasRow(w, id, row)
        <5>1. ASSUME HasRow(x, id, row)
              PROVE  HasRow(w, id, row)
          <6>1. CASE \E j \in DOMAIN x.plan : x.plan[j].op = "save" /\ x.plan[j].id = id /\ x.plan[j].row = row
            BY <4>4, <6>1 DEF HasRow
          <6>2. CASE id \in DOMAIN x.rows /\ x.rows[id] = row
            <7>1. CASE s.op = "save"
              BY <4>1, <4>2, <6>2, <7>1, SMTT(30) DEF HasRow
            <7>2. CASE s.op # "save"
              BY <4>2, <6>2, <7>2 DEF HasRow
            <7>. QED
              BY <7>1, <7>2
          <6>. QED
            BY <5>1, <6>1, <6>2 DEF HasRow
        <5>2. ASSUME HasRow(w, id, row)
              PROVE  HasRow(x, id, row)
          <6>1. CASE \E i \in DOMAIN w.plan : w.plan[i].op = "save" /\ w.plan[i].id = id /\ w.plan[i].row = row
            <7>1. PICK i \in DOMAIN w.plan : w.plan[i].op = "save" /\ w.plan[i].id = id /\ w.plan[i].row = row
              BY <6>1
            <7>2. CASE w.plan[i] = s
              <8>1. x.rows = [k \in DOMAIN w.rows \cup {s.id} |-> IF k = s.id THEN s.row ELSE w.rows[k]]
                BY <4>2, <7>1, <7>2
              <8>. QED
                BY <7>1, <7>2, <8>1 DEF HasRow
            <7>3. CASE \E j \in DOMAIN x.plan : x.plan[j] = w.plan[i]
              BY <7>1, <7>3 DEF HasRow
            <7>. QED
              BY <4>3, <7>2, <7>3
          <6>2. CASE id \in DOMAIN w.rows /\ w.rows[id] = row
            <7>1. CASE s.op # "save"
              BY <4>2, <6>2, <7>1 DEF HasRow
            <7>2. CASE s.op = "save"
              <8>1. x.rows = [k \in DOMAIN w.rows \cup {s.id} |-> IF k = s.id THEN s.row ELSE w.rows[k]]
                BY <4>2, <7>2
              <8>2. HasRow(w, s.id, s.row)
                BY <4>1, <7>2 DEF HasRow
              <8>3. id = s.id => row = s.row
                BY <5>2, <8>2 DEF UnitOK, IntentOK
              <8>. QED
                BY <6>2, <8>1, <8>3 DEF HasRow
            <7>. QED
              BY <7>1, <7>2
          <6>. QED
            BY <5>2, <6>1, <6>2 DEF HasRow
        <5>. QED
          BY <5>1, <5>2
      <4>6. ASSUME NEW e
            PROVE  HasEvent(x, e) <=> HasEvent(w, e)
        <5>1. HasEvent(x, e) => HasEvent(w, e)
          BY <4>1, <4>2, <4>4, SMTT(30) DEF HasEvent
        <5>2. HasEvent(w, e) => HasEvent(x, e)
          BY <4>2, <4>3, SMTT(30) DEF HasEvent
        <5>. QED
          BY <5>1, <5>2
      <4>7. IntentOK(x)
        BY <4>5, <4>6, SameIntent DEF UnitOK
      <4>. QED
        BY <4>7 DEF x
    <3>1. PICK w : w = unit[u]
      OBVIOUS
    <3>2. /\ w # NULL /\ w.plan # <<>>
          /\ StatementAccepted(Head(w.plan))
          /\ unit' = [unit EXCEPT ![u] = Executed(w)]
          /\ UNCHANGED <<credentials, events>>
      BY <3>1 DEF Execute, Executed, tables
    <3>3. UnitOK(w) /\ Open(u, w)
      BY <3>1, <3>2 DEF CredentialInd, UnitsOK, Open
    <3>. DEFINE s == Head(w.plan)
                x == Executed(w)
    <3>4. /\ s = w.plan[1] /\ 1 \in DOMAIN w.plan /\ s \in Statement
          /\ PlanOK(Tail(w.plan))
      BY <3>2, <3>3, PlanSplits DEF UnitOK
    <3>5. /\ x.plan = Tail(w.plan)
          /\ s.op = "save" => x.rows = [id \in DOMAIN w.rows \cup {s.id} |->
                                          IF id = s.id THEN s.row ELSE w.rows[id]]
          /\ s.op # "save" => x.rows = w.rows
          /\ s.op = "append" => x.events = w.events \cup {s.event}
          /\ s.op # "append" => x.events = w.events
      BY DEF Executed
    <3>6. IntentOK(x)
      BY <3>2, <3>3, <3>ExecutedIntent
    <3>7. ASSUME NEW v \in Unit, NEW y, u # v, Open(v, y)
          PROVE  Apart(w, y) /\ Apart(y, w) /\ ~ConflictsWith(v, s) /\ unit[v] = y /\ unit[v] # NULL
      <4>1. Apart(w, y) /\ Apart(y, w)
        BY <3>3, <3>7 DEF CredentialInd, UnitsOK
      <4>2. ~ConflictsWith(v, s)
        BY <3>1, <3>2, <3>7 DEF Execute, Blocked, WaitsFor
      <4>. QED
        BY <3>7, <4>1, <4>2 DEF Open
    <3>8. s.op = "save" \/ s.op = "append"
      BY <3>4 DEF Statement
    <3>. HIDE DEF s, x
    <3>9. CASE s.op = "save"
      <4>1. HasRow(w, s.id, s.row)
        BY <3>4, <3>9 DEF HasRow
      <4>2. RowOK(w, s.id, s.row)
        BY <3>3, <4>1 DEF UnitOK, IntentOK
      <4>3. /\ s.id \in Credential /\ s.expected \in Nat /\ s.row.version = s.expected + 1
            /\ s.row \in [aggregate: FareCredential, version: Nat \ {0}]
        <5>1. s.row.version = s.expected + 1
          BY <3>3, <3>4, <3>9 DEF UnitOK, PlanOK
        <5>2. s.expected \in Nat
          BY <3>4, <3>9 DEF Statement
        <5>. QED
          BY <4>2, <5>1, <5>2 DEF RowOK
      <4>4. /\ IF s.expected = 0 THEN InsertAccepted(s) ELSE UpdateAccepted(s)
            /\ ~ReplacementTaken(s.id, s.row.aggregate)
        BY <3>2, <3>9 DEF StatementAccepted, SaveAccepted, MustNotExist, s
      <4>5. s.row \in FareCredentialRow
        <5>1. s.row.version \in 1..MaxVersion
          BY <4>3, <4>4, CredentialAssumption, SMTT(30) DEF UpdateAccepted
        <5>. QED
          BY <4>3, <5>1 DEF FareCredentialRow
      <4>6. IF s.row.version = 1 THEN credentials[s.id] = NULL
            ELSE credentials[s.id] # NULL /\ credentials[s.id].version = s.row.version - 1
        BY <4>3, <4>4, SMTT(30) DEF InsertAccepted, UpdateAccepted
      <4>7. /\ DOMAIN x.rows = DOMAIN w.rows \cup {s.id} /\ x.rows[s.id] = s.row
            /\ \A id \in DOMAIN w.rows : id # s.id => x.rows[id] = w.rows[id]
            /\ x.events = w.events
        BY <3>5, <3>9
      <4>8. WrittenOK(x)
        BY <3>3, <4>4, <4>5, <4>6, <4>7, SMTT(30) DEF UnitOK, WrittenOK
      <4>9. ASSUME NEW v \in Unit, NEW y, u # v, Open(v, y)
            PROVE  Apart(x, y) /\ Apart(y, x)
        <5>1. Apart(w, y) /\ Apart(y, w) /\ ~ConflictsWith(v, s) /\ unit[v] = y /\ unit[v] # NULL
          BY <3>7, <4>9
        <5>2. /\ s.id \notin DOMAIN y.rows
              /\ s.row.aggregate.replacement # NULL =>
                   \A id \in DOMAIN y.rows :
                     y.rows[id].aggregate.replacement # s.row.aggregate.replacement
          BY <3>9, <5>1 DEF ConflictsWith
        <5>. QED
          BY <4>7, <5>1, <5>2, SMTT(30) DEF Apart
      <4>. QED
        BY <3>2, <3>4, <3>5, <3>6, <4>8, <4>9, UnitStep DEF UnitOK, x
    <3>10. CASE s.op = "append"
      <4>1. x.rows = w.rows /\ x.events = w.events \cup {s.event}
        BY <3>5, <3>10
      <4>2. HasEvent(w, s.event)
        BY <3>4, <3>10 DEF HasEvent
      <4>3. PICK row : /\ HasRow(w, s.event.payload.aggregate, row)
                       /\ Describes(s.event, s.event.payload.aggregate, row)
        BY <3>3, <4>2 DEF UnitOK, IntentOK, EventOK
      <4>4. \A i \in DOMAIN w.plan : w.plan[i].op # "save"
        <5>1. w.plan[1].op # "save"
          BY <3>4, <3>10
        <5>2. \A i \in DOMAIN w.plan : i = 1 \/ 1 < i
          BY <3>3, SMTT(30) DEF UnitOK, PlanOK
        <5>. QED
          BY <3>3, <3>4, <5>1, <5>2 DEF UnitOK, PlanOK
      <4>5. s.event.payload.aggregate \in DOMAIN w.rows /\ row = w.rows[s.event.payload.aggregate]
        BY <4>3, <4>4 DEF HasRow
      <4>6. s.event.version \in 1..MaxVersion
        BY <3>3, <4>3, <4>5 DEF UnitOK, WrittenOK, Describes, FareCredentialRow
      <4>7. s.event \in CredentialEvent
        <5>1. s.event \in [version: Nat \ {0}, payload: Payload]
          BY <3>4, <3>10 DEF Statement, Payload
        <5>2. s.event = [version |-> s.event.version, payload |-> s.event.payload]
              /\ s.event.payload \in Payload
          BY <5>1
        <5>. QED
          BY <4>6, <5>2, PayloadFields
      <4>8. WrittenOK(x)
        BY <3>3, <4>1, <4>5, <4>7 DEF UnitOK, WrittenOK
      <4>9. \A v \in Unit : \A y : u # v /\ Open(v, y) => Apart(x, y) /\ Apart(y, x)
        BY <3>7, <4>1, SMTT(30) DEF Apart
      <4>. QED
        BY <3>2, <3>4, <3>5, <3>6, <4>8, <4>9, UnitStep DEF UnitOK, x
    <3>. QED
      BY <3>8, <3>9, <3>10
  <2>CommitInv. ASSUME CredentialInd, NEW u \in Unit, Commit(u)
                PROVE  CredentialInd'
    <3>. USE <2>CommitInv
    <3>CommitLog. ASSUME TablesOK, NEW w, Commits(w), NEW id \in Credential \ DirectCredential
                  PROVE  LogOK(id)'
      <4>. USE <3>CommitLog
      <4>1. LogOK(id)
        BY DEF TablesOK
      <4>2. CASE id \notin DOMAIN w.rows
        <5>1. credentials'[id] = credentials[id]
          BY <4>2, OtherRow
        <5>2. Log(id)' = Log(id)
          BY <4>2 DEF Log, Commits, UnitOK, WrittenOK
        <5>3. Last(id)' = Last(id)
          BY <5>1 DEF Last
        <5>. QED
          BY <4>1, <5>1, <5>2, <5>3, SMTT(30) DEF LogOK
      <4>3. CASE id \in DOMAIN w.rows
        <5>1. PICK row : row = w.rows[id]
          OBVIOUS
        <5>2. PICK e : {f \in w.events : f.payload.aggregate = id} = {e} /\ Describes(e, id, row)
          BY <4>3, <5>1, CommittedEvent
        <5>3. Log(id)' = Log(id) \cup {e}
          BY <5>2 DEF Log, Commits
        <5>4. /\ credentials'[id] = row /\ row # NULL /\ row.version \in Nat \ {0}
              /\ row.version = Last(id) + 1
              /\ credentials[id] # NULL => ChangeOf(id, credentials[id].aggregate, row.aggregate)
          BY <4>3, <5>1, CommittedRow
        <5>5. Last(id) \in Nat /\ (credentials[id] = NULL <=> Last(id) = 0)
          BY CredentialAssumption, SMTT(30) DEF TablesOK, FareCredentialRow, Last
        <5>6. Last(id)' = Last(id) + 1
          BY <5>4 DEF Last
        <5>7. e.version = Last(id) + 1 /\ e.payload.current = row.aggregate.status
          BY <5>2, <5>4 DEF Describes
        <5>8. \A f \in Log(id) : f.version \in 1..Last(id)
          BY <4>1 DEF LogOK
        <5>9. \A f \in Log(id)' : f.version \in 1..Last(id)'
          BY <5>3, <5>5, <5>6, <5>7, <5>8, SMTT(30)
        <5>10. \A n \in 1..Last(id)' : \E f \in Log(id)' : f.version = n
          <6>. SUFFICES ASSUME NEW n \in 1..(Last(id) + 1)
                        PROVE  \E f \in Log(id)' : f.version = n
            BY <5>6
          <6>1. CASE n = Last(id) + 1
            BY <5>3, <5>7, <6>1
          <6>2. CASE n \in 1..Last(id)
            BY <4>1, <5>3, <6>2 DEF LogOK
          <6>. QED
            BY <5>5, <6>1, <6>2, SMTT(30)
        <5>11. \A f, g \in Log(id)' : f.version = g.version => f = g
          <6>1. \A f \in Log(id) : f.version # e.version
            BY <5>5, <5>7, <5>8, SMTT(30)
          <6>2. \A f, g \in Log(id) : f.version = g.version => f = g
            BY <4>1 DEF LogOK
          <6>. QED
            BY <5>3, <6>1, <6>2
        <5>12. ASSUME NEW f \in Log(id)'
               PROVE  /\ f.version = 1 => /\ f.payload.name = "fare_credential.issued"
                                          /\ f.payload.account = row.aggregate.account
                      /\ f.version = Last(id) + 1 => f.payload.current = row.aggregate.status
                      /\ \A g \in Log(id)' : g.version = f.version + 1 =>
                           g.payload.previous = f.payload.current
          <6>1. CASE f = e
            <7>1. e.version = 1 => /\ e.payload.name = "fare_credential.issued"
                                   /\ e.payload.account = row.aggregate.account
              BY <5>2 DEF Describes
            <7>2. \A g \in Log(id)' : g.version # e.version + 1
              BY <5>5, <5>6, <5>7, <5>9, SMTT(30)
            <7>. QED
              BY <5>7, <6>1, <7>1, <7>2
          <6>2. CASE f \in Log(id)
            <7>1. f.version \in 1..Last(id) /\ Last(id) # 0 /\ credentials[id] # NULL
              BY <5>5, <5>8, <6>2, SMTT(30)
            <7>2. f.version = 1 => /\ f.payload.name = "fare_credential.issued"
                                   /\ f.payload.account = row.aggregate.account
              BY <4>1, <5>4, <6>2, <7>1 DEF LogOK, ChangeOf
            <7>3. f.version # Last(id) + 1
              BY <5>5, <7>1, SMTT(30)
            <7>4. ASSUME NEW g \in Log(id)', g.version = f.version + 1
                  PROVE  g.payload.previous = f.payload.current
              <8>1. CASE g \in Log(id)
                BY <4>1, <6>2, <7>4, <8>1 DEF LogOK
              <8>2. CASE g = e
                <9>1. f.version = Last(id)
                  BY <5>5, <5>7, <7>1, <7>4, <8>2, SMTT(30)
                <9>2. f.payload.current = credentials[id].aggregate.status
                  BY <4>1, <6>2, <9>1 DEF LogOK
                <9>3. row.version # 1 /\ credentials[id].version = row.version - 1
                  BY <5>4, <5>5, <7>1, SMTT(30) DEF Last
                <9>4. e.payload.previous = credentials[id].aggregate.status
                  BY <5>2, <9>3 DEF Describes
                <9>. QED
                  BY <8>2, <9>2, <9>4
              <8>. QED
                BY <5>3, <8>1, <8>2
            <7>. QED
              BY <7>2, <7>3, <7>4
          <6>. QED
            BY <5>3, <6>1, <6>2
        <5>. QED
          BY <5>4, <5>6, <5>9, <5>10, <5>11, <5>12 DEF LogOK
      <4>. QED
        BY <4>2, <4>3
    <3>CommitSuccessors. ASSUME TablesOK, NEW w, Commits(w)
                         PROVE  SuccessorsOK'
      <4>. USE <3>CommitSuccessors
      <4>. DEFINE rows == DOMAIN w.rows
      <4>1. \A id \in rows : /\ id \in Credential
                             /\ credentials'[id] = w.rows[id]
                             /\ w.rows[id] # NULL
                             /\ w.rows[id] \in FareCredentialRow
                             /\ Valid(id, w.rows[id].aggregate)
        BY CommittedRow
      <4>2. \A id \in Credential : id \notin rows => credentials'[id] = credentials[id]
        BY OtherRow
      <4>3. \A id \in Credential : IsReplaced(id)' => Successor(id)' # NULL /\ Successor(id)' \in Credential
        <5>. SUFFICES ASSUME NEW id \in Credential, IsReplaced(id)'
                      PROVE  Successor(id)' # NULL /\ Successor(id)' \in Credential
          OBVIOUS
        <5>1. Valid(id, credentials'[id].aggregate) /\ credentials'[id].aggregate.status = "replaced"
          BY CommittedTable DEF IsReplaced
        <5>. QED
          BY <5>1 DEF Valid, ValidLifecycleFields, FareCredential, Successor
      (* The successor of a row of the unit is a new row of the unit. *)
      <4>4. ASSUME NEW id \in rows, id \notin DirectCredential, IsReplaced(id)'
            PROVE  /\ Successor(id)' \in rows
                   /\ w.rows[Successor(id)'].aggregate.account = w.rows[id].aggregate.account
                   /\ w.rows[Successor(id)'].aggregate.status = "pending"
        <5>1. HasRow(w, id, w.rows[id])
          BY DEF HasRow
        <5>2. PICK row : row = w.rows[id]
          OBVIOUS
        <5>3. RowOK(w, id, row)
          BY <5>1, <5>2 DEF Commits, UnitOK, IntentOK
        <5>4. credentials'[id] = row /\ row.aggregate.status = "replaced"
              /\ Successor(id)' = row.aggregate.replacement
          BY <4>1, <4>4, <5>2 DEF IsReplaced, Successor
        <5>5. PICK new : /\ HasRow(w, row.aggregate.replacement, new) /\ new.version = 1
                         /\ new.aggregate.account = row.aggregate.account
          BY <4>4, <5>3, <5>4 DEF RowOK
        <5>6. DOMAIN w.plan = {}
          BY SMTT(30) DEF Commits
        <5>7. row.aggregate.replacement \in rows /\ w.rows[row.aggregate.replacement] = new
          BY <5>5, <5>6 DEF HasRow
        <5>8. RowOK(w, row.aggregate.replacement, new)
          BY <5>5 DEF Commits, UnitOK, IntentOK
        <5>9. new.aggregate.status = "pending"
          BY <5>5, <5>8, SMTT(30) DEF RowOK, Follows, NewPending
        <5>. QED
          BY <5>2, <5>4, <5>5, <5>7, <5>9
      <4>. HIDE DEF rows
      <4>5. ASSUME NEW id \in Credential \ DirectCredential, IsReplaced(id)'
            PROVE  /\ credentials'[Successor(id)'] # NULL
                   /\ credentials'[Successor(id)'].aggregate.account = credentials'[id].aggregate.account
        <5>1. CASE id \in rows
          BY <4>1, <4>4, <4>5, <5>1
        <5>2. CASE id \notin rows
          <6>1. credentials'[id] = credentials[id] /\ IsReplaced(id) /\ Successor(id)' = Successor(id)
            BY <4>2, <4>5, <5>2 DEF IsReplaced, Successor
          <6>2. /\ credentials[Successor(id)] # NULL
                /\ credentials[Successor(id)].aggregate.account = credentials[id].aggregate.account
            BY <4>5, <6>1 DEF TablesOK, SuccessorsOK
          <6>3. PICK next \in Credential : next = Successor(id)
            BY <4>3, <4>5, <6>1
          <6>4. CASE next \in rows
            <7>1. credentials'[next] = w.rows[next] /\ w.rows[next] # NULL
              BY <4>1, <6>4, CommittedRow DEF rows
            <7>2. ChangeOf(next, credentials[next].aggregate, w.rows[next].aggregate)
              BY <6>2, <6>3, <6>4, CommittedRow DEF rows
            <7>3. w.rows[next].aggregate.account = credentials[next].aggregate.account
              BY <7>2 DEF ChangeOf
            <7>. QED
              BY <6>1, <6>2, <6>3, <7>1, <7>3
          <6>5. CASE next \notin rows
            BY <4>2, <6>1, <6>2, <6>3, <6>5
          <6>. QED
            BY <6>4, <6>5
        <5>. QED
          BY <5>1, <5>2
      <4>6. ASSUME NEW id \in Credential, NEW other \in Credential, id \in rows, id # other,
                   IsReplaced(id)', IsReplaced(other)'
            PROVE  Successor(id)' # Successor(other)'
        <5>1. Successor(id)' # NULL /\ Successor(other)' # NULL
          BY <4>3, <4>6
        <5>2. w.rows[id].aggregate.replacement = Successor(id)'
          BY <4>1, <4>6 DEF Successor
        <5>3. CASE other \in rows
          <6>1. w.rows[other].aggregate.replacement = Successor(other)'
            BY <4>1, <5>3 DEF Successor
          <6>2. HasRow(w, id, w.rows[id]) /\ HasRow(w, other, w.rows[other])
            BY <4>6, <5>3 DEF HasRow, rows
          <6>. QED
            BY <4>6, <5>1, <5>2, <6>1, <6>2 DEF Commits, UnitOK, IntentOK
        <5>4. CASE other \notin rows
          <6>1. credentials'[other] = credentials[other] /\ credentials[other] # NULL
            BY <4>2, <4>6, <5>4 DEF IsReplaced
          <6>2. ~ReplacementTaken(id, w.rows[id].aggregate)
            BY <4>6 DEF Commits, UnitOK, WrittenOK, rows
          <6>. QED
            BY <4>6, <5>1, <5>2, <6>1, <6>2 DEF ReplacementTaken, Successor
        <5>. QED
          BY <5>3, <5>4
      <4>7. ASSUME NEW id \in Credential, NEW other \in Credential,
                   IsReplaced(id)', IsReplaced(other)', Successor(id)' = Successor(other)'
            PROVE  id = other
        <5>1. CASE id \in rows
          BY <4>6, <4>7, <5>1
        <5>2. CASE other \in rows
          BY <4>6, <4>7, <5>2
        <5>3. CASE id \notin rows /\ other \notin rows
          BY <4>2, <4>7, <5>3, SMTT(30) DEF TablesOK, SuccessorsOK, IsReplaced, Successor
        <5>. QED
          BY <5>1, <5>2, <5>3
      <4>8. ASSUME NEW set, set \subseteq Credential \ DirectCredential, \A id \in set : IsReplaced(id)',
                   set # {}
            PROVE  \E id \in set : Successor(id)' \notin set
        <5>1. CASE \E id \in set : id \in rows
          <6>1. PICK id \in set : id \in rows
            BY <5>1
          <6>2. /\ Successor(id)' \in rows
                /\ w.rows[Successor(id)'].aggregate.status = "pending"
            BY <4>4, <4>8, <6>1
          <6>3. PICK next : next = Successor(id)'
            OBVIOUS
          <6>4. credentials'[next].aggregate.status = "pending"
            BY <4>1, <6>2, <6>3
          <6>5. next \notin set
            BY <4>8, <6>4 DEF IsReplaced
          <6>. QED
            BY <6>1, <6>3, <6>5
        <5>2. CASE \A id \in set : id \notin rows
          <6>1. \A id \in set : IsReplaced(id) /\ Successor(id)' = Successor(id)
            BY <4>2, <4>8, <5>2 DEF IsReplaced, Successor
          <6>2. set \in SUBSET {id \in Credential \ DirectCredential : IsReplaced(id)}
            BY <4>8, <6>1
          <6>3. \E id \in set : Successor(id) \notin set
            BY <4>8, <6>2 DEF TablesOK, SuccessorsOK
          <6>. QED
            BY <6>1, <6>3
        <5>. QED
          BY <5>1, <5>2
      <4>9. \A set \in SUBSET {id \in Credential \ DirectCredential : IsReplaced(id)'} :
              set # {} => \E id \in set : Successor(id)' \notin set
        BY <4>8
      <4>. QED
        BY <4>5, <4>7, <4>9 DEF SuccessorsOK, IsReplaced, Successor
    <3>1. CASE UNCHANGED <<credentials, events>>
      BY <3>1, EndInv, CommitKinds DEF End
    <3>2. ASSUME NEW w, Open(u, w), Commits(w)
          PROVE  CredentialInd'
      <4>1. TablesOK
        BY DEF CredentialInd
      <4>2. StoredRows' /\ events' \subseteq CredentialEvent
            /\ \A id \in Credential : credentials'[id] # NULL => Valid(id, credentials'[id].aggregate)
        BY <3>2, <4>1, CommittedTable
      <4>3. \A id \in Credential \ DirectCredential : LogOK(id)'
        BY <3>2, <4>1, <3>CommitLog
      <4>4. SuccessorsOK'
        BY <3>2, <4>1, <3>CommitSuccessors
      <4>5. TablesOK'
        BY <4>2, <4>3, <4>4 DEF TablesOK, StoredRows, Valid
      <4>6. UnitsOK'
        BY <3>2, CommitUnits, CommitKinds
      <4>. QED
        BY <4>5, <4>6 DEF CredentialInd
    <3>. QED
      BY <3>1, <3>2, CommitKinds
  <2>1. ASSUME NEW u \in Unit, Refuse(u) \/ Fail(u) \/ DetectDeadlock(u)
        PROVE  CredentialInd'
    BY <2>1, EndInv DEF Refuse, Fail, DetectDeadlock, tables
  <2>2. ASSUME UNCHANGED <<credentials, events, unit>>
        PROVE  CredentialInd'
    <3>1. TablesOK'
      <4>1. \A id : Log(id)' = Log(id) /\ Last(id)' = Last(id)
        BY <2>2 DEF Log, Last
      <4>2. \A id : LogOK(id)' <=> LogOK(id)
        BY <2>2, <4>1 DEF LogOK
      <4>3. \A id : (IsReplaced(id)' <=> IsReplaced(id)) /\ Successor(id)' = Successor(id)
        BY <2>2 DEF IsReplaced, Successor
      <4>4. SuccessorsOK'
        BY <2>2, <4>3 DEF CredentialInd, TablesOK, SuccessorsOK
      <4>. QED
        BY <2>2, <4>2, <4>4 DEF CredentialInd, TablesOK
    <3>2. \A v \in Unit : \A w : Open(v, w)' <=> Open(v, w)
      BY <2>2 DEF Open
    <3>3. \A v \in Unit : \A w : Open(v, w) => UnitOK(w)'
      BY <2>2, UnitSame DEF CredentialInd, UnitsOK
    <3>4. UnitsOK'
      BY <2>2, <3>2, <3>3, SMTT(30) DEF CredentialInd, UnitsOK, Apart
    <3>. QED
      BY <3>1, <3>4 DEF CredentialInd
  <2>3. ASSUME NEW a \in ChangingAccount, ChangeAccount(a)
        PROVE  CredentialInd'
    BY <2>2, <2>3 DEF ChangeAccount, tables
  <2>4. CASE UNCHANGED vars
    BY <2>2, <2>4 DEF vars
  <2>. QED
    BY <2>1, <2>3, <2>4, <2>UseCaseInv, <2>ExecuteInv, <2>CommitInv DEF Next
<1> QED
  BY <1>CredentialInitInv, <1>CredentialNextInv, PTL DEF Spec

-----------------------------------------------------------------------------
(* The theorems *)

(* The tables and the open units of work keep their types, whatever the units
   interleave. *)
THEOREM CredentialTypesHold == Spec => []TypeOK
<1>1. CredentialInd => TypeOK
  <2>. SUFFICES ASSUME CredentialInd
                PROVE  TypeOK
    OBVIOUS
  <2>1. ASSUME NEW u \in Unit, unit[u] # NULL
        PROVE  /\ Len(unit[u].plan) <= 4
               /\ unit[u].events \subseteq CredentialEvent
               /\ \A id \in DOMAIN unit[u].rows : unit[u].rows[id] \in FareCredentialRow
    <3>1. PICK w : w = unit[u]
      OBVIOUS
    <3>2. UnitOK(w)
      BY <2>1, <3>1 DEF CredentialInd, UnitsOK, Open
    <3>. QED
      BY <3>1, <3>2 DEF UnitOK, PlanOK, WrittenOK
  <2>. QED
    BY <2>1 DEF CredentialInd, TablesOK, UnitsOK, TypeOK
<1>. QED
  BY <1>1, CredentialInvariant, PTL

(* find_fare_credential rebuilds every stored credential exactly as it was
   saved, whatever calls of the aggregate led to it. *)
THEOREM StoredCredentialLoadsHolds == Spec => []StoredCredentialLoads
<1>1. CredentialInd => StoredCredentialLoads
  BY LoadedIsStored DEF CredentialInd, StoredCredentialLoads
<1>. QED
  BY <1>1, CredentialInvariant, PTL

(* The event log of a credential that only the use cases change is exact: a unit
   of work commits a row of the next version and its one event together, and a
   unit that lost a race commits neither. *)
THEOREM EventLogExactHolds == Spec => []EventLogExact
<1>1. CredentialInd => EventLogExact
  <2>. SUFFICES ASSUME CredentialInd
                PROVE  EventLogExact
    OBVIOUS
  <2>1. \A id \in Credential \ DirectCredential : LogOK(id)
    BY DEF CredentialInd, TablesOK
  <2>2. \A id \in Credential \ DirectCredential : {e.version : e \in Log(id)} = 1..Last(id)
    BY <2>1, SMTT(30) DEF LogOK
  <2>. QED
    BY <2>1, <2>2 DEF EventLogExact, LogOK, Log, Last
<1>. QED
  BY <1>1, CredentialInvariant, PTL

(* A credential that the use case replaced has its one successor, of the same
   account, and the successors never lead back: replace_with and the insertion
   of the successor are committed together. *)
THEOREM SuccessorRecordedHolds == Spec => []SuccessorRecorded
<1>1. CredentialInd => SuccessorRecorded
  <2>. SUFFICES ASSUME CredentialInd
                PROVE  SuccessorRecorded
    OBVIOUS
  <2>. DEFINE replaced == {id \in Credential : IsReplaced(id)}
  <2>1. SuccessorsOK /\ TablesOK
    BY DEF CredentialInd, TablesOK
  <2>2. \A id \in Credential : credentials[id] # NULL => Loaded(id) = {credentials[id]}
    BY <2>1, LoadedIsStored
  <2>3. ASSUME NEW id \in replaced \ DirectCredential
        PROVE  RecordedSuccessor(id) = {Successor(id)}
    <3>1. Successor(id) \in Credential /\ Successor(id) # NULL
      BY <2>1, <2>3 DEF TablesOK, Valid, ValidLifecycleFields, FareCredential, Successor, IsReplaced
    <3>2. /\ credentials[id] # NULL /\ credentials[id].aggregate.status = "replaced"
          /\ credentials[Successor(id)] # NULL
          /\ credentials[Successor(id)].aggregate.account = credentials[id].aggregate.account
      BY <2>1, <2>3 DEF SuccessorsOK, IsReplaced
    <3>. QED
      BY <2>2, <3>1, <3>2 DEF RecordedSuccessor, Successor
  <2>4. \A id \in replaced : \A other \in replaced \ {id} : Successor(other) # Successor(id)
    BY <2>1 DEF SuccessorsOK
  <2>5. \A set \in SUBSET (replaced \ DirectCredential) :
          set # {} => \E id \in set : Successor(id) \notin set
    <3>1. replaced \ DirectCredential = {id \in Credential \ DirectCredential : IsReplaced(id)}
      OBVIOUS
    <3>. QED
      BY <2>1, <3>1 DEF SuccessorsOK
  <2>. QED
    BY <2>3, <2>4, <2>5 DEF SuccessorRecorded, IsReplaced, Successor
<1>. QED
  BY <1>1, CredentialInvariant, PTL

(* No step changes a revoked, expired or replaced credential, takes a version
   back or gives a credential to another account. *)
THEOREM TerminalCredentialForeverHolds == Spec => TerminalCredentialForever
<1>. DEFINE Kept == \A id \in Credential : credentials[id] # NULL =>
                      /\ credentials'[id].version >= credentials[id].version
                      /\ credentials'[id].aggregate.account = credentials[id].aggregate.account
                      /\ credentials[id].aggregate.status \in Terminal =>
                           credentials'[id].aggregate = credentials[id].aggregate
<1>1. ASSUME CredentialInd, [Next]_vars
      PROVE  Kept
  <2>1. \A id \in Credential : credentials[id] # NULL => credentials[id].version \in Nat
    BY <1>1, CredentialAssumption, SMTT(30) DEF CredentialInd, TablesOK, FareCredentialRow
  <2>2. CASE UNCHANGED credentials
    BY <2>1, <2>2, SMTT(30)
  <2>3. ASSUME NEW u \in Unit, Commit(u)
        PROVE  Kept
    <3>1. ASSUME NEW w, Commits(w)
          PROVE  Kept
      <4>. SUFFICES ASSUME NEW id \in Credential, credentials[id] # NULL
                    PROVE  /\ credentials'[id].version >= credentials[id].version
                           /\ credentials'[id].aggregate.account = credentials[id].aggregate.account
                           /\ credentials[id].aggregate.status \in Terminal =>
                                credentials'[id].aggregate = credentials[id].aggregate
        OBVIOUS
      <4>1. CASE id \in DOMAIN w.rows
        BY <1>1, <2>1, <3>1, <4>1, CommittedRow, SMTT(30) DEF CredentialInd, Last, ChangeOf
      <4>2. CASE id \notin DOMAIN w.rows
        BY <2>1, <3>1, <4>2, OtherRow, SMTT(30)
      <4>. QED
        BY <4>1, <4>2
    <3>. QED
      BY <1>1, <2>2, <2>3, <3>1, CommitKinds
  <2>4. ASSUME NEW u \in Unit, UseCase(u) \/ Execute(u) \/ Refuse(u) \/ Fail(u) \/ DetectDeadlock(u)
        PROVE  UNCHANGED credentials
    <3>1. CASE UseCase(u)
      BY <3>1 DEF UseCase, IssueFareCredential, ActivateFareCredential, SuspendFareCredential,
                  RevokeFareCredential, ReplaceFareCredential, SaveFareCredential, ChangeStatus,
                  Start, tables
    <3>2. CASE Execute(u) \/ Refuse(u) \/ Fail(u) \/ DetectDeadlock(u)
      BY <3>2 DEF Execute, Refuse, Fail, DetectDeadlock, tables
    <3>. QED
      BY <2>4, <3>1, <3>2
  <2>5. ASSUME NEW a \in ChangingAccount, ChangeAccount(a)
        PROVE  UNCHANGED credentials
    BY <2>5 DEF ChangeAccount, tables
  <2>6. CASE UNCHANGED vars
    BY <2>2, <2>6 DEF vars
  <2>. QED
    BY <1>1, <2>2, <2>3, <2>4, <2>5, <2>6 DEF Next
<1>2. CredentialInd /\ [Next]_vars => [Kept]_vars
  BY <1>1
<1>. QED
  BY <1>2, CredentialInvariant, PTL DEF Spec, TerminalCredentialForever

=============================================================================
