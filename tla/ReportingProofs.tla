-------------------------- MODULE ReportingProofs ---------------------------
(***************************************************************************)
(* What is counted: the counters of Telemetry, and the counts that the     *)
(* reader reports of its database (ReaderViews).  A snapshot adds up, a    *)
(* reader without pending work rests, and attempts are accounted for.      *)
(***************************************************************************)
EXTENDS ReaderViewsProofs, Telemetry, FiniteSetTheorems

(* Zenon proves the leaves that cite no other prover. *)
USE ZenonT(30)

-----------------------------------------------------------------------------
(* Induction on finite sets, and sums over them *)

(* Among finite sets there is one that no longer belongs to them when an
   element is taken away. *)
LEMMA LeastSet ==
    ASSUME NEW C, C # {}, \A s \in C : IsFiniteSet(s)
    PROVE  \E s \in C : \A x \in s : s \ {x} \notin C
<1>. DEFINE sizes == {Cardinality(s) : s \in C}
<1>1. sizes \subseteq Nat /\ sizes # {}
  BY FS_CardinalityType
<1>2. PICK n \in sizes : \A m \in sizes : ~(<<m, n>> \in OpToRel(<, Nat))
  BY <1>1, NatLessThanWellFounded, WFMin
<1>3. PICK s \in C : n = Cardinality(s)
  OBVIOUS
<1>4. ASSUME NEW x \in s, s \ {x} \in C
      PROVE  FALSE
  <2>1. Cardinality(s \ {x}) = n - 1 /\ n \in Nat /\ n - 1 \in Nat
    <3>1. Cardinality(s \ {x}) = n - 1
      BY <1>3, FS_RemoveElement
    <3>2. Cardinality(s \ {x}) \in Nat /\ n \in Nat
      BY <1>3, <1>4, FS_CardinalityType
    <3>. QED
      BY <3>1, <3>2
  <2>2. Cardinality(s \ {x}) \in sizes
    BY <1>4
  <2>3. n - 1 \in sizes /\ n - 1 < n
    BY <2>1, <2>2, SMTT(30)
  <2>. QED
    BY <1>2, <2>1, <2>3 DEF OpToRel
<1>. QED
  BY <1>4

-----------------------------------------------------------------------------
(* Sums *)

First(s) == CHOOSE x \in s : TRUE

AddFirst(f, g, s) == IF s = {} THEN 0 ELSE f[First(s)] + g[s \ {First(s)}]

(* g is the sum of f on each of the subsets of S. *)
IsSum(f, S, g) == g = [s \in SUBSET S |-> AddFirst(f, g, s)]

LEMMA FirstMember ==
    ASSUME NEW s, s # {}
    PROVE  First(s) \in s
  BY DEF First

LEMMA SumExists ==
    ASSUME NEW S, IsFiniteSet(S), NEW f
    PROVE  \E g : IsSum(f, S, g)
<1>. DEFINE Partial(n, g) == g = [s \in {u \in SUBSET S : Cardinality(u) <= n} |-> AddFirst(f, g, s)]
            missing == {n \in Nat : \A g : ~Partial(n, g)}
<1>0. \A s \in SUBSET S : IsFiniteSet(s) /\ Cardinality(s) \in Nat
  BY FS_Subset, FS_CardinalityType
<1>1. \E g : Partial(0, g)
  <2>1. ASSUME NEW s \in SUBSET S, Cardinality(s) <= 0
        PROVE  s = {}
    BY <1>0, <2>1, FS_EmptySet, SMTT(30)
  <2>2. PICK g : g = [s \in {u \in SUBSET S : Cardinality(u) <= 0} |-> 0]
    OBVIOUS
  <2>3. Partial(0, g)
    BY <2>1, <2>2 DEF AddFirst
  <2>. QED
    BY <2>3
<1>2. ASSUME NEW n \in Nat, NEW g, Partial(n, g)
      PROVE  \E h : Partial(n + 1, h)
  <2>1. PICK h : h = [s \in {u \in SUBSET S : Cardinality(u) <= n + 1} |-> AddFirst(f, g, s)]
    OBVIOUS
  <2>2. ASSUME NEW s \in SUBSET S, Cardinality(s) <= n
        PROVE  h[s] = g[s]
    <3>1. Cardinality(s) <= n + 1
      BY <1>0, <2>2, SMTT(30)
    <3>2. h[s] = AddFirst(f, g, s)
      BY <2>1, <3>1
    <3>3. g[s] = AddFirst(f, g, s)
      BY <1>2, <2>2
    <3>. QED
      BY <3>2, <3>3
  <2>3. ASSUME NEW s \in SUBSET S, Cardinality(s) <= n + 1
        PROVE  AddFirst(f, g, s) = AddFirst(f, h, s)
    <3>1. CASE s = {}
      BY <3>1 DEF AddFirst
    <3>2. CASE s # {}
      <4>1. PICK x : x = First(s)
        OBVIOUS
      <4>2. x \in s
        BY <3>2, <4>1, FirstMember
      <4>3. s \ {x} \in SUBSET S /\ Cardinality(s \ {x}) = Cardinality(s) - 1
        BY <1>0, <4>2, FS_RemoveElement
      <4>4. Cardinality(s \ {x}) <= n
        BY <1>0, <2>3, <4>3, SMTT(30)
      <4>. QED
        BY <2>2, <3>2, <4>1, <4>3, <4>4 DEF AddFirst
    <3>. QED
      BY <3>1, <3>2
  <2>4. Partial(n + 1, h)
    BY <2>1, <2>3
  <2>. QED
    BY <2>4
<1>3. missing = {}
  <2>. SUFFICES ASSUME missing # {} PROVE FALSE
    OBVIOUS
  <2>1. PICK n \in missing : \A m \in missing : ~(<<m, n>> \in OpToRel(<, Nat))
    BY NatLessThanWellFounded, WFMin
  <2>2. n \in Nat /\ n # 0
    BY <1>1
  <2>3. n - 1 \in Nat /\ n - 1 < n /\ (n - 1) + 1 = n
    BY <2>2, SMTT(30)
  <2>4. n - 1 \notin missing
    BY <2>1, <2>2, <2>3 DEF OpToRel
  <2>5. PICK g : Partial(n - 1, g)
    BY <2>3, <2>4
  <2>6. \E h : Partial((n - 1) + 1, h)
    BY <1>2, <2>3, <2>5
  <2>7. \E h : Partial(n, h)
    BY <2>3, <2>6
  <2>. QED
    BY <2>7
<1>4. Cardinality(S) \in Nat
  BY FS_CardinalityType
<1>5. PICK g : Partial(Cardinality(S), g)
  <2>. HIDE DEF Partial
  <2>. QED
    BY <1>3, <1>4
<1>6. {u \in SUBSET S : Cardinality(u) <= Cardinality(S)} = SUBSET S
  BY FS_Subset
<1>. QED
  BY <1>5, <1>6 DEF IsSum

LEMMA SumDefined ==
    ASSUME NEW S, IsFiniteSet(S), NEW f
    PROVE  \E g : IsSum(f, S, g) /\ SumFunctionOnSet(f, S) = g[S]
<1>1. PICK g : g = CHOOSE h : IsSum(f, S, h)
  OBVIOUS
<1>2. IsSum(f, S, g)
  BY <1>1, SumExists
<1>3. SumFunctionOnSet(f, S) = g[S]
  BY <1>1 DEF SumFunctionOnSet, FoldFunctionOnSet, MapThenFoldSet, IsSum, AddFirst, First
<1>. QED
  BY <1>2, <1>3

(* The sums of two sets agree on what the sets share. *)
LEMMA SumsAgree ==
    ASSUME NEW S, IsFiniteSet(S), NEW T, NEW f, NEW g, IsSum(f, S, g), NEW h, IsSum(f, T, h),
           NEW u \in (SUBSET S) \cap (SUBSET T)
    PROVE  g[u] = h[u]
<1>. DEFINE C == {s \in (SUBSET S) \cap (SUBSET T) : g[s] # h[s]}
<1>. SUFFICES ASSUME C # {} PROVE FALSE
  OBVIOUS
<1>1. \A s \in C : IsFiniteSet(s)
  BY FS_Subset
<1>2. PICK s \in C : \A x \in s : s \ {x} \notin C
  <2>. HIDE DEF C
  <2>. QED
    BY <1>1, LeastSet
<1>3. g[s] = AddFirst(f, g, s) /\ h[s] = AddFirst(f, h, s)
  BY DEF IsSum
<1>4. CASE s = {}
  BY <1>3, <1>4 DEF AddFirst
<1>5. CASE s # {}
  <2>1. PICK x : x = First(s)
    OBVIOUS
  <2>2. x \in s
    BY <1>5, <2>1, FirstMember
  <2>3. g[s \ {x}] = h[s \ {x}]
    BY <1>2, <2>2
  <2>. QED
    BY <1>3, <1>5, <2>1, <2>3 DEF AddFirst
<1>. QED
  BY <1>4, <1>5

LEMMA SumOfNone ==
    ASSUME NEW f
    PROVE  SumFunctionOnSet(f, {}) = 0
<1>1. PICK g : IsSum(f, {}, g) /\ SumFunctionOnSet(f, {}) = g[{}]
  BY SumDefined, FS_EmptySet
<1>2. g[{}] = AddFirst(f, g, {})
  BY <1>1 DEF IsSum
<1>. QED
  BY <1>1, <1>2 DEF AddFirst

LEMMA SumFirst ==
    ASSUME NEW S, IsFiniteSet(S), S # {}, NEW f
    PROVE  /\ First(S) \in S
           /\ SumFunctionOnSet(f, S) = f[First(S)] + SumFunctionOnSet(f, S \ {First(S)})
<1>1. PICK x : x = First(S)
  OBVIOUS
<1>2. x \in S
  BY <1>1, FirstMember
<1>3. IsFiniteSet(S \ {x})
  BY FS_Subset
<1>4. PICK g : IsSum(f, S, g) /\ SumFunctionOnSet(f, S) = g[S]
  BY SumDefined
<1>5. PICK h : IsSum(f, S \ {x}, h) /\ SumFunctionOnSet(f, S \ {x}) = h[S \ {x}]
  BY <1>3, SumDefined
<1>6. g[S \ {x}] = h[S \ {x}]
  BY <1>4, <1>5, SumsAgree, SMTT(30)
<1>7. g[S] = AddFirst(f, g, S)
  BY <1>4 DEF IsSum
<1>8. g[S] = f[x] + g[S \ {x}]
  BY <1>1, <1>7 DEF AddFirst
<1>. QED
  BY <1>1, <1>2, <1>4, <1>5, <1>6, <1>8

LEMMA SumNat ==
    ASSUME NEW S, IsFiniteSet(S), NEW f, \A x \in S : f[x] \in Nat
    PROVE  SumFunctionOnSet(f, S) \in Nat
<1>. DEFINE C == {s \in SUBSET S : SumFunctionOnSet(f, s) \notin Nat}
<1>. SUFFICES ASSUME C # {} PROVE FALSE
  OBVIOUS
<1>1. \A s \in C : IsFiniteSet(s)
  BY FS_Subset
<1>2. PICK s \in C : \A x \in s : s \ {x} \notin C
  <2>. HIDE DEF C
  <2>. QED
    BY <1>1, LeastSet
<1>3. s # {}
  BY SumOfNone, SMTT(30)
<1>4. PICK x \in s : SumFunctionOnSet(f, s) = f[x] + SumFunctionOnSet(f, s \ {x})
  BY <1>1, <1>3, SumFirst
<1>5. SumFunctionOnSet(f, s \ {x}) \in Nat /\ f[x] \in Nat
  BY <1>2
<1>. QED
  BY <1>4, <1>5, SMTT(30)

(* Any element can be taken out of a sum. *)
LEMMA SumRemove ==
    ASSUME NEW S, IsFiniteSet(S), NEW f, \A x \in S : f[x] \in Nat, NEW x \in S
    PROVE  SumFunctionOnSet(f, S) = f[x] + SumFunctionOnSet(f, S \ {x})
<1>. DEFINE C == {s \in SUBSET S : \E y \in s : SumFunctionOnSet(f, s)
                                             # f[y] + SumFunctionOnSet(f, s \ {y})}
<1>. SUFFICES ASSUME C # {} PROVE FALSE
  OBVIOUS
<1>1. \A s \in C : IsFiniteSet(s)
  BY FS_Subset
<1>2. PICK s \in C : \A y \in s : s \ {y} \notin C
  <2>. HIDE DEF C
  <2>. QED
    BY <1>1, LeastSet
<1>3. PICK y \in s : SumFunctionOnSet(f, s) # f[y] + SumFunctionOnSet(f, s \ {y})
  OBVIOUS
<1>4. PICK z \in s : SumFunctionOnSet(f, s) = f[z] + SumFunctionOnSet(f, s \ {z})
  BY <1>1, <1>3, SumFirst
<1>5. y # z /\ y \in s \ {z} /\ z \in s \ {y}
  BY <1>3, <1>4
<1>6. SumFunctionOnSet(f, s \ {z}) = f[y] + SumFunctionOnSet(f, (s \ {z}) \ {y})
  BY <1>2, <1>5
<1>7. SumFunctionOnSet(f, s \ {y}) = f[z] + SumFunctionOnSet(f, (s \ {y}) \ {z})
  BY <1>2, <1>5
<1>8. (s \ {y}) \ {z} = (s \ {z}) \ {y}
  OBVIOUS
<1>9. SumFunctionOnSet(f, (s \ {z}) \ {y}) \in Nat
  <2>1. (s \ {z}) \ {y} \subseteq S /\ IsFiniteSet((s \ {z}) \ {y})
    BY FS_Subset
  <2>. QED
    BY <2>1, SumNat
<1>10. f[y] \in Nat /\ f[z] \in Nat
  OBVIOUS
<1>. QED
  BY <1>3, <1>4, <1>6, <1>7, <1>8, <1>9, <1>10, SMTT(30)

LEMMA SumSame ==
    ASSUME NEW S, IsFiniteSet(S), NEW f, NEW g, \A x \in S : f[x] = g[x]
    PROVE  SumFunctionOnSet(f, S) = SumFunctionOnSet(g, S)
<1>. DEFINE C == {s \in SUBSET S : SumFunctionOnSet(f, s) # SumFunctionOnSet(g, s)}
<1>. SUFFICES ASSUME C # {} PROVE FALSE
  OBVIOUS
<1>1. \A s \in C : IsFiniteSet(s)
  BY FS_Subset
<1>2. PICK s \in C : \A x \in s : s \ {x} \notin C
  <2>. HIDE DEF C
  <2>. QED
    BY <1>1, LeastSet
<1>3. s # {}
  BY SumOfNone
<1>4. PICK x : x = First(s)
  OBVIOUS
<1>5. /\ x \in s
      /\ SumFunctionOnSet(f, s) = f[x] + SumFunctionOnSet(f, s \ {x})
      /\ SumFunctionOnSet(g, s) = g[x] + SumFunctionOnSet(g, s \ {x})
  BY <1>1, <1>3, <1>4, SumFirst
<1>6. SumFunctionOnSet(f, s \ {x}) = SumFunctionOnSet(g, s \ {x}) /\ f[x] = g[x]
  BY <1>2, <1>5
<1>. QED
  BY <1>5, <1>6

(* A sum with one value changed. *)
LEMMA SumChange ==
    ASSUME NEW S, IsFiniteSet(S), NEW f, NEW g, NEW x \in S,
           \A y \in S : f[y] \in Nat /\ g[y] \in Nat,
           \A y \in S \ {x} : f[y] = g[y]
    PROVE  SumFunctionOnSet(g, S) = SumFunctionOnSet(f, S) - f[x] + g[x]
<1>1. IsFiniteSet(S \ {x})
  BY FS_Subset
<1>2. SumFunctionOnSet(f, S \ {x}) = SumFunctionOnSet(g, S \ {x})
  BY <1>1, SumSame
<1>3. SumFunctionOnSet(f, S) = f[x] + SumFunctionOnSet(f, S \ {x})
  BY SumRemove
<1>4. SumFunctionOnSet(g, S) = g[x] + SumFunctionOnSet(g, S \ {x})
  BY SumRemove
<1>5. SumFunctionOnSet(f, S \ {x}) \in Nat
  BY <1>1, SumNat
<1>. QED
  BY <1>2, <1>3, <1>4, <1>5, SMTT(30)

LEMMA SumPlus ==
    ASSUME NEW S, IsFiniteSet(S), NEW f, NEW g, NEW h,
           \A x \in S : f[x] \in Nat /\ g[x] \in Nat /\ h[x] = f[x] + g[x]
    PROVE  SumFunctionOnSet(h, S) = SumFunctionOnSet(f, S) + SumFunctionOnSet(g, S)
<1>. DEFINE C == {s \in SUBSET S : SumFunctionOnSet(h, s)
                                      # SumFunctionOnSet(f, s) + SumFunctionOnSet(g, s)}
<1>. SUFFICES ASSUME C # {} PROVE FALSE
  OBVIOUS
<1>1. \A s \in C : IsFiniteSet(s)
  BY FS_Subset
<1>2. PICK s \in C : \A x \in s : s \ {x} \notin C
  <2>. HIDE DEF C
  <2>. QED
    BY <1>1, LeastSet
<1>3. s # {}
  <2>1. SumFunctionOnSet(f, {}) = 0 /\ SumFunctionOnSet(g, {}) = 0 /\ SumFunctionOnSet(h, {}) = 0
    BY SumOfNone
  <2>2. {} \notin C
    BY <2>1, SMTT(30)
  <2>. QED
    BY <2>2
<1>4. PICK x : x = First(s)
  OBVIOUS
<1>5. /\ x \in s
      /\ SumFunctionOnSet(f, s) = f[x] + SumFunctionOnSet(f, s \ {x})
      /\ SumFunctionOnSet(g, s) = g[x] + SumFunctionOnSet(g, s \ {x})
      /\ SumFunctionOnSet(h, s) = h[x] + SumFunctionOnSet(h, s \ {x})
  BY <1>1, <1>3, <1>4, SumFirst
<1>6. SumFunctionOnSet(h, s \ {x}) = SumFunctionOnSet(f, s \ {x}) + SumFunctionOnSet(g, s \ {x})
  BY <1>2, <1>5
<1>7. SumFunctionOnSet(f, s \ {x}) \in Nat /\ SumFunctionOnSet(g, s \ {x}) \in Nat
  <2>1. s \ {x} \subseteq S /\ IsFiniteSet(s \ {x})
    BY FS_Subset
  <2>. QED
    BY <2>1, SumNat
<1>8. f[x] \in Nat /\ g[x] \in Nat /\ h[x] = f[x] + g[x]
  BY <1>5
<1>. QED
  BY <1>5, <1>6, <1>7, <1>8, SMTT(30)

(* A sum of zeros. *)
LEMMA SumZero ==
    ASSUME NEW S, IsFiniteSet(S), NEW f, \A x \in S : f[x] = 0
    PROVE  SumFunctionOnSet(f, S) = 0
<1>1. SumFunctionOnSet(f, S) \in Nat
  BY SumNat, SMTT(30)
<1>2. SumFunctionOnSet(f, S) = SumFunctionOnSet(f, S) + SumFunctionOnSet(f, S)
  BY SumPlus, SMTT(30)
<1>3. PICK n \in Nat : n = SumFunctionOnSet(f, S)
  BY <1>1
<1>4. n = n + n
  BY <1>2, <1>3
<1>5. n = 0
  BY <1>4, SMTT(30)
<1>. QED
  BY <1>3, <1>5

-----------------------------------------------------------------------------
(* Telemetry *)

(* The argument: counters only grow, so that every value a health request has
   loaded lies between the counter when the request began and the counter now. *)

(* What the health request m has loaded so far. *)
LoadedWithin(m) ==
    loading[m] # NULL =>
      /\ before[m] \in [Counter -> Nat] /\ \A c \in Counter : before[m][c] <= counters[c]
      /\ DOMAIN loading[m] \subseteq Counter
      /\ \A c \in DOMAIN loading[m] :
           /\ loading[m][c] \in Nat
           /\ before[m][c] <= loading[m][c] /\ loading[m][c] <= counters[c]

TelemetryInv ==
    /\ counters \in [Counter -> Nat]
    /\ DOMAIN loading = Monitor /\ DOMAIN before = Monitor
    /\ \A m \in Monitor : LoadedWithin(m)

LEMMA TelemetryStep ==
    ASSUME TelemetryInv, [TelemetryNext]_telemetryVars
    PROVE  TelemetryInv'
<1>0. \A c \in Counter : counters[c] \in Nat
  BY DEF TelemetryInv
<1>1. ASSUME UNCHANGED <<counters, loading, before>>
      PROVE  TelemetryInv'
  BY <1>1 DEF TelemetryInv, LoadedWithin
<1>2. ASSUME NEW h \in Handler,
             StartRequest(h) \/ AcknowledgeRequest(h) \/ FailRequest(h) \/ DropRequest(h)
      PROVE  UNCHANGED <<counters, loading, before>>
  BY <1>2 DEF StartRequest, AcknowledgeRequest, FailRequest, DropRequest, Issue, snapshotVars
<1>3. ASSUME NEW h \in Handler, NEW c \in Counter, Increment(h, c)
      PROVE  TelemetryInv'
  <2>1. /\ counters' \in [Counter -> Nat] /\ \A d \in Counter : counters[d] <= counters'[d]
        /\ loading' = loading /\ before' = before
    BY <1>3, SMTT(30) DEF TelemetryInv, Increment, snapshotVars
  <2>2. ASSUME NEW m \in Monitor
        PROVE  LoadedWithin(m)'
    <3>1. LoadedWithin(m)
      BY DEF TelemetryInv
    <3>. QED
      BY <1>0, <2>1, <3>1, SMTT(30) DEF LoadedWithin
  <2>. QED
    BY <2>1, <2>2 DEF TelemetryInv
(* A step of one health request leaves the others as they are. *)
<1>4. ASSUME NEW m \in Monitor, counters' = counters,
             DOMAIN loading' = Monitor, DOMAIN before' = Monitor,
             \A n \in Monitor \ {m} : loading'[n] = loading[n] /\ before'[n] = before[n],
             LoadedWithin(m)'
      PROVE  TelemetryInv'
  <2>1. ASSUME NEW n \in Monitor \ {m}
        PROVE  LoadedWithin(n)'
    BY <1>4, <2>1 DEF TelemetryInv, LoadedWithin
  <2>. QED
    BY <1>4, <2>1 DEF TelemetryInv
<1>5. ASSUME NEW m \in Monitor, BeginSnapshot(m)
      PROVE  TelemetryInv'
  <2>1. /\ loading' = [loading EXCEPT ![m] = Empty] /\ before' = [before EXCEPT ![m] = counters]
        /\ counters' = counters
    BY <1>5 DEF BeginSnapshot
  <2>2. loading'[m] = Empty /\ DOMAIN Empty = {} /\ before'[m] = counters
    BY <2>1 DEF TelemetryInv, Empty
  <2>3. LoadedWithin(m)'
    BY <1>0, <2>1, <2>2, SMTT(30) DEF TelemetryInv, LoadedWithin
  <2>. QED
    BY <1>4, <2>1, <2>3 DEF TelemetryInv
<1>6. ASSUME NEW m \in Monitor, NEW c \in Counter, Load(m, c)
      PROVE  TelemetryInv'
  <2>. DEFINE f == [d \in DOMAIN loading[m] \cup {c} |-> IF d = c THEN counters[c] ELSE loading[m][d]]
  <2>1. /\ loading[m] # NULL /\ counters' = counters /\ before' = before
        /\ loading' = [loading EXCEPT ![m] = f]
    BY <1>6 DEF Load, Loaded
  <2>2. /\ DOMAIN f = DOMAIN loading[m] \cup {c} /\ f[c] = counters[c]
        /\ \A d \in DOMAIN loading[m] : d # c => f[d] = loading[m][d]
    OBVIOUS
  <2>. HIDE DEF f
  <2>3. loading'[m] = f /\ before'[m] = before[m]
    BY <2>1 DEF TelemetryInv
  <2>4. LoadedWithin(m)
    BY DEF TelemetryInv
  <2>5. LoadedWithin(m)'
    BY <1>0, <2>1, <2>2, <2>3, <2>4, SMTT(30) DEF LoadedWithin
  <2>. QED
    BY <1>4, <2>1, <2>5 DEF TelemetryInv
<1>7. ASSUME NEW m \in Monitor, EndSnapshot(m)
      PROVE  TelemetryInv'
  <2>1. /\ loading' = [loading EXCEPT ![m] = NULL] /\ before' = [before EXCEPT ![m] = NULL]
        /\ counters' = counters
    BY <1>7 DEF EndSnapshot
  <2>2. LoadedWithin(m)'
    BY <2>1 DEF TelemetryInv, LoadedWithin
  <2>. QED
    BY <1>4, <2>1, <2>2 DEF TelemetryInv
<1>8. CASE UNCHANGED telemetryVars
  BY <1>1, <1>8 DEF telemetryVars, snapshotVars
<1>. QED
  BY <1>1, <1>2, <1>3, <1>5, <1>6, <1>7, <1>8 DEF TelemetryNext

LEMMA TelemetryInvariant == TelemetrySpec => []TelemetryInv
<1>1. TelemetryInit => TelemetryInv
  BY SMTT(30) DEF TelemetryInit, TelemetryInv, LoadedWithin, Zeros
<1>2. TelemetryInv /\ [TelemetryNext]_telemetryVars => TelemetryInv'
  BY TelemetryStep
<1>. QED
  BY <1>1, <1>2, PTL DEF TelemetrySpec

(* The argument: what was recorded is what the counters show and what the
   handlers have yet to increment, and each recording keeps the totals equal to
   the sums of their details. *)
PendingOf(p, c) == [h \in Handler |-> p[h][c]]

Processing == {h \in Handler : handler[h] = "processing"}

RecordingType ==
    /\ counters \in [Counter -> Nat] /\ recorded \in [Counter -> Nat]
    /\ handler \in [Handler -> {"idle", "processing"}]
    /\ pending \in [Handler -> [Counter -> Nat]]

Accounted ==
    \A c \in Counter :
      recorded[c] = counters[c] + SumFunctionOnSet(PendingOf(pending, c), Handler)

DetailsAddUp(f) ==
    /\ f["entries"] = SumFunctionOnSet(f, Outcome)
    /\ f["request_failures"] = SumFunctionOnSet(f, Category)

AnswersBounded ==
    recorded["acknowledgements"] + recorded["request_failures"] + Cardinality(Processing)
      <= recorded["requests"]

RecordingInv == RecordingType /\ Accounted /\ DetailsAddUp(recorded) /\ AnswersBounded

LEMMA CounterNames ==
    /\ {"requests", "acknowledgements", "entries", "request_failures"} \subseteq Counter
    /\ Outcome \subseteq Counter /\ Category \subseteq Counter
  BY DEF Counter, Totals

LEMMA IssueAccounted ==
    ASSUME RecordingType, Accounted, NEW h \in Handler, NEW inc \in [Counter -> Nat], Issue(h, inc)
    PROVE  /\ pending' \in [Handler -> [Counter -> Nat]] /\ recorded' \in [Counter -> Nat]
           /\ Accounted'
<1>1. /\ pending' = [pending EXCEPT ![h] = Plus(pending[h], inc)]
      /\ recorded' = Plus(recorded, inc) /\ counters' = counters
  BY DEF Issue
<1>2. pending[h] \in [Counter -> Nat] /\ recorded \in [Counter -> Nat]
  BY DEF RecordingType
<1>3. Plus(pending[h], inc) \in [Counter -> Nat] /\ Plus(recorded, inc) \in [Counter -> Nat]
  BY <1>2, SMTT(30) DEF Plus
<1>4. pending' \in [Handler -> [Counter -> Nat]] /\ recorded' \in [Counter -> Nat]
  BY <1>1, <1>3 DEF RecordingType
<1>5. ASSUME NEW c \in Counter
      PROVE  recorded'[c] = counters'[c] + SumFunctionOnSet(PendingOf(pending', c), Handler)
  <2>. DEFINE f == PendingOf(pending, c)
              g == PendingOf(pending', c)
  <2>1. \A k \in Handler : f[k] \in Nat /\ g[k] \in Nat
    BY <1>4 DEF PendingOf, RecordingType
  <2>2. \A k \in Handler \ {h} : f[k] = g[k]
    BY <1>1 DEF PendingOf, RecordingType
  <2>3. g[h] = f[h] + inc[c]
    BY <1>1 DEF PendingOf, RecordingType, Plus
  <2>4. recorded'[c] = recorded[c] + inc[c]
    BY <1>1 DEF Plus
  <2>5. recorded[c] = counters[c] + SumFunctionOnSet(f, Handler)
    BY DEF Accounted
  <2>. HIDE DEF f, g
  <2>6. SumFunctionOnSet(g, Handler) = SumFunctionOnSet(f, Handler) - f[h] + g[h]
    BY <2>1, <2>2, SumChange, TelemetryAssumption, SMTT(30)
  <2>7. SumFunctionOnSet(f, Handler) \in Nat
    BY <2>1, SumNat, TelemetryAssumption
  <2>8. counters[c] \in Nat /\ inc[c] \in Nat /\ f[h] \in Nat
    BY <2>1 DEF RecordingType
  <2>9. recorded'[c] = counters[c] + SumFunctionOnSet(g, Handler)
    BY <2>3, <2>4, <2>5, <2>6, <2>7, <2>8, SMTT(30)
  <2>. QED
    BY <1>1, <2>9 DEF g
<1>. QED
  BY <1>4, <1>5 DEF Accounted

LEMMA IssueDetails ==
    ASSUME RecordingType, DetailsAddUp(recorded), NEW h \in Handler,
           NEW inc \in [Counter -> Nat], DetailsAddUp(inc), Issue(h, inc)
    PROVE  DetailsAddUp(recorded')
<1>1. \A c \in Counter : /\ recorded'[c] = recorded[c] + inc[c]
                         /\ recorded[c] \in Nat /\ inc[c] \in Nat
  BY DEF RecordingType, Issue, Plus
<1>2. SumFunctionOnSet(recorded', Outcome) = SumFunctionOnSet(recorded, Outcome) + SumFunctionOnSet(inc, Outcome)
  BY <1>1, SumPlus, CounterNames, TelemetryAssumption, SMTT(30)
<1>3. SumFunctionOnSet(recorded', Category) = SumFunctionOnSet(recorded, Category) + SumFunctionOnSet(inc, Category)
  BY <1>1, SumPlus, CounterNames, TelemetryAssumption, SMTT(30)
<1>4. /\ recorded'["entries"] = recorded["entries"] + inc["entries"]
      /\ recorded'["request_failures"] = recorded["request_failures"] + inc["request_failures"]
  BY <1>1, CounterNames
<1>. QED
  BY <1>2, <1>3, <1>4 DEF DetailsAddUp

LEMMA SingleFacts ==
    ASSUME NEW c \in Counter
    PROVE  Single(c) \in [Counter -> Nat] /\ \A d \in Counter : Single(c)[d] = IF d = c THEN 1 ELSE 0
  BY DEF Single, Zeros

LEMMA ProcessingCount ==
    ASSUME RecordingType, NEW h \in Handler, NEW state \in {"idle", "processing"},
           handler[h] # state, handler' = [handler EXCEPT ![h] = state]
    PROVE  /\ handler' \in [Handler -> {"idle", "processing"}]
           /\ Cardinality(Processing) \in Nat
           /\ Cardinality(Processing') =
                Cardinality(Processing) + (IF state = "processing" THEN 1 ELSE -1)
<1>1. IsFiniteSet(Processing) /\ Cardinality(Processing) \in Nat
  <2>1. IsFiniteSet(Processing)
    BY FS_Subset, TelemetryAssumption DEF Processing
  <2>. QED
    BY <2>1, FS_CardinalityType
<1>2. handler' \in [Handler -> {"idle", "processing"}]
  BY DEF RecordingType
<1>3. CASE state = "processing"
  <2>1. Processing' = Processing \cup {h} /\ h \notin Processing
    BY <1>3 DEF RecordingType, Processing
  <2>. QED
    BY <1>1, <1>2, <1>3, <2>1, FS_AddElement
<1>4. CASE state = "idle"
  <2>1. Processing' = Processing \ {h} /\ h \in Processing
    BY <1>4 DEF RecordingType, Processing
  <2>2. Cardinality(Processing \ {h}) = Cardinality(Processing) - 1
    BY <1>1, <2>1, FS_RemoveElement
  <2>. QED
    BY <1>1, <1>2, <1>4, <2>1, <2>2
<1>. QED
  BY <1>3, <1>4

LEMMA RecordingInvariant == TelemetrySpec => []RecordingInv
<1>RecordingStep. ASSUME RecordingInv, [TelemetryNext]_telemetryVars
                  PROVE  RecordingInv'
  <2>. USE <1>RecordingStep
  <2>StartedDetails. /\ RequestStarted \in [Counter -> Nat] /\ DetailsAddUp(RequestStarted)
                     /\ RequestStarted["requests"] = 1 /\ RequestStarted["acknowledgements"] = 0
                     /\ RequestStarted["request_failures"] = 0
    <3>. DEFINE r == RequestStarted
    <3>1. r \in [Counter -> Nat] /\ \A d \in Counter : r[d] = IF d = "requests" THEN 1 ELSE 0
      BY SingleFacts, CounterNames DEF RequestStarted
    <3>2. \A d \in Outcome \cup Category : r[d] = 0
      BY <3>1, CounterNames, TelemetryAssumption
    <3>3. r["requests"] = 1 /\ r["acknowledgements"] = 0 /\ r["entries"] = 0 /\ r["request_failures"] = 0
      BY <3>1, CounterNames
    <3>. HIDE DEF r
    <3>4. SumFunctionOnSet(r, Outcome) = 0 /\ SumFunctionOnSet(r, Category) = 0
      BY <3>2, SumZero, TelemetryAssumption
    <3>5. DetailsAddUp(r)
      BY <3>3, <3>4 DEF DetailsAddUp
    <3>. QED
      BY <3>1, <3>3, <3>5 DEF r
  <2>AcknowledgementDetails. ASSUME NEW entries \in [Outcome -> 0..MaxEntries]
                             PROVE  /\ Acknowledgement(entries) \in [Counter -> Nat] /\ DetailsAddUp(Acknowledgement(entries))
                                    /\ Acknowledgement(entries)["requests"] = 0
                                    /\ Acknowledgement(entries)["acknowledgements"] = 1
                                    /\ Acknowledgement(entries)["request_failures"] = 0
    <3>. USE <2>AcknowledgementDetails
    <3>. DEFINE r == Acknowledgement(entries)
    <3>0. \A o \in Outcome : entries[o] \in Nat
      BY TelemetryAssumption, SMTT(30)
    <3>1. SumFunctionOnSet(entries, Outcome) \in Nat
      BY <3>0, SumNat, TelemetryAssumption
    <3>2. /\ r["acknowledgements"] = 1 /\ r["entries"] = SumFunctionOnSet(entries, Outcome)
          /\ r["requests"] = 0 /\ r["request_failures"] = 0
      BY CounterNames, TelemetryAssumption DEF Acknowledgement
    <3>3. (\A o \in Outcome : r[o] = entries[o]) /\ (\A c \in Category : r[c] = 0)
      BY CounterNames, TelemetryAssumption DEF Acknowledgement
    <3>4. DOMAIN r = Counter /\ r = [c \in Counter |-> r[c]]
      BY SMTT(30) DEF Acknowledgement
    <3>. HIDE DEF r
    <3>5. r \in [Counter -> Nat]
      <4>1. \A c \in Counter : r[c] \in Nat
        BY <3>0, <3>1, <3>2, <3>3, SMTT(30) DEF Counter, Totals
      <4>. QED
        BY <3>4, <4>1
    <3>6. SumFunctionOnSet(r, Outcome) = SumFunctionOnSet(entries, Outcome)
      BY <3>3, SumSame, TelemetryAssumption
    <3>7. SumFunctionOnSet(r, Category) = 0
      BY <3>3, SumZero, TelemetryAssumption
    <3>8. DetailsAddUp(r)
      BY <3>2, <3>6, <3>7 DEF DetailsAddUp
    <3>. QED
      BY <3>2, <3>5, <3>8 DEF r
  <2>FailureDetails. ASSUME NEW category \in Category
                     PROVE  /\ RequestFailure(category) \in [Counter -> Nat] /\ DetailsAddUp(RequestFailure(category))
                            /\ RequestFailure(category)["requests"] = 0
                            /\ RequestFailure(category)["acknowledgements"] = 0
                            /\ RequestFailure(category)["request_failures"] = 1
    <3>. USE <2>FailureDetails
    <3>. DEFINE r == RequestFailure(category)
    <3>0. category \in Counter /\ category # "request_failures" /\ category # "requests"
          /\ category # "entries" /\ category # "acknowledgements" /\ category \notin Outcome
      BY CounterNames, TelemetryAssumption
    <3>1. /\ r \in [Counter -> Nat]
          /\ \A d \in Counter : r[d] = IF d = category \/ d = "request_failures" THEN 1 ELSE 0
      <4>1. \A d \in Counter : r[d] = Single("request_failures")[d] + Single(category)[d]
        BY DEF RequestFailure, Plus
      <4>2. \A d \in Counter : r[d] = IF d = category \/ d = "request_failures" THEN 1 ELSE 0
        BY <3>0, <4>1, SingleFacts, CounterNames, SMTT(30)
      <4>3. r = [d \in Counter |-> r[d]]
        BY DEF RequestFailure, Plus
      <4>. QED
        BY <4>2, <4>3, SMTT(30)
    <3>2. /\ r["requests"] = 0 /\ r["acknowledgements"] = 0 /\ r["entries"] = 0
          /\ r["request_failures"] = 1 /\ r[category] = 1
      BY <3>0, <3>1, CounterNames
    <3>3. (\A d \in Outcome : r[d] = 0) /\ (\A d \in Category \ {category} : r[d] = 0)
          /\ (\A d \in Category : r[d] \in Nat)
      BY <3>0, <3>1, CounterNames, TelemetryAssumption
    <3>. HIDE DEF r
    <3>4. SumFunctionOnSet(r, Outcome) = 0
      BY <3>3, SumZero, TelemetryAssumption
    <3>5. SumFunctionOnSet(r, Category) = 1
      <4>1. IsFiniteSet(Category) /\ IsFiniteSet(Category \ {category})
        BY FS_Subset, TelemetryAssumption
      <4>2. SumFunctionOnSet(r, Category \ {category}) = 0
        BY <3>3, <4>1, SumZero
      <4>3. SumFunctionOnSet(r, Category) = r[category] + SumFunctionOnSet(r, Category \ {category})
        BY <3>3, <4>1, SumRemove
      <4>. QED
        BY <3>2, <4>2, <4>3, SMTT(30)
    <3>6. DetailsAddUp(r)
      BY <3>2, <3>4, <3>5 DEF DetailsAddUp
    <3>. QED
      BY <3>1, <3>2, <3>6 DEF r
  <2>IssueStep. ASSUME RecordingInv, NEW h \in Handler, NEW state \in {"idle", "processing"},
                       handler[h] # state, handler' = [handler EXCEPT ![h] = state],
                       NEW inc \in [Counter -> Nat], DetailsAddUp(inc), Issue(h, inc),
                       inc["requests"] = (IF state = "processing" THEN 1 ELSE 0),
                       inc["acknowledgements"] + inc["request_failures"]
                         <= (IF state = "processing" THEN 0 ELSE 1)
                PROVE  RecordingInv'
    <3>. USE <2>IssueStep
    <3>1. /\ pending' \in [Handler -> [Counter -> Nat]] /\ recorded' \in [Counter -> Nat]
          /\ Accounted'
      BY IssueAccounted DEF RecordingInv
    <3>2. DetailsAddUp(recorded')
      BY IssueDetails DEF RecordingInv
    <3>3. /\ handler' \in [Handler -> {"idle", "processing"}]
          /\ Cardinality(Processing) \in Nat
          /\ Cardinality(Processing') =
               Cardinality(Processing) + (IF state = "processing" THEN 1 ELSE -1)
      BY ProcessingCount DEF RecordingInv
    <3>4. counters' = counters
      BY DEF Issue
    <3>5. RecordingType'
      BY <3>1, <3>3, <3>4 DEF RecordingType, RecordingInv
    <3>6. AnswersBounded'
      <4>1. \A c \in Counter : /\ recorded'[c] = recorded[c] + inc[c]
                               /\ recorded[c] \in Nat /\ inc[c] \in Nat
        BY DEF RecordingInv, RecordingType, Issue, Plus
      <4>2. /\ recorded'["requests"] = recorded["requests"] + inc["requests"]
            /\ recorded'["acknowledgements"] = recorded["acknowledgements"] + inc["acknowledgements"]
            /\ recorded'["request_failures"] = recorded["request_failures"] + inc["request_failures"]
            /\ recorded["requests"] \in Nat /\ recorded["acknowledgements"] \in Nat
            /\ recorded["request_failures"] \in Nat /\ inc["requests"] \in Nat
            /\ inc["acknowledgements"] \in Nat /\ inc["request_failures"] \in Nat
        BY <4>1, CounterNames
      <4>3. recorded["acknowledgements"] + recorded["request_failures"] + Cardinality(Processing)
              <= recorded["requests"]
        BY DEF RecordingInv, AnswersBounded
      <4>4. CASE state = "processing"
        BY <3>3, <4>2, <4>3, <4>4, SMTT(30) DEF AnswersBounded
      <4>5. CASE state = "idle"
        BY <3>3, <4>2, <4>3, <4>5, SMTT(30) DEF AnswersBounded
      <4>. QED
        BY <4>4, <4>5
    <3>. QED
      BY <3>1, <3>2, <3>5, <3>6 DEF RecordingInv
  <2>IncrementStep. ASSUME RecordingInv, NEW h \in Handler, NEW c \in Counter, Increment(h, c)
                    PROVE  RecordingInv'
    <3>. USE <2>IncrementStep
    <3>1. /\ pending[h][c] > 0 /\ counters' = [counters EXCEPT ![c] = @ + 1]
          /\ pending' = [pending EXCEPT ![h][c] = @ - 1]
          /\ handler' = handler /\ recorded' = recorded
      BY DEF Increment
    <3>2. counters' \in [Counter -> Nat]
      BY <3>1, SMTT(30) DEF RecordingInv, RecordingType
    <3>3. pending' \in [Handler -> [Counter -> Nat]]
      <4>1. pending[h] \in [Counter -> Nat] /\ pending[h][c] \in Nat /\ pending[h][c] - 1 \in Nat
        BY <3>1, SMTT(30) DEF RecordingInv, RecordingType
      <4>2. PICK p : p = [pending[h] EXCEPT ![c] = @ - 1]
        OBVIOUS
      <4>3. p \in [Counter -> Nat] /\ pending' = [pending EXCEPT ![h] = p]
        BY <3>1, <4>1, <4>2
      <4>. QED
        BY <4>3 DEF RecordingInv, RecordingType
    <3>4. ASSUME NEW d \in Counter
          PROVE  recorded'[d] = counters'[d] + SumFunctionOnSet(PendingOf(pending', d), Handler)
      <4>. DEFINE f == PendingOf(pending, d)
                  g == PendingOf(pending', d)
      <4>1. \A k \in Handler : f[k] \in Nat /\ g[k] \in Nat
        BY <3>3 DEF PendingOf, RecordingInv, RecordingType
      <4>2. \A k \in Handler \ {h} : f[k] = g[k]
        BY <3>1 DEF PendingOf, RecordingInv, RecordingType
      <4>3. g[h] = (IF d = c THEN f[h] - 1 ELSE f[h])
        BY <3>1 DEF PendingOf, RecordingInv, RecordingType
      <4>4. counters'[d] = (IF d = c THEN counters[d] + 1 ELSE counters[d]) /\ counters[d] \in Nat
        BY <3>1 DEF RecordingInv, RecordingType
      <4>5. recorded[d] = counters[d] + SumFunctionOnSet(f, Handler)
        BY DEF RecordingInv, Accounted
      <4>. HIDE DEF f, g
      <4>6. SumFunctionOnSet(g, Handler) = SumFunctionOnSet(f, Handler) - f[h] + g[h]
        BY <4>1, <4>2, SumChange, TelemetryAssumption, SMTT(30)
      <4>7. SumFunctionOnSet(f, Handler) \in Nat /\ f[h] \in Nat
        BY <4>1, SumNat, TelemetryAssumption
      <4>8. recorded[d] = counters'[d] + SumFunctionOnSet(g, Handler)
        BY <4>3, <4>4, <4>5, <4>6, <4>7, SMTT(30)
      <4>. QED
        BY <3>1, <4>8 DEF g
    <3>5. RecordingType' /\ AnswersBounded' /\ DetailsAddUp(recorded')
      BY <3>1, <3>2, <3>3 DEF RecordingInv, RecordingType, AnswersBounded, Processing, DetailsAddUp
    <3>. QED
      BY <3>4, <3>5 DEF RecordingInv, Accounted
  <2>DropStep. ASSUME RecordingInv, NEW h \in Handler, DropRequest(h)
               PROVE  RecordingInv'
    <3>. USE <2>DropStep
    <3>1. /\ handler[h] # "idle" /\ handler' = [handler EXCEPT ![h] = "idle"]
          /\ UNCHANGED <<counters, pending, recorded>>
      BY DEF DropRequest
    <3>2. /\ handler' \in [Handler -> {"idle", "processing"}] /\ Cardinality(Processing) \in Nat
          /\ Cardinality(Processing') = Cardinality(Processing) + (IF "idle" = "processing" THEN 1 ELSE -1)
      BY <3>1, ProcessingCount DEF RecordingInv
    <3>3. /\ recorded["requests"] \in Nat /\ recorded["acknowledgements"] \in Nat
          /\ recorded["request_failures"] \in Nat
      BY CounterNames DEF RecordingInv, RecordingType
    <3>4. AnswersBounded'
      BY <3>1, <3>2, <3>3, SMTT(30) DEF RecordingInv, AnswersBounded
    <3>5. RecordingType' /\ DetailsAddUp(recorded')
      BY <3>1, <3>2 DEF RecordingInv, RecordingType
    <3>6. Accounted'
      BY <3>1 DEF RecordingInv, Accounted
    <3>. QED
      BY <3>4, <3>5, <3>6 DEF RecordingInv
  <2>1. ASSUME UNCHANGED <<counters, handler, pending, recorded>>
        PROVE  RecordingInv'
    BY <2>1 DEF RecordingInv, RecordingType, Accounted, AnswersBounded, Processing
  <2>2. ASSUME NEW h \in Handler, StartRequest(h)
        PROVE  RecordingInv'
    <3>1. /\ handler[h] # "processing" /\ handler' = [handler EXCEPT ![h] = "processing"]
          /\ Issue(h, RequestStarted)
      BY <2>2 DEF StartRequest
    <3>2. PICK inc \in [Counter -> Nat], state \in {"idle", "processing"} : inc = RequestStarted /\ state = "processing"
      BY <2>StartedDetails
    <3>3. /\ DetailsAddUp(inc) /\ inc["requests"] = (IF state = "processing" THEN 1 ELSE 0)
          /\ inc["acknowledgements"] + inc["request_failures"]
               <= (IF state = "processing" THEN 0 ELSE 1)
      BY <3>2, <2>StartedDetails, SMTT(30)
    <3>4. handler[h] # state /\ handler' = [handler EXCEPT ![h] = state] /\ Issue(h, inc)
      BY <3>1, <3>2
    <3>. QED
      BY <3>3, <3>4, <2>IssueStep
  <2>3. ASSUME NEW h \in Handler, AcknowledgeRequest(h)
        PROVE  RecordingInv'
    <3>1. PICK entries \in [Outcome -> 0..MaxEntries] : Issue(h, Acknowledgement(entries))
      BY <2>3 DEF AcknowledgeRequest
    <3>2. handler[h] # "idle" /\ handler' = [handler EXCEPT ![h] = "idle"]
      BY <2>3 DEF AcknowledgeRequest
    <3>3. PICK inc \in [Counter -> Nat], state \in {"idle", "processing"} : inc = Acknowledgement(entries) /\ state = "idle"
      BY <2>AcknowledgementDetails
    <3>4. /\ DetailsAddUp(inc) /\ inc["requests"] = (IF state = "processing" THEN 1 ELSE 0)
          /\ inc["acknowledgements"] + inc["request_failures"]
               <= (IF state = "processing" THEN 0 ELSE 1)
      BY <3>3, <2>AcknowledgementDetails, SMTT(30)
    <3>5. handler[h] # state /\ handler' = [handler EXCEPT ![h] = state] /\ Issue(h, inc)
      BY <3>1, <3>2, <3>3
    <3>. QED
      BY <3>4, <3>5, <2>IssueStep
  <2>4. ASSUME NEW h \in Handler, FailRequest(h)
        PROVE  RecordingInv'
    <3>1. PICK category \in Category : Issue(h, RequestFailure(category))
      BY <2>4 DEF FailRequest
    <3>2. handler[h] # "idle" /\ handler' = [handler EXCEPT ![h] = "idle"]
      BY <2>4 DEF FailRequest
    <3>3. PICK inc \in [Counter -> Nat], state \in {"idle", "processing"} : inc = RequestFailure(category) /\ state = "idle"
      BY <2>FailureDetails
    <3>4. /\ DetailsAddUp(inc) /\ inc["requests"] = (IF state = "processing" THEN 1 ELSE 0)
          /\ inc["acknowledgements"] + inc["request_failures"]
               <= (IF state = "processing" THEN 0 ELSE 1)
      BY <3>3, <2>FailureDetails, SMTT(30)
    <3>5. handler[h] # state /\ handler' = [handler EXCEPT ![h] = state] /\ Issue(h, inc)
      BY <3>1, <3>2, <3>3
    <3>. QED
      BY <3>4, <3>5, <2>IssueStep
  <2>5. ASSUME NEW m \in Monitor,
               BeginSnapshot(m) \/ EndSnapshot(m) \/ (\E c \in Counter : Load(m, c))
        PROVE  RecordingInv'
    BY <2>1, <2>5 DEF BeginSnapshot, EndSnapshot, Load, Loaded
  <2>6. CASE UNCHANGED telemetryVars
    BY <2>1, <2>6 DEF telemetryVars
  <2>. QED
    BY <2>2, <2>3, <2>4, <2>5, <2>6, <2>DropStep, <2>IncrementStep DEF TelemetryNext
<1>RecordingStart. ASSUME TelemetryInit
                   PROVE  RecordingInv
  <2>. USE <1>RecordingStart
  <2>1. RecordingType
    BY DEF TelemetryInit, RecordingType, Zeros
  <2>2. ASSUME NEW c \in Counter
        PROVE  recorded[c] = counters[c] + SumFunctionOnSet(PendingOf(pending, c), Handler)
    <3>1. \A h \in Handler : PendingOf(pending, c)[h] = 0
      BY DEF TelemetryInit, PendingOf, Zeros
    <3>2. SumFunctionOnSet(PendingOf(pending, c), Handler) = 0
      BY <3>1, SumZero, TelemetryAssumption
    <3>3. recorded[c] = 0 /\ counters[c] = 0
      BY DEF TelemetryInit, Zeros
    <3>. QED
      BY <3>2, <3>3, SMTT(30)
  <2>3. \A c \in Counter : recorded[c] = 0
    BY DEF TelemetryInit, Zeros
  <2>4. SumFunctionOnSet(recorded, Outcome) = 0 /\ SumFunctionOnSet(recorded, Category) = 0
    BY <2>3, SumZero, CounterNames, TelemetryAssumption
  <2>5. DetailsAddUp(recorded)
    BY <2>3, <2>4, CounterNames DEF DetailsAddUp
  <2>6. Cardinality(Processing) = 0
    <3>1. Processing = {}
      BY DEF TelemetryInit, Processing
    <3>. QED
      BY <3>1, FS_EmptySet
  <2>7. AnswersBounded
    BY <2>3, <2>6, CounterNames, SMTT(30) DEF AnswersBounded
  <2>. QED
    BY <2>1, <2>2, <2>5, <2>7 DEF RecordingInv, Accounted
<1>1. RecordingInv /\ [TelemetryNext]_telemetryVars => RecordingInv'
  BY <1>RecordingStep
<1>. QED
  BY <1>1, <1>RecordingStart, PTL DEF TelemetrySpec

(* Nothing is counted that was not recorded, and once nothing is pending
   everything that was. *)
LEMMA CountedIsRecorded ==
    ASSUME RecordingInv, NEW c \in Counter
    PROVE  /\ counters[c] \in Nat /\ recorded[c] \in Nat /\ counters[c] <= recorded[c]
           /\ (\A h \in Handler : pending[h] = Zeros) => counters[c] = recorded[c]
<1>. DEFINE f == PendingOf(pending, c)
<1>1. \A h \in Handler : f[h] \in Nat
  BY DEF RecordingInv, RecordingType, PendingOf
<1>2. (\A h \in Handler : pending[h] = Zeros) => (\A h \in Handler : f[h] = 0)
  BY DEF PendingOf, Zeros
<1>3. recorded[c] = counters[c] + SumFunctionOnSet(f, Handler)
  BY DEF RecordingInv, Accounted
<1>4. counters[c] \in Nat /\ recorded[c] \in Nat
  BY DEF RecordingInv, RecordingType
<1>. HIDE DEF f
<1>5. SumFunctionOnSet(f, Handler) \in Nat
  BY <1>1, SumNat, TelemetryAssumption
<1>6. (\A h \in Handler : pending[h] = Zeros) => SumFunctionOnSet(f, Handler) = 0
  BY <1>2, SumZero, TelemetryAssumption
<1>. QED
  BY <1>3, <1>4, <1>5, <1>6, SMTT(30)

LEMMA RecordedConsistent ==
    ASSUME RecordingInv
    PROVE  Consistent(recorded)
<1>1. IsFiniteSet(Processing)
  BY FS_Subset, TelemetryAssumption DEF Processing
<1>2. Cardinality(Processing) \in Nat
  BY <1>1, FS_CardinalityType
<1>3. /\ recorded["requests"] \in Nat /\ recorded["acknowledgements"] \in Nat
      /\ recorded["request_failures"] \in Nat
  BY CounterNames DEF RecordingInv, RecordingType
<1>4. recorded["acknowledgements"] + recorded["request_failures"] <= recorded["requests"]
  BY <1>2, <1>3, SMTT(30) DEF RecordingInv, AnswersBounded
<1>. QED
  BY <1>4 DEF RecordingInv, Consistent, DetailsAddUp

(* No increment of the concurrent handlers is lost, whatever their order: once
   none is pending the counters show what was recorded, the entries and the
   failures are the sums of their outcomes and categories, and no more requests
   are answered than were started. *)
THEOREM QuietAlwaysConsistent == TelemetrySpec => []QuietIsConsistent
<1>1. RecordingInv => QuietIsConsistent
  <2>. SUFFICES ASSUME RecordingInv, \A h \in Handler : pending[h] = Zeros
                PROVE  counters = recorded /\ Consistent(counters)
    BY DEF QuietIsConsistent
  <2>1. counters = recorded
    BY CountedIsRecorded, SMTT(30) DEF RecordingInv, RecordingType
  <2>. QED
    BY <2>1, RecordedConsistent
<1>. QED
  BY <1>1, RecordingInvariant, PTL

(* Every value of a health answer is one its counter had since the health
   request began, for any number of health requests and handlers at once; an
   answer put together while nothing was left to count and nothing was recorded
   has totals that agree with their details. *)
THEOREM SnapshotsAlwaysCurrent == TelemetrySpec => []SnapshotsAreCurrent
<1>1. ASSUME TelemetryInv, RecordingInv
      PROVE  SnapshotsAreCurrent
  <2>. SUFFICES ASSUME NEW m \in Monitor, loading[m] # NULL
                PROVE  /\ \A c \in DOMAIN loading[m] :
                            before[m][c] <= loading[m][c] /\ loading[m][c] <= counters[c]
                       /\ DOMAIN loading[m] = Counter /\ before[m] = recorded
                            => Consistent(loading[m])
    BY DEF SnapshotsAreCurrent
  <2>1. LoadedWithin(m)
    BY <1>1 DEF TelemetryInv
  <2>2. ASSUME DOMAIN loading[m] = Counter, before[m] = recorded
        PROVE  Consistent(loading[m])
    <3>1. \A c \in Counter : counters[c] \in Nat /\ recorded[c] \in Nat /\ counters[c] <= recorded[c]
      BY <1>1, CountedIsRecorded
    <3>2. \A c \in Counter : loading[m][c] = recorded[c]
      BY <2>1, <2>2, <3>1, SMTT(30) DEF LoadedWithin
    <3>3. /\ SumFunctionOnSet(loading[m], Outcome) = SumFunctionOnSet(recorded, Outcome)
          /\ SumFunctionOnSet(loading[m], Category) = SumFunctionOnSet(recorded, Category)
      BY <3>2, SumSame, CounterNames, TelemetryAssumption
    <3>4. Consistent(recorded)
      BY <1>1, RecordedConsistent
    <3>. QED
      BY <3>2, <3>3, <3>4, CounterNames DEF Consistent
  <2>. QED
    BY <2>1, <2>2 DEF LoadedWithin
<1>. QED
  BY <1>1, TelemetryInvariant, RecordingInvariant, PTL

-----------------------------------------------------------------------------
(* The counts of a snapshot *)

(* The argument: the counts of a snapshot are cardinalities of sets that part the
   queue, and the queue is counted by its sequence numbers; what the reports
   count is a disjoint union (CreditedOnce). *)

LEMMA DisjointCount ==
    ASSUME NEW A, IsFiniteSet(A), NEW B, IsFiniteSet(B), A \cap B = {}
    PROVE  /\ IsFiniteSet(A \cup B)
           /\ Cardinality(A \cup B) = Cardinality(A) + Cardinality(B)
<1>1. Cardinality(A) \in Nat /\ Cardinality(B) \in Nat
  BY FS_CardinalityType
<1>2. Cardinality(A \cap B) = 0
  BY FS_EmptySet
<1>3. /\ IsFiniteSet(A \cup B)
      /\ Cardinality(A \cup B) = Cardinality(A) + Cardinality(B) - Cardinality(A \cap B)
  BY FS_Union
<1>4. Cardinality(A) + Cardinality(B) - Cardinality(A \cap B) = Cardinality(A) + Cardinality(B)
  BY <1>1, <1>2, SMTT(30)
<1>. QED
  BY <1>3, <1>4

Queued == {t \in Txn : Stored(t)}

InState(state) == {t \in Txn : Stored(t) /\ txn[t].state = state}

(* The sequence numbers count the queue. *)
LEMMA QueueCounted ==
    ASSUME StoreInd
    PROVE  /\ IsFiniteSet(Queued)
           /\ Cardinality(Queued) = nextLocalSequence - 1
           /\ nextLocalSequence \in Nat \ {0}
<1>1. PICK n \in Nat : n = nextLocalSequence - 1 /\ nextLocalSequence \in Nat \ {0}
  <2>1. /\ nextLocalSequence \in Nat /\ lastAcknowledgedSequence \in Nat
        /\ lastAcknowledgedSequence < nextLocalSequence
    BY DEF StoreInd, StoreTypeOK, HighWaterMarkSound
  <2>. QED
    BY <2>1, SMTT(30)
<1>2. PICK f : f = [t \in Queued |-> txn[t].sequence]
  OBVIOUS
<1>3. f \in Injection(Queued, 1..n)
  BY <1>1, <1>2 DEF Injection, IsInjective, Queued, StoreInd, SequenceAllocation
<1>4. f \in Surjection(Queued, 1..n)
  BY <1>1, <1>2, <1>3 DEF Surjection, Injection, Queued, StoreInd, SequenceAllocation
<1>5. IsFiniteSet(1..n) /\ Cardinality(1..n) = n
  BY FS_Interval, SMTT(30)
<1>6. IsFiniteSet(Queued) /\ Cardinality(Queued) = n
  BY <1>3, <1>4, <1>5, FS_Injection
<1>. QED
  BY <1>1, <1>6

LEMMA StateFinite ==
    ASSUME StoreInd, NEW state
    PROVE  /\ IsFiniteSet(InState(state)) /\ Cardinality(InState(state)) \in Nat
           /\ Cardinality(InState(state)) = 0 <=> InState(state) = {}
<1>1. InState(state) \in SUBSET Queued
  BY DEF InState, Queued
<1>2. IsFiniteSet(InState(state))
  BY <1>1, QueueCounted, FS_Subset
<1>. QED
  BY <1>2, FS_CardinalityType, FS_EmptySet

LEMMA StatesApart ==
    ASSUME NEW state, NEW other, state # other
    PROVE  InState(state) \cap InState(other) = {}
  BY DEF InState

(* The six states part the queue. *)
LEMMA StatesAddUp ==
    ASSUME StoreInd
    PROVE  Cardinality(InState("pending")) + Cardinality(InState("in_flight"))
             + Cardinality(InState("acknowledged")) + Cardinality(InState("retryable_failure"))
             + Cardinality(InState("permanent_failure")) + Cardinality(InState("manual_review"))
             = nextLocalSequence - 1
<1>. DEFINE A == InState("pending")
            B == InState("in_flight")
            C == InState("acknowledged")
            D == InState("retryable_failure")
            E == InState("permanent_failure")
            F == InState("manual_review")
<1>1. /\ IsFiniteSet(A) /\ IsFiniteSet(B) /\ IsFiniteSet(C)
      /\ IsFiniteSet(D) /\ IsFiniteSet(E) /\ IsFiniteSet(F)
  BY StateFinite
<1>2. /\ A \cap B = {}
      /\ (A \cup B) \cap C = {}
      /\ (A \cup B \cup C) \cap D = {}
      /\ (A \cup B \cup C \cup D) \cap E = {}
      /\ (A \cup B \cup C \cup D \cup E) \cap F = {}
  BY DEF InState
<1>3. A \cup B \cup C \cup D \cup E \cup F = Queued
  <2>1. \A t \in Txn : Stored(t) => txn[t].state \in QueueState
    BY DEF Stored, StoreInd, StoreTypeOK, TxnRow
  <2>. QED
    BY <2>1 DEF InState, Queued, QueueState
<1>. HIDE DEF A, B, C, D, E, F
<1>4. IsFiniteSet(A \cup B) /\ Cardinality(A \cup B) = Cardinality(A) + Cardinality(B)
  BY <1>1, <1>2, DisjointCount
<1>5. /\ IsFiniteSet((A \cup B) \cup C)
      /\ Cardinality((A \cup B) \cup C) = Cardinality(A \cup B) + Cardinality(C)
  BY <1>1, <1>2, <1>4, DisjointCount
<1>6. /\ IsFiniteSet((A \cup B \cup C) \cup D)
      /\ Cardinality((A \cup B \cup C) \cup D) = Cardinality(A \cup B \cup C) + Cardinality(D)
  BY <1>1, <1>2, <1>5, DisjointCount
<1>7. /\ IsFiniteSet((A \cup B \cup C \cup D) \cup E)
      /\ Cardinality((A \cup B \cup C \cup D) \cup E)
           = Cardinality(A \cup B \cup C \cup D) + Cardinality(E)
  BY <1>1, <1>2, <1>6, DisjointCount
<1>8. Cardinality((A \cup B \cup C \cup D \cup E) \cup F)
        = Cardinality(A \cup B \cup C \cup D \cup E) + Cardinality(F)
  BY <1>1, <1>2, <1>7, DisjointCount
<1>9. Cardinality(Queued) = Cardinality(A) + Cardinality(B) + Cardinality(C) + Cardinality(D)
                              + Cardinality(E) + Cardinality(F)
  BY <1>3, <1>4, <1>5, <1>6, <1>7, <1>8
<1>. QED
  BY <1>9, QueueCounted DEF A, B, C, D, E, F

(* The counts of the queue are those of the states. *)
LEMMA CountsOfStates ==
    /\ QueueCounts.pending = Cardinality(InState("pending"))
    /\ QueueCounts.inFlight = Cardinality(InState("in_flight"))
    /\ QueueCounts.acknowledged = Cardinality(InState("acknowledged"))
    /\ QueueCounts.retryable = Cardinality(InState("retryable_failure"))
    /\ QueueCounts.permanent = Cardinality(InState("permanent_failure"))
    /\ QueueCounts.manual = Cardinality(InState("manual_review"))
  BY DEF QueueCounts, InState

LEMMA NoneAddUp ==
    ASSUME NEW a \in Nat, NEW b \in Nat, NEW c \in Nat, NEW d \in Nat
    PROVE  a + b + c + d = 0 <=> a = 0 /\ b = 0 /\ c = 0 /\ d = 0
  BY SMTT(30)

LEMMA UnresolvedCounted ==
    ASSUME StoreInd
    PROVE  /\ UnresolvedCount(QueueCounts) \in Nat
           /\ UnresolvedCount(QueueCounts) = 0 <=> Unresolved = {}
<1>1. UnresolvedCount(QueueCounts)
        = Cardinality(InState("pending")) + Cardinality(InState("in_flight"))
            + Cardinality(InState("retryable_failure")) + Cardinality(InState("manual_review"))
  BY CountsOfStates DEF UnresolvedCount
<1>2. /\ Cardinality(InState("pending")) \in Nat
      /\ Cardinality(InState("in_flight")) \in Nat
      /\ Cardinality(InState("retryable_failure")) \in Nat
      /\ Cardinality(InState("manual_review")) \in Nat
      /\ Cardinality(InState("pending")) = 0 <=> InState("pending") = {}
      /\ Cardinality(InState("in_flight")) = 0 <=> InState("in_flight") = {}
      /\ Cardinality(InState("retryable_failure")) = 0 <=> InState("retryable_failure") = {}
      /\ Cardinality(InState("manual_review")) = 0 <=> InState("manual_review") = {}
  BY StateFinite
<1>3. Unresolved = {} <=> /\ InState("pending") = {} /\ InState("in_flight") = {}
                          /\ InState("retryable_failure") = {} /\ InState("manual_review") = {}
  BY DEF Unresolved, UnresolvedStates, InState
<1>4. UnresolvedCount(QueueCounts) \in Nat
  BY <1>1, <1>2, SMTT(30)
<1>5. UnresolvedCount(QueueCounts) = 0 <=>
        /\ Cardinality(InState("pending")) = 0 /\ Cardinality(InState("in_flight")) = 0
        /\ Cardinality(InState("retryable_failure")) = 0 /\ Cardinality(InState("manual_review")) = 0
  <2>1. PICK a \in Nat : a = Cardinality(InState("pending"))
    BY <1>2
  <2>2. PICK b \in Nat : b = Cardinality(InState("in_flight"))
    BY <1>2
  <2>3. PICK c \in Nat : c = Cardinality(InState("retryable_failure"))
    BY <1>2
  <2>4. PICK d \in Nat : d = Cardinality(InState("manual_review"))
    BY <1>2
  <2>5. a + b + c + d = 0 <=> a = 0 /\ b = 0 /\ c = 0 /\ d = 0
    BY NoneAddUp, SMTT(30)
  <2>6. UnresolvedCount(QueueCounts) = a + b + c + d
    BY <1>1, <2>1, <2>2, <2>3, <2>4
  <2>. QED
    BY <2>1, <2>2, <2>3, <2>4, <2>5, <2>6
<1>. QED
  BY <1>2, <1>3, <1>4, <1>5

(* The minimum of a column of numbers. *)
LEMMA SqlMinFacts ==
    ASSUME NEW S, S \subseteq Nat
    PROVE  /\ SqlMin(S) = NULL <=> S = {}
           /\ SqlMin(S) # NULL => SqlMin(S) \in S
  BY MinFacts, ConstantsAssumption DEF SqlMin

(* The health snapshot accounts for the whole database, and for every
   acknowledged transaction exactly one applied acknowledgement reported it,
   for any number of transactions and batches: load_reader_queue_health and
   apply_synchronization_acknowledgement. *)
THEOREM HealthAlwaysAddsUp == ViewSpec => []HealthAddsUp
<1>LowestUnresolved. ASSUME StoreInd
                     PROVE  LET lowest == SqlMin({txn[t].sequence : t \in Unresolved}) IN
                            /\ lowest = NULL <=> Unresolved = {}
                            /\ lowest # NULL => lowest \in (lastAcknowledgedSequence + 1)..(nextLocalSequence - 1)
  <2>. USE <1>LowestUnresolved
  <2>1. /\ nextLocalSequence \in Nat /\ lastAcknowledgedSequence \in Nat
    BY DEF StoreInd, StoreTypeOK
  <2>2. ASSUME NEW t \in Unresolved
        PROVE  txn[t].sequence \in (lastAcknowledgedSequence + 1)..(nextLocalSequence - 1)
    <3>1. txn[t].sequence \in 1..(nextLocalSequence - 1)
      BY DEF Unresolved, StoreInd, SequenceAllocation
    <3>2. ~(txn[t].sequence <= lastAcknowledgedSequence)
      BY DEF Unresolved, UnresolvedStates, StoreInd, HighWaterMarkSound
    <3>. QED
      BY <2>1, <3>1, <3>2, SMTT(30)
  <2>3. PICK S : S = {txn[t].sequence : t \in Unresolved}
    OBVIOUS
  <2>4. S \subseteq (lastAcknowledgedSequence + 1)..(nextLocalSequence - 1)
    BY <2>2, <2>3
  <2>5. S \subseteq Nat
    BY <2>1, <2>4, SMTT(30)
  <2>6. S = {} <=> Unresolved = {}
    BY <2>3
  <2>. QED
    BY <2>3, <2>4, <2>5, <2>6, SqlMinFacts
<1>NextRetry. ASSUME StoreInd
              PROVE  SqlMin({txn[t].retryAt : t \in InState("retryable_failure")}) = NULL
                       <=> QueueCounts.retryable = 0
  <2>. USE <1>NextRetry
  <2>1. \A t \in InState("retryable_failure") : txn[t].retryAt \in Nat
    BY ConstantsAssumption DEF InState, Stored, StoreInd, StoreTypeOK, TxnRow, OptionalTime
  <2>2. PICK S : S = {txn[t].retryAt : t \in InState("retryable_failure")}
    OBVIOUS
  <2>3. S \subseteq Nat /\ (S = {} <=> InState("retryable_failure") = {})
    BY <2>1, <2>2
  <2>4. QueueCounts.retryable = 0 <=> InState("retryable_failure") = {}
    BY CountsOfStates, StateFinite
  <2>. QED
    BY <2>2, <2>3, <2>4, SqlMinFacts
(* Every acknowledged transaction is counted by one report. *)
<1>ReportsAddUp. ASSUME ViewInd, CreditedOnce
                 PROVE  QueueCounts.acknowledged = SumFunctionOnSet(CountReported, AppliedBatches)
  <2>. USE <1>ReportsAddUp
  (* A disjoint union has as many elements as its parts together. *)
  <2>SumOfCounts. ASSUME NEW B, IsFiniteSet(B), NEW A, \A b \in B : IsFiniteSet(A[b]),
                         \A b, c \in B : b # c => A[b] \cap A[c] = {},
                         NEW f, \A b \in B : f[b] = Cardinality(A[b])
                  PROVE  Cardinality(UNION {A[b] : b \in B}) = SumFunctionOnSet(f, B)
    <3>. USE <2>SumOfCounts
    <3>. DEFINE All(s) == UNION {A[b] : b \in s}
                C == {s \in SUBSET B : ~(IsFiniteSet(All(s)) /\ Cardinality(All(s)) = SumFunctionOnSet(f, s))}
    <3>0. SUFFICES ASSUME C # {} PROVE FALSE
      OBVIOUS
    <3>1. \A s \in C : IsFiniteSet(s)
      BY FS_Subset
    <3>2. PICK s \in C : \A x \in s : s \ {x} \notin C
      <4>. HIDE DEF C
      <4>. QED
        BY <3>0, <3>1, LeastSet
    <3>3. s # {}
      <4>1. All({}) = {}
        OBVIOUS
      <4>2. {} \notin C
        BY <4>1, SumOfNone, FS_EmptySet
      <4>. QED
        BY <4>2
    <3>4. PICK x \in s : SumFunctionOnSet(f, s) = f[x] + SumFunctionOnSet(f, s \ {x})
      BY <3>1, <3>3, SumFirst
    <3>5. IsFiniteSet(All(s \ {x})) /\ Cardinality(All(s \ {x})) = SumFunctionOnSet(f, s \ {x})
      BY <3>2
    <3>6. All(s) = A[x] \cup All(s \ {x})
      OBVIOUS
    <3>7. A[x] \cap All(s \ {x}) = {} /\ IsFiniteSet(A[x]) /\ f[x] = Cardinality(A[x])
      BY SMTT(30)
    <3>8. IsFiniteSet(All(s)) /\ Cardinality(All(s)) = SumFunctionOnSet(f, s)
      <4>. HIDE DEF All, C
      <4>1. PICK rest : rest = All(s \ {x})
        OBVIOUS
      <4>2. /\ IsFiniteSet(A[x] \cup rest)
            /\ Cardinality(A[x] \cup rest) = Cardinality(A[x]) + Cardinality(rest)
        BY <3>5, <3>7, <4>1, DisjointCount
      <4>. QED
        BY <3>4, <3>5, <3>6, <3>7, <4>1, <4>2
    <3>. QED
      BY <3>8
  <2>ReportCounted. ASSUME ViewInd, NEW b \in AppliedBatches
                    PROVE  CountReported[b] = Cardinality(AckedBy(b))
    <3>. USE <2>ReportCounted
    <3>1. b \in Batch /\ ack[b] # NULL
      BY DEF AppliedBatches
    <3>2. DecodeEntries(b) = {ack[b].outcome}
      BY <3>1, EntriesLoad
    <3>3. PICK r : r = [appliedAt |-> ack[b].appliedAt, counts |-> ResolutionCounts(ack[b].outcome),
                        lastAcknowledgedSequence |-> lastAcknowledgedSequence]
      OBVIOUS
    <3>4. ApplicationReport(b) = {r}
      BY <3>2, <3>3 DEF ApplicationReport
    <3>5. (CHOOSE q \in ApplicationReport(b) : TRUE) = r
      BY <3>4
    <3>6. r.counts.acknowledged = Cardinality(AckedBy(b))
      BY <3>3 DEF ResolutionCounts, AckedBy
    <3>. QED
      BY <3>5, <3>6 DEF CountReported
  <2>0. StoreInd
    BY DEF ViewInd
  <2>1. IsFiniteSet(AppliedBatches)
    <3>1. AppliedBatches \in SUBSET {b \in Batch : batch[b] # NULL}
      BY DEF AppliedBatches, ViewInd, StoreInd, StoreTypeOK
    <3>. QED
      BY <3>1, FS_Subset DEF ViewInd, FewBatches
  <2>2. PICK A : A = [b \in AppliedBatches |-> AckedBy(b)]
    OBVIOUS
  <2>3. \A b \in AppliedBatches : IsFiniteSet(A[b])
    <3>. TAKE b \in AppliedBatches
    <3>1. AckedBy(b) \in SUBSET InState("acknowledged")
      BY DEF CreditedOnce, InState
    <3>2. IsFiniteSet(InState("acknowledged"))
      BY <2>0, StateFinite
    <3>. QED
      BY <2>2, <3>1, <3>2, FS_Subset
  <2>4. \A b, c \in AppliedBatches : b # c => A[b] \cap A[c] = {}
    BY <2>2 DEF CreditedOnce
  <2>5. \A b \in AppliedBatches : CountReported[b] = Cardinality(A[b])
    BY <2>2, <2>ReportCounted
  <2>6. Cardinality(UNION {A[b] : b \in AppliedBatches})
          = SumFunctionOnSet(CountReported, AppliedBatches)
    BY <2>1, <2>3, <2>4, <2>5, <2>SumOfCounts
  <2>7. UNION {A[b] : b \in AppliedBatches} = InState("acknowledged")
    <3>1. ASSUME NEW b \in AppliedBatches, NEW t \in A[b]
          PROVE  t \in InState("acknowledged")
      BY <2>2 DEF CreditedOnce, InState
    <3>2. ASSUME NEW t \in InState("acknowledged")
          PROVE  \E b \in AppliedBatches : t \in A[b]
      BY <2>0, <2>2 DEF InState, StoreInd, AcknowledgedHasEvidence, AppliedBatches, AckedBy
    <3>. QED
      BY <3>1, <3>2
  <2>. QED
    BY <2>6, <2>7, CountsOfStates
<1>NothingLeft. ASSUME StoreInd, ~HasPendingWork(StoredHealth), ~RequiresOperatorAttention(StoredHealth)
                PROVE  QueueCounts.acknowledged = nextLocalSequence - 1
  <2>. USE <1>NothingLeft
  (* Numbers of a snapshot without work left. *)
  <2>OnlyAcknowledged. ASSUME NEW a \in Nat, NEW b \in Nat, NEW c \in Nat, NEW d \in Nat, NEW e \in Nat, NEW f \in Nat,
                              a + b + d + f = 0, e = 0
                       PROVE  a + b + c + d + e + f = c
    <3>. USE <2>OnlyAcknowledged
    <3>1. a = 0 /\ b = 0 /\ d = 0 /\ f = 0
      BY NoneAddUp
    <3>. QED
      BY <3>1, SMTT(30)
  <2>1. StoredHealth.queue = QueueCounts
    BY DEF StoredHealth
  <2>2. ~(UnresolvedCount(QueueCounts) > 0) /\ ~(QueueCounts.permanent > 0)
    BY <2>1 DEF HasPendingWork, RequiresOperatorAttention
  <2>3. PICK a \in Nat : a = Cardinality(InState("pending"))
    BY StateFinite
  <2>4. PICK b \in Nat : b = Cardinality(InState("in_flight"))
    BY StateFinite
  <2>5. PICK c \in Nat : c = Cardinality(InState("acknowledged"))
    BY StateFinite
  <2>6. PICK d \in Nat : d = Cardinality(InState("retryable_failure"))
    BY StateFinite
  <2>7. PICK e \in Nat : e = Cardinality(InState("permanent_failure"))
    BY StateFinite
  <2>8. PICK f \in Nat : f = Cardinality(InState("manual_review"))
    BY StateFinite
  <2>9. UnresolvedCount(QueueCounts) = a + b + d + f
    BY <2>3, <2>4, <2>6, <2>8, CountsOfStates DEF UnresolvedCount
  <2>10. a + b + d + f = 0 /\ e = 0
    <3>1. QueueCounts.permanent = e
      BY <2>7, CountsOfStates
    <3>2. ~(a + b + d + f > 0) /\ ~(e > 0)
      BY <2>2, <2>9, <3>1
    <3>. QED
      BY <3>2, SMTT(30)
  <2>11. a + b + c + d + e + f = c
    BY <2>10, <2>OnlyAcknowledged, SMTT(30)
  <2>12. a + b + c + d + e + f = nextLocalSequence - 1
    BY <2>3, <2>4, <2>5, <2>6, <2>7, <2>8, StatesAddUp
  <2>. QED
    BY <2>5, <2>11, <2>12, CountsOfStates
<1>1. ViewInd /\ CreditedOnce => HealthAddsUp
  <2>. SUFFICES ASSUME ViewInd, CreditedOnce, NEW at \in Time,
                       NEW taken \in LoadReaderQueueHealth(at)
                PROVE  LET s == taken.stored IN
                       /\ Total(s.queue) = s.nextLocalSequence - 1
                       /\ s.lowestUnresolved = NULL <=> UnresolvedCount(s.queue) = 0
                       /\ s.lowestUnresolved # NULL =>
                            s.lowestUnresolved \in (s.lastAcknowledgedSequence + 1)..(s.nextLocalSequence - 1)
                       /\ s.nextRetryAt = NULL <=> s.queue.retryable = 0
                       /\ ~HasPendingWork(s) /\ ~RequiresOperatorAttention(s) =>
                            s.queue.acknowledged = s.nextLocalSequence - 1
                       /\ s.queue.acknowledged = SumFunctionOnSet(CountReported, AppliedBatches)
    BY DEF HealthAddsUp
  <2>0. StoreInd
    BY DEF ViewInd
  <2>1. PICK s : s = StoredHealth
    OBVIOUS
  <2>2. taken.stored = s
    BY <2>1, SMTT(30) DEF LoadReaderQueueHealth, DecodeHealthSnapshot
  <2>3. /\ s.queue = QueueCounts /\ s.nextLocalSequence = nextLocalSequence
        /\ s.lastAcknowledgedSequence = lastAcknowledgedSequence
        /\ s.lowestUnresolved = SqlMin({txn[t].sequence : t \in Unresolved})
        /\ s.nextRetryAt = SqlMin({txn[t].retryAt : t \in InState("retryable_failure")})
    BY <2>1 DEF StoredHealth, Unresolved, InState
  <2>4. Total(QueueCounts) = nextLocalSequence - 1
    BY <2>0, StatesAddUp, CountsOfStates DEF Total
  <2>5. /\ s.lowestUnresolved = NULL <=> UnresolvedCount(QueueCounts) = 0
        /\ s.lowestUnresolved # NULL =>
             s.lowestUnresolved \in (lastAcknowledgedSequence + 1)..(nextLocalSequence - 1)
    BY <2>0, <2>3, <1>LowestUnresolved, UnresolvedCounted
  <2>6. s.nextRetryAt = NULL <=> QueueCounts.retryable = 0
    BY <2>0, <2>3, <1>NextRetry
  <2>7. ~HasPendingWork(s) /\ ~RequiresOperatorAttention(s) =>
          QueueCounts.acknowledged = nextLocalSequence - 1
    BY <2>0, <2>1, <1>NothingLeft
  <2>8. QueueCounts.acknowledged = SumFunctionOnSet(CountReported, AppliedBatches)
    BY <1>ReportsAddUp
  <2>. QED
    BY <2>2, <2>3, <2>4, <2>5, <2>6, <2>7, <2>8
<1>. QED
  BY <1>1, ViewInvariant, CreditsInvariant, PTL

BatchesIn(state) == {b \in Batch : batch[b] # NULL /\ batch[b].state = state}

Unapplied == {b \in Batch : ack[b] # NULL /\ ack[b].appliedAt = NULL}

(* Once a health snapshot reports no pending work, no call but the enqueuing of
   a new transaction changes the database: has_pending_work misses nothing that
   an operation of the store could still take up. *)
THEOREM NoPendingWorkRests == ViewSpec => NoPendingWorkIsRest
<1>RestReported. ASSUME ViewInd, ~HasPendingWork(StoredHealth)
                 PROVE  AtRest
  <2>. USE <1>RestReported
  <2>0. StoreInd /\ StoreTypeOK
    BY DEF ViewInd, StoreInd
  <2>1. StoredHealth.queue = QueueCounts /\ StoredHealth.synchronization = SynchronizationCounts
    BY DEF StoredHealth
  <2>2. /\ ~(UnresolvedCount(QueueCounts) > 0) /\ ~(ActiveBatches(SynchronizationCounts) > 0)
        /\ ~(SynchronizationCounts.unapplied > 0)
    BY <2>1 DEF HasPendingWork
  <2>3. Unresolved = {}
    BY <2>0, <2>2, UnresolvedCounted, SMTT(30)
  <2>4. \A S \in SUBSET {b \in Batch : batch[b] # NULL} :
          Cardinality(S) \in Nat /\ (Cardinality(S) = 0 => S = {})
    BY FS_Subset, FS_CardinalityType, FS_EmptySet DEF ViewInd, FewBatches
  <2>5. Unapplied = {}
    <3>1. Unapplied \in SUBSET {b \in Batch : batch[b] # NULL}
      BY <2>0 DEF Unapplied, StoreTypeOK
    <3>2. SynchronizationCounts.unapplied = Cardinality(Unapplied)
      BY DEF SynchronizationCounts, Unapplied
    <3>. QED
      BY <2>2, <2>4, <3>1, <3>2, SMTT(30)
  <2>6. BatchesIn("prepared") = {} /\ BatchesIn("in_flight") = {} /\ BatchesIn("retryable_failure") = {}
    <3>1. /\ SynchronizationCounts.prepared = Cardinality(BatchesIn("prepared"))
          /\ SynchronizationCounts.inFlight = Cardinality(BatchesIn("in_flight"))
          /\ SynchronizationCounts.retryable = Cardinality(BatchesIn("retryable_failure"))
      BY DEF SynchronizationCounts, BatchesIn
    <3>2. \A state : BatchesIn(state) \in SUBSET {b \in Batch : batch[b] # NULL}
      BY DEF BatchesIn
    <3>3. PICK p \in Nat : p = Cardinality(BatchesIn("prepared"))
      BY <2>4, <3>2
    <3>4. PICK i \in Nat : i = Cardinality(BatchesIn("in_flight"))
      BY <2>4, <3>2
    <3>5. PICK r \in Nat : r = Cardinality(BatchesIn("retryable_failure"))
      BY <2>4, <3>2
    <3>6. ~(p + i + r > 0)
      BY <2>2, <3>1, <3>3, <3>4, <3>5 DEF ActiveBatches
    <3>7. p = 0 /\ i = 0 /\ r = 0
      BY <3>6, SMTT(30)
    <3>. QED
      BY <2>4, <3>2, <3>3, <3>4, <3>5, <3>7
  <2>. QED
    BY <2>3, <2>5, <2>6 DEF AtRest, BatchesIn, ActiveStates, Unapplied
<1>. DEFINE Rest == (reader # NULL /\ ~HasPendingWork(StoredHealth))
                      => nextLocalSequence' # nextLocalSequence
<1>1. ViewInd /\ [ViewNext]_viewVars => [Rest]_viewVars
  <2>. SUFFICES ASSUME ViewInd, ViewNext, reader # NULL, ~HasPendingWork(StoredHealth)
                PROVE  nextLocalSequence' # nextLocalSequence \/ UNCHANGED viewVars
    OBVIOUS
  <2>1. AtRest /\ StoreTypeOK
    BY <1>RestReported DEF ViewInd, StoreInd
  <2>2. StoreNext /\ TouchReader /\ StampTransactions /\ StampBatches
    BY DEF ViewNext, BindNext, BindReaderDatabase, Recorded
  <2>. QED
    BY <2>1, <2>2, RestingStep, RestingColumns
<1>. QED
  BY <1>1, ViewInvariant, PTL DEF ViewSpec, NoPendingWorkIsRest

-----------------------------------------------------------------------------
(* Attempts *)

AttemptsOf(t) == [b \in Carriers(t) |-> batch[b].attempts]

LEMMA CarriersFinite ==
    ASSUME ViewInd, NEW t
    PROVE  IsFiniteSet(Carriers(t)) /\ \A b \in Carriers(t) : b \in Batch /\ AttemptsOf(t)[b] \in Nat
<1>1. Carriers(t) \in SUBSET {b \in Batch : batch[b] # NULL}
  BY DEF Carriers
<1>2. \A b \in Carriers(t) : b \in Batch /\ batch[b].attempts \in Nat
  BY DEF Carriers, ViewInd, StoreInd, StoreTypeOK, BatchRow
<1>. QED
  BY <1>1, <1>2, FS_Subset DEF ViewInd, FewBatches, AttemptsOf

LEMMA AttemptsUnchanged ==
    ASSUME NEW t \in Txn, txn'[t].attempts = txn[t].attempts,
           txn[t].attempts = SumFunctionOnSet(AttemptsOf(t), Carriers(t)),
           Carriers(t)' = Carriers(t),
           \A b \in Carriers(t) : batch'[b].attempts = batch[b].attempts
    PROVE  txn'[t].attempts = SumFunctionOnSet(AttemptsOf(t)', Carriers(t)')
<1>1. AttemptsOf(t)' = AttemptsOf(t)
  BY DEF AttemptsOf
<1>. QED
  BY <1>1

LEMMA CarriersKept ==
    ASSUME BatchesStay, NoNewBatch, NEW t
    PROVE  Carriers(t)' = Carriers(t)
  BY DEF BatchesStay, NoNewBatch, Carriers

LEMMA AttemptsAccountedParts ==
    AttemptsAccounted <=> \A t \in Txn : Stored(t) =>
                            txn[t].attempts = SumFunctionOnSet(AttemptsOf(t), Carriers(t))
  BY DEF AttemptsAccounted, AttemptsOf

(* While the reader uses only batches, the attempts of a transaction are the
   submissions of its batches, for any number of batches and retries:
   mark_synchronization_batch_in_flight counts both together and nothing else
   counts either. *)
THEOREM AttemptsAlwaysAccounted == BatchViewSpec => []AttemptsAccounted
<1>BatchNextAttempts. ASSUME ViewInd, AttemptsAccounted, BatchNext
                      PROVE  AttemptsAccounted'
  <2>. USE <1>BatchNextAttempts
  (* Steps that count no attempt and insert no row and no batch. *)
  <2>UncountedStep. ASSUME AttemptsAccounted, AttemptsStay, NoNewRow, BatchesStay, NoNewBatch
                    PROVE  AttemptsAccounted'
    <3>. USE <2>UncountedStep
    <3>. SUFFICES ASSUME NEW t \in Txn, txn'[t] # NULL
                  PROVE  txn'[t].attempts = SumFunctionOnSet(AttemptsOf(t)', Carriers(t)')
      BY DEF AttemptsAccounted, AttemptsOf, Stored
    <3>1. Stored(t) /\ txn'[t].attempts = txn[t].attempts
      BY DEF NoNewRow, AttemptsStay
    <3>2. txn[t].attempts = SumFunctionOnSet(AttemptsOf(t), Carriers(t))
      BY <3>1, AttemptsAccountedParts
    <3>3. \A b \in Carriers(t) : batch'[b].attempts = batch[b].attempts
      BY DEF AttemptsStay, Carriers
    <3>. QED
      BY <3>1, <3>2, <3>3, CarriersKept, AttemptsUnchanged, SMTT(30)
  <2>EnqueueAttempts. ASSUME ViewInd, AttemptsAccounted, NEW t \in Txn, NEW at \in Time, EnqueueOfflineTransaction(t, at)
                      PROVE  AttemptsAccounted'
    <3>. USE <2>EnqueueAttempts
    <3>0. StoreTypeOK
      BY DEF ViewInd, StoreInd
    <3>1. /\ txn[t] = NULL /\ txn'[t].attempts = 0 /\ batch' = batch
          /\ \A u \in Txn : u # t => txn'[u] = txn[u]
      BY <3>0, EnqueueTouches
    <3>. SUFFICES ASSUME NEW u \in Txn, txn'[u] # NULL
                  PROVE  txn'[u].attempts = SumFunctionOnSet(AttemptsOf(u)', Carriers(u)')
      BY DEF AttemptsAccounted, AttemptsOf, Stored
    <3>2. Carriers(u)' = Carriers(u) /\ AttemptsOf(u)' = AttemptsOf(u)
      BY <3>1 DEF Carriers, AttemptsOf
    <3>3. CASE u = t
      <4>1. Carriers(t) = {}
        BY <3>1 DEF Carriers, ViewInd, BatchesDated, Stored
      <4>. QED
        BY <3>1, <3>2, <3>3, <4>1, SumOfNone
    <3>4. CASE u # t
      BY <3>1, <3>2, <3>4, AttemptsAccountedParts DEF Stored
    <3>. QED
      BY <3>3, <3>4
  (* A new batch carries its entries and has no attempts. *)
  <2>CreateAttempts. ASSUME ViewInd, AttemptsAccounted, NEW b \in Batch, NEW limit \in Limits, NEW at \in Time,
                            CreateSynchronizationBatch(b, limit, at)
                     PROVE  AttemptsAccounted'
    <3>. USE <2>CreateAttempts
    <3>0. StoreTypeOK
      BY DEF ViewInd, StoreInd
    <3>1. /\ NoNewRow /\ batch[b] = NULL /\ batch'[b] # NULL /\ AttemptsStay /\ batch'[b].attempts = 0
          /\ \A c \in Batch : c # b => batch'[c] = batch[c]
      BY <3>0, CreateTouches, CreateSynchronizationBatchStep
    <3>. SUFFICES ASSUME NEW t \in Txn, txn'[t] # NULL
                  PROVE  txn'[t].attempts = SumFunctionOnSet(AttemptsOf(t)', Carriers(t)')
      BY DEF AttemptsAccounted, AttemptsOf, Stored
    <3>2. Stored(t) /\ txn'[t].attempts = txn[t].attempts
      BY <3>1 DEF NoNewRow, AttemptsStay
    <3>3. txn[t].attempts = SumFunctionOnSet(AttemptsOf(t), Carriers(t))
      BY <3>2, AttemptsAccountedParts
    <3>4. /\ IsFiniteSet(Carriers(t)) /\ b \notin Carriers(t)
          /\ \A c \in Carriers(t) : c \in Batch /\ c # b /\ AttemptsOf(t)[c] \in Nat
      BY <3>1, CarriersFinite DEF Carriers
    <3>5. CASE t \notin batch'[b].entries
      <4>1. Carriers(t)' = Carriers(t)
        BY <3>1, <3>5 DEF Carriers
      <4>. QED
        BY <3>1, <3>2, <3>3, <3>4, <4>1, AttemptsUnchanged
    <3>6. CASE t \in batch'[b].entries
      <4>1. PICK C : C = Carriers(t)
        OBVIOUS
      <4>2. PICK f : f = AttemptsOf(t)
        OBVIOUS
      <4>3. PICK D : D = Carriers(t)'
        OBVIOUS
      <4>4. PICK g : g = AttemptsOf(t)'
        OBVIOUS
      <4>5. D = C \cup {b} /\ b \notin C
        BY <3>1, <3>4, <3>6, <4>1, <4>3 DEF Carriers
      <4>6. /\ g[b] = 0
            /\ \A c \in C : g[c] = f[c] /\ f[c] \in Nat
        BY <3>1, <3>4, <4>1, <4>2, <4>3, <4>4, <4>5 DEF AttemptsOf
      <4>7. IsFiniteSet(C) /\ IsFiniteSet(D) /\ b \in D /\ D \ {b} = C
        BY <3>4, <4>1, <4>5, FS_AddElement
      <4>8. \A c \in D : g[c] \in Nat
        BY <4>5, <4>6, SMTT(30)
      <4>9. SumFunctionOnSet(g, D) = g[b] + SumFunctionOnSet(g, D \ {b})
        BY <4>7, <4>8, SumRemove
      <4>10. SumFunctionOnSet(g, C) = SumFunctionOnSet(f, C)
        BY <4>6, <4>7, SumSame
      <4>11. SumFunctionOnSet(f, C) \in Nat
        BY <4>6, <4>7, SumNat
      <4>12. SumFunctionOnSet(g, D) = SumFunctionOnSet(f, C)
        <5>1. SumFunctionOnSet(g, D \ {b}) = SumFunctionOnSet(f, C)
          BY <4>7, <4>10
        <5>2. SumFunctionOnSet(g, D) = 0 + SumFunctionOnSet(f, C)
          BY <4>6, <4>9, <5>1
        <5>. QED
          BY <4>11, <5>2, SMTT(30)
      <4>. QED
        BY <3>2, <3>3, <4>1, <4>2, <4>3, <4>4, <4>12
    <3>. QED
      BY <3>5, <3>6
  (* A submission counts one attempt for the batch and one for each entry. *)
  <2>MarkAttempts. ASSUME ViewInd, AttemptsAccounted, NEW b \in Batch, NEW at \in Time,
                          MarkSynchronizationBatchInFlight(b, at)
                   PROVE  AttemptsAccounted'
    <3>. USE <2>MarkAttempts
    <3>0. StoreTypeOK
      BY DEF ViewInd, StoreInd
    <3>1. /\ NoNewRow /\ BatchesStay /\ NoNewBatch
          /\ batch[b] # NULL /\ batch'[b].attempts = batch[b].attempts + 1
          /\ \A c \in Batch : c # b => batch'[c] = batch[c]
          /\ \A t \in Txn : t \notin batch[b].entries => txn'[t] = txn[t]
          /\ \A t \in batch[b].entries : txn'[t].attempts = txn[t].attempts + 1
      BY <3>0, MarkTouches, MarkSynchronizationBatchInFlightStep
    <3>. SUFFICES ASSUME NEW t \in Txn, txn'[t] # NULL
                  PROVE  txn'[t].attempts = SumFunctionOnSet(AttemptsOf(t)', Carriers(t)')
      BY DEF AttemptsAccounted, AttemptsOf, Stored
    <3>2. Stored(t)
      BY <3>1 DEF NoNewRow
    <3>3. txn[t].attempts = SumFunctionOnSet(AttemptsOf(t), Carriers(t))
      BY <3>2, AttemptsAccountedParts
    <3>4. Carriers(t)' = Carriers(t)
      BY <3>1, CarriersKept
    <3>5. IsFiniteSet(Carriers(t)) /\ \A c \in Carriers(t) : c \in Batch /\ AttemptsOf(t)[c] \in Nat
      BY CarriersFinite
    <3>6. CASE t \notin batch[b].entries
      <4>1. \A c \in Carriers(t) : batch'[c].attempts = batch[c].attempts
        BY <3>1, <3>5, <3>6 DEF Carriers
      <4>2. txn'[t].attempts = txn[t].attempts
        BY <3>1, <3>6
      <4>. QED
        BY <3>3, <3>4, <4>1, <4>2, AttemptsUnchanged
    <3>7. CASE t \in batch[b].entries
      <4>1. PICK C : C = Carriers(t)
        OBVIOUS
      <4>2. PICK f : f = AttemptsOf(t)
        OBVIOUS
      <4>3. PICK g : g = AttemptsOf(t)'
        OBVIOUS
      <4>4. b \in C
        BY <3>1, <3>7, <4>1 DEF Carriers
      <4>5. g[b] = f[b] + 1 /\ \A c \in C \ {b} : g[c] = f[c]
        BY <3>1, <3>4, <3>5, <4>1, <4>2, <4>3, <4>4 DEF AttemptsOf
      <4>6. \A c \in C : f[c] \in Nat
        BY <3>5, <4>1, <4>2
      <4>7. \A c \in C : f[c] \in Nat /\ g[c] \in Nat
        BY <4>4, <4>5, <4>6, SMTT(30)
      <4>8. SumFunctionOnSet(g, C) = SumFunctionOnSet(f, C) - f[b] + g[b]
        BY <3>5, <4>1, <4>4, <4>5, <4>7, SumChange, SMTT(30)
      <4>9. SumFunctionOnSet(f, C) \in Nat
        BY <3>5, <4>1, <4>7, SumNat
      <4>10. SumFunctionOnSet(g, C) = SumFunctionOnSet(f, C) + 1
        BY <4>4, <4>5, <4>7, <4>8, <4>9, SMTT(30)
      <4>11. txn'[t].attempts = txn[t].attempts + 1
        BY <3>1, <3>7
      <4>. QED
        BY <3>3, <3>4, <4>1, <4>2, <4>3, <4>10, <4>11
    <3>. QED
      BY <3>6, <3>7
  <2>0. PICK at \in Time :
         \/ \E t \in Txn : EnqueueOfflineTransaction(t, at)
         \/ RecoverInterruptedSynchronizationBatches(at)
         \/ RecoverInterruptedOfflineQueue(at)
         \/ \E b \in Batch :
              \/ \E limit \in Limits : CreateSynchronizationBatch(b, limit, at)
              \/ MarkSynchronizationBatchInFlight(b, at)
              \/ \E retryAt \in Time : RecordSynchronizationRetryableFailure(b, at, retryAt)
              \/ \E state \in FinalFailure : RecordFinalSynchronizationFailure(b, state, at)
              \/ \E outcome : StoreSynchronizationAcknowledgement(b, at, outcome)
              \/ ApplySynchronizationAcknowledgement(b, at)
    BY DEF BatchNext
  <2>. StoreTypeOK /\ SubmissionTimed
    BY DEF ViewInd, StoreInd
  <2>1. ASSUME RecoverInterruptedSynchronizationBatches(at)
        PROVE  AttemptsAccounted'
    <3>1. UNCHANGED <<readerState, txn>>
      BY <2>1 DEF RecoverInterruptedSynchronizationBatches
    <3>. QED
      BY <2>1, <3>1, RowsUnchanged, RecoverInterruptedSynchronizationBatchesStep,
         RecoverBatchesTouches, <2>UncountedStep
  <2>2. ASSUME RecoverInterruptedOfflineQueue(at)
        PROVE  AttemptsAccounted'
    <3>1. UNCHANGED batch
      BY <2>2 DEF RecoverInterruptedOfflineQueue
    <3>. QED
      BY <2>2, <3>1, BatchesUnchanged, RecoverInterruptedOfflineQueueStep, RecoverQueueTouches,
         <2>UncountedStep
  <2>3. ASSUME NEW b \in Batch, NEW retryAt \in Time,
               RecordSynchronizationRetryableFailure(b, at, retryAt)
        PROVE  AttemptsAccounted'
    <3>1. UNCHANGED <<readerState, txn>>
      BY <2>3 DEF RecordSynchronizationRetryableFailure
    <3>. QED
      BY <2>3, <3>1, RowsUnchanged, RecordSynchronizationRetryableFailureStep, RecordRetryTouches,
         <2>UncountedStep
  <2>4. ASSUME NEW b \in Batch, NEW state \in FinalFailure,
               RecordFinalSynchronizationFailure(b, state, at)
        PROVE  AttemptsAccounted'
    BY <2>4, RecordFinalSynchronizationFailureStep, RecordFinalTouches, <2>UncountedStep
  <2>5. ASSUME NEW b \in Batch, NEW outcome, StoreSynchronizationAcknowledgement(b, at, outcome)
        PROVE  AttemptsAccounted'
    <3>1. UNCHANGED <<readerState, txn>> /\ UNCHANGED batch
      BY <2>5 DEF StoreSynchronizationAcknowledgement
    <3>. QED
      BY <2>5, <3>1, RowsUnchanged, BatchesUnchanged, StoreTouches, <2>UncountedStep
  <2>6. ASSUME NEW b \in Batch, ApplySynchronizationAcknowledgement(b, at)
        PROVE  AttemptsAccounted'
    BY <2>6, ApplySynchronizationAcknowledgementStep, ApplyTouches, <2>UncountedStep
  <2>. QED
    BY <2>0, <2>1, <2>2, <2>3, <2>4, <2>5, <2>6, <2>EnqueueAttempts, <2>CreateAttempts, <2>MarkAttempts
<1>1. StoreInit => AttemptsAccounted
  BY DEF StoreInit, AttemptsAccounted, Stored
<1>2. ViewInd /\ AttemptsAccounted /\ [BatchNext]_storeVars => AttemptsAccounted'
  <2>1. ASSUME UNCHANGED storeVars, AttemptsAccounted
        PROVE  AttemptsAccounted'
    <3>1. UNCHANGED <<txn, batch>>
      BY <2>1 DEF storeVars
    <3>. QED
      BY <2>1, <3>1 DEF AttemptsAccounted, Carriers, Stored
  <2>. QED
    BY <2>1, <1>BatchNextAttempts
<1>. QED
  BY <1>1, <1>2, BatchViewsRefineStore, ViewInvariant, PTL DEF BatchSpec

=============================================================================
