-------------------------- MODULE RollupScanProofs --------------------------
(***************************************************************************)
(* Theorems about RollupScan, for any stream, number of workers and limit: *)
(* its types, that nothing outlives a rollup, and that the result of one   *)
(* is the reference aggregation of all that was read.  Sums and folds over *)
(* sets are reasoned about by induction on the set (SetInduct, which rests *)
(* on the least counterexample): the reference grows by one batch, in any  *)
(* order, by one merge (ReferenceTakes, MergeAllIs), and ScanInv says what *)
(* is merged at every point of the reader.                                 *)
(***************************************************************************)
EXTENDS RollupScan, FiniteSetTheorems, TLAPS

Live == {i \in 1..MaxBatches : future[i] \in {"pending", "running"}}

(* While the reader reads, all live futures are pending ones, and there is *)
(* room for one more; in the finally block a future waits for a worker only*)
(* as long as it is to be cancelled.                                       *)
Pipeline ==
  /\ \A i \in 1..MaxBatches :
       /\ i >= pos => future[i] = "none"
       /\ future[i] = "pending" => i \in pending
       /\ future[i] = "running" /\ pc \in {"read", "wait", "drain"}
            => i \in pending
  /\ Cardinality(Live) =< MaxPending
  /\ pc = "read" => Cardinality(pending) < MaxPending
  /\ Cardinality(pending) =< MaxPending
  /\ pc \in {"seed", "report", "over"} => Live = {} /\ pending = {}

LEMMA StreamLength ==
  ASSUME ControlTypeOK
  PROVE  Len(stream) \in 0..MaxBatches /\ pos \in 1..(MaxBatches + 1)
<1>1. PICK n \in 0..MaxBatches : stream \in [1..n -> Batches]
  BY RollupAssumption DEF ControlTypeOK
<1>2. Len(stream) = n
  BY <1>1, RollupAssumption
<1> QED
  BY <1>1, <1>2, RollupAssumption DEF ControlTypeOK

LEMMA TypeInit == Init => ControlTypeOK
<1> SUFFICES ASSUME Init
             PROVE  ControlTypeOK
  OBVIOUS
<1>1. PICK n \in 0..MaxBatches : stream \in [1..n -> Batches]
  BY RollupAssumption DEF Init
<1>2. Len(stream) = n
  BY <1>1, RollupAssumption
<1> QED
  BY <1>1, <1>2, RollupAssumption DEF Init, ControlTypeOK

LEMMA TypeStep ==
  ASSUME ControlTypeOK, [Next]_vars
  PROVE  ControlTypeOK'
<1> USE RollupAssumption DEF ControlTypeOK, catalog, Raise
<1>1. Len(stream) \in 0..MaxBatches /\ pos \in 1..(MaxBatches + 1)
  BY StreamLength
<1>2. CASE SkipEmpty
  BY <1>1, <1>2 DEF SkipEmpty
<1>3. CASE Feed
  BY <1>1, <1>3 DEF Feed
<1>10. CASE FeedInline
  <2>1. /\ pos \in 1..Len(stream) /\ pos' = pos + 1
        /\ UNCHANGED <<future, pending>>
        /\ pc' \in {"read", "unwind"} /\ UNCHANGED <<stream, dirs, pooled>>
        /\ outcome' \in {outcome, "wide", "failed"}
    BY <1>10 DEF FeedInline
  <2> QED
    BY <1>1, <2>1
<1>4. CASE StreamFails \/ StreamEnds \/ Drained \/ Shutdown \/ SeedFails
           \/ Report \/ ReportRaises
  BY <1>4 DEF StreamFails, StreamEnds, Drained, Shutdown, SeedFails, Report,
     ReportRaises
<1>5. CASE Collect
  BY <1>1, <1>5 DEF Collect, Done
<1>6. ASSUME NEW i \in pending, Cancel(i)
      PROVE  ControlTypeOK'
  BY <1>6 DEF Cancel
<1>7. CASE Seed
  BY <1>7 DEF Seed
<1>8. ASSUME NEW i \in 1..MaxBatches, Take(i) \/ Aggregate(i)
      PROVE  ControlTypeOK'
  BY <1>8 DEF Take, Aggregate
<1>9. CASE UNCHANGED vars
  BY <1>9 DEF vars
<1> QED
  BY <1>2, <1>3, <1>4, <1>5, <1>6, <1>7, <1>8, <1>9, <1>10
  DEF Next, Reader, Workers, Over

LEMMA PipelineInit == Init => Pipeline
<1> SUFFICES ASSUME Init
             PROVE  Pipeline
  OBVIOUS
<1>1. Live = {}
  BY DEF Init, Live
<1> QED
  BY <1>1, FS_EmptySet, RollupAssumption DEF Init, Pipeline, MaxPending

LEMMA PipelineStep ==
  ASSUME ControlTypeOK, Pipeline, [Next]_vars
  PROVE  Pipeline'
<1> USE RollupAssumption DEF ControlTypeOK
<1>1. /\ Len(stream) \in 0..MaxBatches /\ pos \in 1..(MaxBatches + 1)
      /\ MaxPending \in Nat
  BY StreamLength DEF MaxPending
<1>2. /\ IsFiniteSet(1..MaxBatches) /\ pending \subseteq 1..MaxBatches
      /\ IsFiniteSet(pending) /\ Cardinality(pending) \in Nat
      /\ IsFiniteSet(Live) /\ Cardinality(Live) \in Nat
  <2>1. IsFiniteSet(1..MaxBatches)
    BY FS_Interval
  <2>2. pending \subseteq 1..MaxBatches /\ Live \subseteq 1..MaxBatches
    BY <1>1 DEF Live
  <2> QED
    BY <2>1, <2>2, FS_Subset, FS_CardinalityType
<1>3. ASSUME NEW A \in SUBSET Live
      PROVE  Cardinality(A) =< MaxPending
  BY <1>1, <1>2, <1>3, FS_Subset, FS_CardinalityType DEF Pipeline
<1>4. ASSUME NEW A \in SUBSET pending
      PROVE  Cardinality(A) =< MaxPending
  <2>1. Cardinality(pending) =< MaxPending
    BY DEF Pipeline
  <2>2. Cardinality(A) \in Nat /\ Cardinality(A) =< Cardinality(pending)
    BY <1>2, <1>4, FS_Subset, FS_CardinalityType
  <2> QED
    BY <1>1, <1>2, <2>1, <2>2
<1>5. ASSUME UNCHANGED <<future, pending, pos>>, pc' \in {"drain", "unwind"},
             pc' = "drain" => pc \in {"read", "wait", "drain"},
             pc \notin {"seed", "report", "over"}
      PROVE  Pipeline'
  BY <1>5 DEF Pipeline, Live
<1>6. CASE SkipEmpty \/ FeedInline
  <2>1. /\ pc = "read" /\ pc' \in {"read", "unwind"} /\ pos' = pos + 1
        /\ UNCHANGED <<future, pending>>
    BY <1>6 DEF SkipEmpty, FeedInline, Raise
  <2> QED
    BY <1>1, <2>1 DEF Pipeline, Live
<1>7. CASE Feed
  <2>1. pc = "read" /\ pos \in 1..MaxBatches
    BY <1>1, <1>7 DEF Feed
  <2>2. /\ future' = [future EXCEPT ![pos] = "pending"]
        /\ pos' = pos + 1 /\ pending' = pending \cup {pos} /\ pos \notin pending
        /\ pc' = (IF Full(pending') THEN "wait" ELSE "read") \/ pc' = "unwind"
    BY <1>7 DEF Feed, Raise
  <2>3. /\ Cardinality(pending') = Cardinality(pending) + 1
        /\ IsFiniteSet(pending')
    BY <1>2, <2>2, FS_AddElement
  <2>4. Cardinality(pending') =< MaxPending
    BY <1>1, <1>2, <2>1, <2>3 DEF Pipeline
  <2>5. Live' \subseteq pending'
    BY <2>1, <2>2 DEF Live, Pipeline
  <2>6. Cardinality(Live') =< MaxPending
    BY <1>1, <1>2, <2>3, <2>4, <2>5, FS_Subset, FS_CardinalityType
  <2>7. pc' = "read" => Cardinality(pending') < MaxPending
    BY <1>1, <1>2, <2>2, <2>3 DEF Full
  <2>8. \A i \in 1..MaxBatches :
          /\ i >= pos' => future'[i] = "none"
          /\ future'[i] = "pending" => i \in pending'
          /\ future'[i] = "running" => i \in pending'
    BY <1>1, <2>1, <2>2 DEF Pipeline
  <2>9. pc' \in {"read", "wait", "unwind"}
    BY <2>2
  <2> QED
    BY <2>4, <2>6, <2>7, <2>8, <2>9 DEF Pipeline
<1>8. CASE StreamFails \/ StreamEnds \/ Drained
  BY <1>5, <1>8 DEF StreamFails, StreamEnds, Drained, Raise
<1>9. CASE Collect
  <2>1. /\ pending' = pending \ Done /\ Done \in SUBSET pending /\ Done # {}
        /\ UNCHANGED <<future, pos>> /\ Live' = Live
        /\ pc \in {"wait", "drain"} /\ pc' \in {"read", "drain", "unwind"}
    BY <1>9 DEF Collect, Done, Raise, Live
  <2>2. Cardinality(pending') < Cardinality(pending)
    <3>1. pending' \in SUBSET pending /\ pending' # pending
      BY <2>1
    <3>2. /\ Cardinality(pending') =< Cardinality(pending)
          /\ Cardinality(pending) # Cardinality(pending')
          /\ Cardinality(pending') \in Nat
      BY <1>2, <3>1, FS_Subset, FS_CardinalityType
    <3> QED
      BY <1>2, <3>2
  <2>3. IsFiniteSet(pending') /\ Cardinality(pending') \in Nat
    BY <1>2, <2>1, FS_Subset, FS_CardinalityType
  <2>4. Cardinality(pending') < MaxPending
    BY <1>1, <1>2, <2>2, <2>3 DEF Pipeline
  <2> QED
    BY <1>1, <2>1, <2>3, <2>4 DEF Pipeline, Done
<1>10. ASSUME NEW i \in pending, Cancel(i)
       PROVE  Pipeline'
  <2>1. /\ pending' = pending \ {i} /\ pc = "unwind" /\ pc' = pc /\ pos' = pos
        /\ future' = IF future[i] = "pending"
                     THEN [future EXCEPT ![i] = "cancelled"] ELSE future
    BY <1>10 DEF Cancel
  <2>2. Live' \in SUBSET Live
    BY <2>1 DEF Live
  <2>3. Cardinality(Live') =< MaxPending /\ Cardinality(pending') =< MaxPending
    BY <1>3, <1>4, <2>1, <2>2
  <2> QED
    BY <1>1, <2>1, <2>3 DEF Pipeline
<1>11. CASE Shutdown
  <2>1. Live = {}
    BY <1>11 DEF Shutdown, Running, Pipeline, Live
  <2> QED
    BY <1>11, <2>1 DEF Shutdown, Pipeline, Live
<1>12. CASE Seed \/ SeedFails \/ Report \/ ReportRaises
  <2>1. /\ pc \in {"seed", "report"} /\ pc' \in {"report", "over"}
        /\ UNCHANGED <<future, pending, pos>>
    BY <1>12 DEF Seed, SeedFails, Report, ReportRaises
  <2> QED
    BY <2>1 DEF Pipeline, Live
<1>13. ASSUME NEW i \in 1..MaxBatches, Take(i) \/ Aggregate(i)
       PROVE  Pipeline'
  <2>1. /\ future[i] \in {"pending", "running"}
        /\ future'[i] # "pending"
        /\ future'[i] = "running" => future[i] = "pending"
        /\ \A j \in 1..MaxBatches \ {i} : future'[j] = future[j]
        /\ UNCHANGED <<pending, pos, pc>>
    BY <1>13 DEF Take, Aggregate
  <2>2. Live' \in SUBSET Live
    BY <2>1 DEF Live
  <2>3. Cardinality(Live') =< MaxPending
    BY <1>3, <2>2
  <2> QED
    BY <1>1, <2>1, <2>2, <2>3 DEF Pipeline, Live
<1>14. CASE UNCHANGED vars
  BY <1>14 DEF vars, Pipeline, Live
<1> QED
  BY <1>6, <1>7, <1>8, <1>9, <1>10, <1>11, <1>12, <1>13, <1>14
  DEF Next, Reader, Workers, Over

LEMMA Invariance == Spec => [](ControlTypeOK /\ Pipeline)
<1>1. Init => ControlTypeOK /\ Pipeline
  BY TypeInit, PipelineInit
<1>2. ControlTypeOK /\ Pipeline /\ [Next]_vars => (ControlTypeOK /\ Pipeline)'
  BY TypeStep, PipelineStep
<1> QED
  BY <1>1, <1>2, PTL DEF Spec

(* Position, futures and pending set keep their types                      *)
(* (catalog.py:477-503).                                                   *)
THEOREM ControlTypes == Spec => []ControlTypeOK
BY Invariance, PTL

(* However a rollup ends, no aggregation is left queued or running, and    *)
(* never are more than max_pending (catalog.py:493-502).                   *)
THEOREM CleansUp == Spec => []NothingLeftBehind
<1>1. Pipeline => NothingLeftBehind
  BY DEF Pipeline, Live, NothingLeftBehind
<1> QED
  BY <1>1, Invariance, PTL

-----------------------------------------------------------------------------
(* Induction over the numbers up to one: there is no least exception.      *)

LEMMA LeastNat ==
  ASSUME NEW T \in SUBSET Nat, T # {}
  PROVE  \E x \in T : \A y \in T : x =< y
<1> DEFINE R == {ss \in Nat \X Nat : ss[1] < ss[2]}
<1>1. IsWellFoundedOn(R, Nat)
  BY NatLessThanWellFounded DEF OpToRel
<1>2. \E x \in T : \A y \in T : ~ (<<y, x>> \in R)
  <2> HIDE DEF R
  <2> QED
  BY <1>1, WFMin
<1>3. ASSUME NEW x \in T, NEW y \in T, ~ (<<y, x>> \in R) PROVE x =< y
  BY <1>3
<1> QED
  BY <1>2, <1>3

LEMMA Induct ==
  ASSUME NEW m \in Nat, NEW T \in SUBSET (0..m), 0 \in T,
         \A n \in T : n < m => n + 1 \in T
  PROVE  T = 0..m
<1>1. SUFFICES ASSUME (0..m) \ T # {} PROVE FALSE
  OBVIOUS
<1>2. PICK x \in (0..m) \ T : \A y \in (0..m) \ T : x =< y
  <2>1. (0..m) \ T \in SUBSET Nat
    OBVIOUS
  <2>2. QED
    BY <2>1, <1>1, LeastNat
<1>3. x - 1 \in T /\ x - 1 < m
  BY <1>2
<1>4. QED
  BY <1>2, <1>3

-----------------------------------------------------------------------------
(* Finite sets, element by element, and what folds over them compute.      *)

Pick(s) == CHOOSE x \in s : TRUE

LEMMA Picked ==
  ASSUME NEW S, IsFiniteSet(S), NEW s \in SUBSET S
  PROVE  /\ IsFiniteSet(s) /\ Cardinality(s) \in 0..Cardinality(S)
         /\ Cardinality(S) \in Nat
         /\ s = {} <=> Cardinality(s) = 0
         /\ \A x \in s : /\ Cardinality(s \ {x}) = Cardinality(s) - 1
                         /\ s \ {x} \in SUBSET S
         /\ s # {} => Pick(s) \in s
<1>1. IsFiniteSet(s) /\ Cardinality(s) =< Cardinality(S)
  BY FS_Subset
<1>2. Cardinality(s) \in Nat /\ Cardinality(S) \in Nat
  BY <1>1, FS_CardinalityType
<1>3. s = {} <=> Cardinality(s) = 0
  BY <1>1, FS_EmptySet
<1>4. \A x \in s : Cardinality(s \ {x}) = Cardinality(s) - 1
  BY <1>1, FS_RemoveElement
<1>5. s # {} => Pick(s) \in s
  BY DEF Pick
<1>6. QED
  BY <1>1, <1>2, <1>3, <1>4, <1>5

LEMMA SetInduct ==
  ASSUME NEW S, IsFiniteSet(S), NEW T \in SUBSET (SUBSET S), {} \in T,
         \A s \in SUBSET S : s # {} /\ s \ {Pick(s)} \in T => s \in T
  PROVE  T = SUBSET S
<1> DEFINE m == Cardinality(S)
           K == {n \in 0..m : \A s \in SUBSET S : Cardinality(s) = n => s \in T}
<1>1. m \in Nat /\ \A s \in SUBSET S : Cardinality(s) \in 0..m
  BY Picked
<1>2. K \in SUBSET (0..m) /\ 0 \in K
  <2>1. \A s \in SUBSET S : Cardinality(s) = 0 => s \in T
    <3>1. \A s \in SUBSET S : Cardinality(s) = 0 => s = {}
      BY Picked
    <3>2. QED
      BY <3>1
  <2>2. 0 \in 0..m
    BY <1>1
  <2>3. QED
    BY <2>1, <2>2
<1>3. ASSUME NEW n \in K, n < m PROVE n + 1 \in K
  <2>1. ASSUME NEW s \in SUBSET S, Cardinality(s) = n + 1 PROVE s \in T
    <3>1. n \in Nat /\ s # {} /\ Pick(s) \in s
      BY <1>1, <2>1, Picked
    <3>2. Cardinality(s \ {Pick(s)}) = n /\ s \ {Pick(s)} \in SUBSET S
      BY <2>1, <3>1, Picked
    <3>3. QED
      BY <3>1, <3>2
  <2>2. n + 1 \in 0..m
    BY <1>1, <1>3
  <2>3. QED
    BY <2>1, <2>2
<1>4. K = 0..m
  <2> HIDE DEF K, m
  <2>1. QED
    BY <1>1, <1>2, <1>3, Induct
<1>5. QED
  BY <1>1, <1>4

(* The functions that fold the sets of elements of S into V, by steps st.  *)
SetRuns(S, V, b, st) ==
  {g \in [SUBSET S -> V] :
     /\ g[{}] = b
     /\ \A s \in SUBSET S : s # {} => g[s] = st[Pick(s)][g[s \ {Pick(s)}]]}

LEMMA SetRecursion ==
  ASSUME NEW S, IsFiniteSet(S), NEW V, NEW b \in V, NEW st \in [S -> [V -> V]]
  PROVE  SetRuns(S, V, b, st) # {}
<1> DEFINE m == Cardinality(S)
           Upto(n) == {s \in SUBSET S : Cardinality(s) =< n}
           Good(g, n) == \A s \in Upto(n) :
              g[s] = IF s = {} THEN b ELSE st[Pick(s)][g[s \ {Pick(s)}]]
           T == {n \in 0..m : \E g \in [Upto(n) -> V] : Good(g, n)}
<1>1. m \in Nat /\ \A s \in SUBSET S : Cardinality(s) \in 0..m
  BY Picked
<1>2. T \in SUBSET (0..m) /\ 0 \in T
  <2> DEFINE g == [s \in Upto(0) |-> b]
  <2>1. \A s \in Upto(0) : s = {}
    <3>1. \A s \in Upto(0) : Cardinality(s) = 0
      BY <1>1
    <3>2. QED
      BY <3>1, Picked
  <2>2. g \in [Upto(0) -> V] /\ Good(g, 0)
    BY <2>1
  <2>3. \E h \in [Upto(0) -> V] : Good(h, 0)
    <3> HIDE DEF Good, g, Upto
    <3>1. QED
      BY <2>2
  <2> HIDE DEF Good, Upto
  <2>4. QED
    BY <1>1, <2>3
<1>3. ASSUME NEW n \in T, n < m PROVE n + 1 \in T
  <2>1. PICK g \in [Upto(n) -> V] : Good(g, n)
    OBVIOUS
  <2> DEFINE h == [s \in Upto(n + 1) |->
                     IF s = {} THEN b ELSE st[Pick(s)][g[s \ {Pick(s)}]]]
  <2>2. n \in Nat /\ n + 1 \in 0..m
    BY <1>1, <1>3
  <2>3. ASSUME NEW s \in Upto(n + 1), s # {}
        PROVE  Pick(s) \in S /\ s \ {Pick(s)} \in Upto(n)
    <3>1. s \in SUBSET S /\ Cardinality(s) =< n + 1 /\ Cardinality(s) \in Nat
      BY <1>1
    <3>2. Pick(s) \in s /\ Cardinality(s \ {Pick(s)}) = Cardinality(s) - 1
      BY <2>3, <3>1, Picked
    <3>3. QED
      BY <2>2, <3>1, <3>2
  <2>4. h \in [Upto(n + 1) -> V]
    <3> HIDE DEF Upto
    <3>1. \A s \in Upto(n + 1) : s # {} => st[Pick(s)][g[s \ {Pick(s)}]] \in V
      BY <2>1, <2>3
    <3>2. QED
      BY <3>1
  <2>5. \A s \in Upto(n) : s \in Upto(n + 1) /\ h[s] = g[s]
    <3>1. \A s \in Upto(n) : s \in Upto(n + 1)
      BY <1>1, <2>2
    <3>2. QED
      BY <2>1, <3>1
  <2>6. Good(h, n + 1)
    <3>1. \A s \in Upto(n + 1) : s # {} => h[s \ {Pick(s)}] = g[s \ {Pick(s)}]
      BY <2>3, <2>5
    <3> HIDE DEF Upto
    <3>2. \A s \in Upto(n + 1) :
             h[s] = IF s = {} THEN b ELSE st[Pick(s)][g[s \ {Pick(s)}]]
      OBVIOUS
    <3> HIDE DEF h
    <3>3. QED
      BY <3>1, <3>2
  <2> HIDE DEF h, Good, Upto
  <2>7. QED
    BY <2>2, <2>4, <2>6
<1>4. m \in T
  <2> HIDE DEF T, m
  <2>1. QED
    BY <1>1, <1>2, <1>3, Induct
<1>5. PICK g \in [Upto(m) -> V] : Good(g, m)
  <2> HIDE DEF Good, Upto
  <2>1. QED
    BY <1>4
<1>6. Upto(m) = SUBSET S
  BY <1>1
<1>7. g \in SetRuns(S, V, b, st)
  BY <1>5, <1>6 DEF SetRuns
<1>8. QED
  BY <1>7

(* Two steps of which it does not matter which comes first.                *)
Commute(S, V, st) ==
  \A x, y \in S : \A v \in V : st[x][st[y][v]] = st[y][st[x][v]]

AnyLast(S, st, g) == \A s \in SUBSET S : \A x \in s : g[s] = st[x][g[s \ {x}]]

\* Then the order in which the elements are taken does not matter.
LEMMA AnyOrder ==
  ASSUME NEW S, IsFiniteSet(S), NEW V, NEW b \in V, NEW st \in [S -> [V -> V]],
         Commute(S, V, st), NEW g \in SetRuns(S, V, b, st)
  PROVE  AnyLast(S, st, g)
<1> DEFINE Alike(s) == \A x \in s : g[s] = st[x][g[s \ {x}]]
           m == Cardinality(S)
           K == {n \in 0..m : \A s \in SUBSET S : Cardinality(s) = n => Alike(s)}
<1>0. /\ g \in [SUBSET S -> V]
      /\ \A s \in SUBSET S : s # {} => g[s] = st[Pick(s)][g[s \ {Pick(s)}]]
  BY DEF SetRuns
<1>1. m \in Nat /\ \A s \in SUBSET S : Cardinality(s) \in 0..m
  BY Picked
<1>2. K \in SUBSET (0..m) /\ 0 \in K
  <2>1. \A s \in SUBSET S : Cardinality(s) = 0 => s = {}
    BY Picked
  <2>2. QED
    BY <1>1, <2>1
<1>3. ASSUME NEW n \in K, n < m PROVE n + 1 \in K
  <2>1. ASSUME NEW s \in SUBSET S, Cardinality(s) = n + 1, NEW x \in s
        PROVE  g[s] = st[x][g[s \ {x}]]
    <3> DEFINE p == Pick(s)
               r == (s \ {p}) \ {x}
    <3>1. n \in Nat /\ s # {} /\ p \in s
      BY <1>1, <2>1, Picked
    <3>2. g[s] = st[p][g[s \ {p}]]
      BY <1>0, <3>1
    <3> HIDE DEF p
    <3>3. CASE x = p
      BY <3>2, <3>3
    <3>4. CASE x # p
      <4>1. /\ Cardinality(s \ {p}) = n /\ s \ {p} \in SUBSET S
            /\ Cardinality(s \ {x}) = n /\ s \ {x} \in SUBSET S
        BY <2>1, <3>1, Picked
      <4>2. g[s \ {p}] = st[x][g[r]]
        BY <3>1, <3>4, <4>1
      <4>3. g[s \ {x}] = st[p][g[(s \ {x}) \ {p}]]
        BY <3>1, <3>4, <4>1
      <4>4. (s \ {x}) \ {p} = r /\ g[r] \in V /\ x \in S /\ p \in S
        BY <1>0, <3>1
      <4> HIDE DEF r
      <4>5. st[p][st[x][g[r]]] = st[x][st[p][g[r]]]
        BY <4>4 DEF Commute
      <4>6. QED
        BY <3>2, <4>2, <4>3, <4>4, <4>5
    <3>5. QED
      BY <3>3, <3>4
  <2>2. n + 1 \in 0..m
    BY <1>1, <1>3
  <2>3. QED
    BY <2>1, <2>2
<1>4. K = 0..m
  <2> HIDE DEF K, m
  <2>1. QED
    BY <1>1, <1>2, <1>3, Induct
<1>5. QED
  BY <1>1, <1>4 DEF AnyLast

-----------------------------------------------------------------------------
(* Sums.                                                                   *)

Adds(A, w) == [x \in A |-> [v \in Nat |-> w[x] + v]]
Part(A, w) == SumFunction([x \in A |-> w[x]])

\* A sum is the end of a run that adds its terms in some order.
LEMMA SumRuns ==
  ASSUME NEW A, IsFiniteSet(A), NEW w, \A x \in A : w[x] \in Nat
  PROVE  \E g \in SetRuns(A, Nat, 0, Adds(A, w)) : Part(A, w) = g[A]
<1> DEFINE u == [x \in A |-> w[x]]
           Eq(f) == f = [s \in SUBSET A |->
                           IF s = {} THEN 0
                           ELSE u[CHOOSE x \in s : TRUE]
                                + f[s \ {CHOOSE x \in s : TRUE}]]
           c == CHOOSE f : Eq(f)
           st == Adds(A, w)
<1>1. st \in [A -> [Nat -> Nat]] /\ 0 \in Nat /\ \A x \in A : u[x] \in Nat
  BY DEF Adds
<1>2. PICK g : g \in SetRuns(A, Nat, 0, st)
  <2> HIDE DEF st
  <2>1. SetRuns(A, Nat, 0, st) # {}
    BY <1>1, SetRecursion
  <2>2. QED
    BY <2>1
<1>3. /\ g \in [SUBSET A -> Nat] /\ g[{}] = 0
      /\ \A s \in SUBSET A : s # {} => g[s] = st[Pick(s)][g[s \ {Pick(s)}]]
  BY <1>2 DEF SetRuns
<1>4. \A s \in SUBSET A : s # {} =>
        /\ Pick(s) \in A /\ g[s \ {Pick(s)}] \in Nat
        /\ st[Pick(s)][g[s \ {Pick(s)}]] = u[Pick(s)] + g[s \ {Pick(s)}]
  <2>1. \A s \in SUBSET A : s # {} => Pick(s) \in A /\ g[s \ {Pick(s)}] \in Nat
    BY <1>3 DEF Pick
  <2>2. \A x \in A, v \in Nat : st[x][v] = u[x] + v
    BY DEF Adds
  <2> HIDE DEF st, u
  <2>3. QED
    BY <2>1, <2>2
<1>5. Eq(g)
  <2>1. \A s \in SUBSET A :
          g[s] = IF s = {} THEN 0 ELSE u[Pick(s)] + g[s \ {Pick(s)}]
    BY <1>3, <1>4
  <2> HIDE DEF st, u
  <2>2. g = [s \in SUBSET A |->
               IF s = {} THEN 0 ELSE u[Pick(s)] + g[s \ {Pick(s)}]]
    BY <1>3, <2>1
  <2>3. QED
    BY <2>2 DEF Pick
<1>6. Eq(c)
  <2> HIDE DEF Eq
  <2>1. QED
    BY <1>5
<1>7. /\ c = [s \in SUBSET A |-> c[s]]
      /\ \A s \in SUBSET A :
           c[s] = IF s = {} THEN 0 ELSE u[Pick(s)] + c[s \ {Pick(s)}]
  <2> HIDE DEF c, u
  <2>1. QED
    BY <1>6 DEF Pick
<1>8. Part(A, w) = c[A]
  <2>1. DOMAIN u = A
    OBVIOUS
  <2>2. Part(A, w) = SumFunctionOnSet(u, A)
    BY <2>1 DEF Part, SumFunction
  <2> HIDE DEF u
  <2>3. QED
    BY <2>2 DEF SumFunctionOnSet, FoldFunctionOnSet, MapThenFoldSet
<1> HIDE DEF c, Eq, st, u
<1>9. \A s \in SUBSET A : c[s] = g[s]
  <2> DEFINE T == {s \in SUBSET A : c[s] = g[s]}
  <2>1. {} \in T
    BY <1>3, <1>7
  <2>2. ASSUME NEW s \in SUBSET A, s # {}, s \ {Pick(s)} \in T PROVE s \in T
    BY <1>3, <1>4, <1>7, <2>2
  <2>3. T = SUBSET A
    <3>1. T \in SUBSET (SUBSET A)
      OBVIOUS
    <3> HIDE DEF T
    <3>2. QED
      BY <2>1, <2>2, <3>1, SetInduct
  <2>4. QED
    BY <2>3
<1>10. QED
  BY <1>2, <1>8, <1>9 DEF st

LEMMA SumEmpty ==
  ASSUME NEW w
  PROVE  Part({}, w) = 0
<1>1. IsFiniteSet({})
  BY FS_EmptySet
<1>2. PICK g \in SetRuns({}, Nat, 0, Adds({}, w)) : Part({}, w) = g[{}]
  BY <1>1, SumRuns
<1>3. QED
  BY <1>2 DEF SetRuns

LEMMA SumIsNat ==
  ASSUME NEW A, IsFiniteSet(A), NEW w, \A x \in A : w[x] \in Nat
  PROVE  Part(A, w) \in Nat
<1>1. PICK g \in SetRuns(A, Nat, 0, Adds(A, w)) : Part(A, w) = g[A]
  BY SumRuns
<1>2. QED
  BY <1>1 DEF SetRuns

LEMMA SumTakes ==
  ASSUME NEW A, IsFiniteSet(A), NEW w, \A x \in A : w[x] \in Nat, NEW a \in A
  PROVE  /\ Part(A, w) = w[a] + Part(A \ {a}, w)
         /\ Part(A \ {a}, w) \in Nat /\ Part(A, w) \in Nat
<1> DEFINE B == A \ {a}
<1>1. IsFiniteSet(B) /\ \A x \in B : w[x] \in Nat
  BY FS_Subset
<1>2. PICK g \in SetRuns(A, Nat, 0, Adds(A, w)) : Part(A, w) = g[A]
  BY SumRuns
<1>3. PICK h \in SetRuns(B, Nat, 0, Adds(B, w)) : Part(B, w) = h[B]
  BY <1>1, SumRuns
<1>4. /\ g \in [SUBSET A -> Nat] /\ g[{}] = 0
      /\ \A s \in SUBSET A :
           s # {} => g[s] = Adds(A, w)[Pick(s)][g[s \ {Pick(s)}]]
  BY <1>2 DEF SetRuns
<1>5. /\ h \in [SUBSET B -> Nat] /\ h[{}] = 0
      /\ \A s \in SUBSET B :
           s # {} => h[s] = Adds(B, w)[Pick(s)][h[s \ {Pick(s)}]]
  BY <1>3 DEF SetRuns
<1>6. /\ \A x \in B : Adds(A, w)[x] = Adds(B, w)[x]
      /\ \A v \in Nat : Adds(A, w)[a][v] = w[a] + v
      /\ Adds(A, w) \in [A -> [Nat -> Nat]] /\ 0 \in Nat
  BY DEF Adds
<1>7. Commute(A, Nat, Adds(A, w))
  <2>1. ASSUME NEW x \in A, NEW y \in A, NEW v \in Nat
        PROVE  Adds(A, w)[x][Adds(A, w)[y][v]] = Adds(A, w)[y][Adds(A, w)[x][v]]
    <3>1. w[x] \in Nat /\ w[y] \in Nat
      OBVIOUS
    <3>2. /\ Adds(A, w)[x][w[y] + v] = w[x] + (w[y] + v)
          /\ Adds(A, w)[y][w[x] + v] = w[y] + (w[x] + v)
          /\ Adds(A, w)[x][v] = w[x] + v /\ Adds(A, w)[y][v] = w[y] + v
      BY <3>1 DEF Adds
    <3>3. QED
      BY <3>1, <3>2
  <2>2. QED
    BY <2>1 DEF Commute
<1>8. g[A] = Adds(A, w)[a][g[B]]
  <2> DEFINE st == Adds(A, w)
  <2>1. AnyLast(A, st, g)
    <3>1. /\ st \in [A -> [Nat -> Nat]] /\ Commute(A, Nat, st)
          /\ g \in SetRuns(A, Nat, 0, st) /\ 0 \in Nat
      BY <1>2, <1>6, <1>7
    <3> HIDE DEF st
    <3>2. QED
      BY <3>1, AnyOrder
  <2>2. QED
    BY <2>1 DEF AnyLast
<1>9. \A s \in SUBSET B : g[s] = h[s]
  <2> DEFINE T == {s \in SUBSET B : g[s] = h[s]}
  <2>1. {} \in T /\ T \in SUBSET (SUBSET B)
    BY <1>4, <1>5
  <2>2. ASSUME NEW s \in SUBSET B, s # {}, s \ {Pick(s)} \in T PROVE s \in T
    <3> DEFINE p == Pick(s)
    <3>1. p \in B /\ s \in SUBSET A
      BY <2>2 DEF Pick
    <3>2. /\ g[s] = Adds(A, w)[p][g[s \ {p}]]
          /\ h[s] = Adds(B, w)[p][h[s \ {p}]]
      BY <1>4, <1>5, <2>2, <3>1
    <3>3. g[s \ {p}] = h[s \ {p}]
      BY <2>2
    <3> HIDE DEF p
    <3>4. QED
      BY <1>6, <3>1, <3>2, <3>3
  <2>3. T = SUBSET B
    <3> HIDE DEF T, B
    <3>1. QED
      BY <1>1, <2>1, <2>2, SetInduct
  <2>4. QED
    BY <2>3
<1>10. g[B] = h[B] /\ h[B] \in Nat
  BY <1>5, <1>9
<1>11. QED
  BY <1>2, <1>3, <1>4, <1>6, <1>8, <1>10

LEMMA SumSplits ==
  ASSUME NEW A, IsFiniteSet(A), NEW w, \A x \in A : w[x] \in Nat,
         NEW B \in SUBSET A
  PROVE  Part(A, w) = Part(B, w) + Part(A \ B, w)
<1> DEFINE T == {s \in SUBSET B : Part(A, w) = Part(s, w) + Part(A \ s, w)}
<1>1. IsFiniteSet(B)
  BY FS_Subset
<1>2. {} \in T /\ T \in SUBSET (SUBSET B)
  <2>1. A \ {} = A
    OBVIOUS
  <2>2. QED
    BY <2>1, SumEmpty, SumIsNat
<1>3. ASSUME NEW s \in SUBSET B, s # {}, s \ {Pick(s)} \in T PROVE s \in T
  <2> DEFINE p == Pick(s)
             r == s \ {p}
             q == A \ s
  <2>1. p \in s
    BY <1>3 DEF Pick
  <2> HIDE DEF p
  <2>2. /\ IsFiniteSet(s) /\ IsFiniteSet(r) /\ IsFiniteSet(A \ r)
        /\ \A x \in s : w[x] \in Nat
        /\ \A x \in A \ r : w[x] \in Nat
        /\ p \in A \ r /\ (A \ r) \ {p} = q /\ s \ {p} = r
    BY <2>1, FS_Subset
  <2>3. Part(s, w) = w[p] + Part(r, w) /\ Part(r, w) \in Nat
    <3> HIDE DEF r
    <3>1. QED
      BY <2>1, <2>2, SumTakes
  <2>4. Part(A \ r, w) = w[p] + Part(q, w) /\ Part(q, w) \in Nat
    <3> HIDE DEF r, q
    <3>1. QED
      BY <2>2, SumTakes
  <2>5. Part(A, w) = Part(r, w) + Part(A \ r, w)
    BY <1>3 DEF p
  <2>6. w[p] \in Nat
    BY <2>1
  <2> HIDE DEF r
  <2>7. Part(A, w) = Part(s, w) + Part(q, w)
    BY <2>3, <2>4, <2>5, <2>6
  <2>8. QED
    BY <2>7
<1>4. T = SUBSET B
  <2> HIDE DEF T
  <2>1. QED
    BY <1>1, <1>2, <1>3, SetInduct
<1>5. QED
  BY <1>4

LEMMA SumOfZeros ==
  ASSUME NEW A, IsFiniteSet(A), NEW w, \A x \in A : w[x] = 0
  PROVE  Part(A, w) = 0
<1> DEFINE T == {s \in SUBSET A : Part(s, w) = 0}
<1>1. {} \in T /\ T \in SUBSET (SUBSET A)
  BY SumEmpty
<1>2. ASSUME NEW s \in SUBSET A, s # {}, s \ {Pick(s)} \in T PROVE s \in T
  <2>1. Pick(s) \in s /\ IsFiniteSet(s)
    BY <1>2, FS_Subset DEF Pick
  <2>2. Part(s, w) = w[Pick(s)] + Part(s \ {Pick(s)}, w)
    BY <2>1, SumTakes
  <2>3. QED
    BY <1>2, <2>1, <2>2
<1>3. T = SUBSET A
  <2> HIDE DEF T
  <2>1. QED
    BY <1>1, <1>2, SetInduct
<1>4. QED
  BY <1>3

LEMMA HasMax ==
  ASSUME NEW S \in SUBSET Nat, IsFiniteSet(S), S # {}
  PROVE  \E x \in S : \A y \in S : x >= y
<1>1. PICK m \in Nat : m # 0 /\ ExistsBijection(1..m, S)
  <2>1. Cardinality(S) \in Nat /\ Cardinality(S) # 0
    BY FS_CardinalityType, FS_EmptySet
  <2>2. ExistsBijection(1..Cardinality(S), S)
    BY FS_CardinalityType
  <2>3. QED
    BY <2>1, <2>2
<1>2. PICK h \in [1..m -> S] : \A y \in S : \E i \in 1..m : h[i] = y
  BY <1>1 DEF ExistsBijection, Bijection, Surjection
<1> DEFINE Top(i, n) == \A j \in 1..n : h[i] >= h[j]
           T == {n \in 0..m : n = 0 \/ \E i \in 1..n : Top(i, n)}
<1>3. \A i \in 1..m : h[i] \in Nat
  BY <1>2
<1>4. T \in SUBSET (0..m) /\ 0 \in T
  BY <1>1
<1>5. ASSUME NEW n \in T, n < m PROVE n + 1 \in T
  <2>1. n \in 0..m /\ n + 1 \in 1..m /\ n + 1 \in 0..m
    BY <1>1, <1>5
  <2>2. \E i \in 1..(n + 1) : Top(i, n + 1)
    <3>1. CASE n = 0
      <4>1. Top(1, 1)
        BY <1>3, <2>1, <3>1
      <4>2. QED
        BY <3>1, <4>1
    <3>2. CASE n # 0
      <4>1. PICK i \in 1..n : Top(i, n)
        BY <3>2
      <4>2. i \in 1..m /\ h[i] \in Nat /\ h[n + 1] \in Nat
        BY <1>1, <1>3, <2>1
      <4>3. CASE h[i] >= h[n + 1]
        <5>1. Top(i, n + 1)
          BY <2>1, <4>1, <4>3
        <5>2. QED
          BY <2>1, <5>1
      <4>4. CASE h[n + 1] >= h[i]
        <5>1. \A j \in 1..n : h[j] \in Nat /\ h[i] >= h[j]
          BY <1>1, <1>3, <2>1, <4>1
        <5>2. Top(n + 1, n + 1)
          BY <2>1, <4>2, <4>4, <5>1
        <5>3. QED
          BY <2>1, <5>2
      <4>5. QED
        BY <4>2, <4>3, <4>4
    <3>3. QED
      BY <3>1, <3>2
  <2> HIDE DEF Top
  <2>3. QED
    BY <2>1, <2>2
<1>6. T = 0..m
  <2> HIDE DEF T
  <2>1. QED
    BY <1>1, <1>4, <1>5, Induct
<1>7. m \in T
  <2> HIDE DEF T
  <2>1. QED
    BY <1>1, <1>6
<1>8. PICK i \in 1..m : Top(i, m)
  BY <1>1, <1>7
<1>9. QED
  BY <1>2, <1>8

LEMMA ImageIsFinite ==
  ASSUME NEW S, IsFiniteSet(S), NEW g, g = [x \in S |-> g[x]]
  PROVE  LET T == {g[x] : x \in S}
         IN  /\ IsFiniteSet(T) /\ Cardinality(T) =< Cardinality(S)
             /\ Cardinality(T) \in Nat /\ Cardinality(S) \in Nat
<1> DEFINE T == {g[x] : x \in S}
<1>1. g \in Surjection(S, T)
  <2>1. g \in [S -> T]
    OBVIOUS
  <2>2. QED
    BY <2>1 DEF Surjection
<1> HIDE DEF T
<1>2. IsFiniteSet(T) /\ Cardinality(T) =< Cardinality(S)
  BY <1>1, FS_Surjection
<1>3. QED
  BY <1>2, FS_CardinalityType DEF T

LEMMA MaxIs ==
  ASSUME NEW S \in SUBSET Nat, NEW m \in S, \A y \in S : m >= y
  PROVE  Max(S) = m
<1>1. Max(S) \in S /\ \A y \in S : Max(S) >= y
  BY DEF Max
<1>2. Max(S) \in Nat /\ m \in Nat /\ Max(S) >= m /\ m >= Max(S)
  BY <1>1
<1>3. QED
  BY <1>2

LEMMA MaxIn ==
  ASSUME NEW S \in SUBSET Nat, IsFiniteSet(S), S # {}
  PROVE  Max(S) \in S /\ Max(S) \in Nat /\ \A y \in S : Max(S) >= y
BY HasMax DEF Max

-----------------------------------------------------------------------------
(* Statistics and tables of them.                                          *)

LEMMA StreamIs ==
  ASSUME ControlTypeOK
  PROVE  /\ Len(stream) \in 0..MaxBatches /\ DOMAIN stream = 1..Len(stream)
         /\ \A i \in 1..Len(stream) :
              /\ DOMAIN stream[i] \subseteq Groups
              /\ \A g \in DOMAIN stream[i] : stream[i][g] \in Stats
         /\ MaxBatches \in Nat /\ IsFiniteSet(1..Len(stream))
<1>1. PICK n \in 0..MaxBatches : stream \in [1..n -> Batches]
  BY RollupAssumption DEF ControlTypeOK
<1>2. MaxBatches \in Nat /\ Len(stream) = n /\ DOMAIN stream = 1..n
  BY <1>1, RollupAssumption
<1>3. IsFiniteSet(1..n)
  BY <1>2, FS_Interval
<1>4. QED
  BY <1>1, <1>2, <1>3, RollupAssumption

LEMMA AddStats ==
  ASSUME NEW s \in Stats, NEW t \in Stats
  PROVE  Add(s, t) \in Stats /\ Add(s, Zero) = s
BY DEF Stats, Add, Zero, Newest, NoTime

LEMMA ZeroStats == Zero \in Stats
BY DEF Zero, Stats, NoTime

LEMMA OfStats ==
  ASSUME NEW t, \A g \in DOMAIN t : t[g] \in Stats, NEW g
  PROVE  Of(t, g) \in Stats
BY ZeroStats DEF Of

LEMMA OfBatch ==
  ASSUME ControlTypeOK, NEW i \in 1..Len(stream), NEW g
  PROVE  Of(stream[i], g) \in Stats
BY StreamIs, OfStats

(* What the batches of ds say of group g.                                  *)
Files(g)  == [i \in 1..Len(stream) |-> Of(stream[i], g).files]
Bytes(g)  == [i \in 1..Len(stream) |-> Of(stream[i], g).bytes]
Times(ds, g) == {Of(stream[i], g).newest : i \in ds}

Ref(ds, g) ==
  [files  |-> Part(ds, Files(g)), bytes |-> Part(ds, Bytes(g)),
   newest |-> IF ds = {} THEN 0 ELSE Max(Times(ds, g))]

In(ds) == UNION {DOMAIN stream[i] : i \in ds}

LEMMA TimesIs ==
  ASSUME ControlTypeOK, NEW ds \in SUBSET (1..Len(stream)), NEW g
  PROVE  /\ Times(ds, g) \in SUBSET Nat /\ IsFiniteSet(Times(ds, g))
         /\ ds # {} => Times(ds, g) # {}
         /\ IsFiniteSet(ds)
<1>1. IsFiniteSet(ds)
  BY StreamIs, FS_Subset
<1>2. \A i \in ds : Of(stream[i], g).newest \in Nat
  BY OfBatch DEF Stats
<1>3. IsFiniteSet(Times(ds, g))
  <2> DEFINE h == [i \in ds |-> Of(stream[i], g).newest]
  <2>1. h = [i \in ds |-> h[i]] /\ Times(ds, g) = {h[i] : i \in ds}
    BY DEF Times
  <2> HIDE DEF h
  <2>2. QED
    BY <1>1, <2>1, ImageIsFinite
<1>4. QED
  BY <1>1, <1>2, <1>3 DEF Times

LEMMA RefStats ==
  ASSUME ControlTypeOK, NEW ds \in SUBSET (1..Len(stream)), NEW g
  PROVE  Ref(ds, g) \in Stats
<1>1. \A i \in ds : Files(g)[i] \in Nat /\ Bytes(g)[i] \in Nat
  BY OfBatch DEF Stats, Files, Bytes
<1>2. Part(ds, Files(g)) \in Nat /\ Part(ds, Bytes(g)) \in Nat
  BY <1>1, TimesIs, SumIsNat
<1>3. ds # {} => Max(Times(ds, g)) \in Nat
  BY TimesIs, MaxIn
<1>4. QED
  BY <1>2, <1>3 DEF Ref, Stats

LEMMA RefTakes ==
  ASSUME ControlTypeOK, NEW ds \in SUBSET (1..Len(stream)), NEW g,
         NEW i \in 1..Len(stream), i \notin ds
  PROVE  Ref(ds \cup {i}, g) = Add(Ref(ds, g), Of(stream[i], g))
<1> DEFINE es == ds \cup {i}
           o == Of(stream[i], g)
<1>1. /\ es \in SUBSET (1..Len(stream)) /\ i \in es /\ es \ {i} = ds
      /\ IsFiniteSet(es)
      /\ \A k \in es : Files(g)[k] \in Nat /\ Bytes(g)[k] \in Nat
      /\ o \in Stats /\ Files(g)[i] = o.files /\ Bytes(g)[i] = o.bytes
  <2>1. es \in SUBSET (1..Len(stream)) /\ i \in es /\ es \ {i} = ds
    OBVIOUS
  <2>2. IsFiniteSet(es)
    BY <2>1, TimesIs
  <2>3. \A k \in es : Files(g)[k] \in Nat /\ Bytes(g)[k] \in Nat
    BY OfBatch DEF Stats, Files, Bytes
  <2>4. o \in Stats /\ Files(g)[i] = o.files /\ Bytes(g)[i] = o.bytes
    BY OfBatch DEF Files, Bytes
  <2>5. QED
    BY <2>1, <2>2, <2>3, <2>4
<1> HIDE DEF es
<1>2. /\ Part(es, Files(g)) = o.files + Part(ds, Files(g))
      /\ Part(ds, Files(g)) \in Nat
  BY <1>1, SumTakes
<1>3. /\ Part(es, Bytes(g)) = o.bytes + Part(ds, Bytes(g))
      /\ Part(ds, Bytes(g)) \in Nat
  BY <1>1, SumTakes
<1> DEFINE m == IF ds = {} THEN 0 ELSE Max(Times(ds, g))
<1>4. Max(Times(es, g)) = Newest(m, o.newest) /\ o.newest \in Nat
  <2>1. /\ Times(es, g) = Times(ds, g) \cup {o.newest} /\ o.newest \in Nat
        /\ Times(es, g) \in SUBSET Nat
    BY <1>1, TimesIs DEF Times, es, Stats
  <2>2. CASE ds = {}
    <3>1. Times(es, g) = {o.newest}
      BY <2>1, <2>2 DEF Times
    <3>2. Max(Times(es, g)) = o.newest
      BY <2>1, <3>1, MaxIs
    <3>3. QED
      BY <2>1, <2>2, <3>2 DEF Newest
  <2>3. CASE ds # {}
    <3>1. /\ m \in Times(ds, g) /\ m \in Nat /\ \A y \in Times(ds, g) : m >= y
          /\ \A y \in Times(ds, g) : y \in Nat
      BY <2>3, TimesIs, MaxIn
    <3> HIDE DEF m
    <3> DEFINE t == Newest(m, o.newest)
    <3>2. t \in Times(es, g) /\ \A y \in Times(es, g) : t >= y
      BY <2>1, <3>1 DEF Newest
    <3>3. QED
      BY <2>1, <3>2, MaxIs
  <2>4. QED
    BY <2>1, <2>2, <2>3
<1>5. QED
  BY <1>1, <1>2, <1>3, <1>4 DEF Ref, Add, es

LEMMA RefOfOthers ==
  ASSUME ControlTypeOK, NEW ds \in SUBSET (1..Len(stream)), NEW g,
         g \notin In(ds)
  PROVE  Ref(ds, g) = Zero
<1>1. \A i \in ds : Of(stream[i], g) = Zero
  BY DEF In, Of
<1>2. \A i \in ds : Files(g)[i] = 0 /\ Bytes(g)[i] = 0
  BY <1>1 DEF Files, Bytes, Zero
<1>3. IsFiniteSet(ds)
  BY TimesIs
<1>4. Part(ds, Files(g)) = 0 /\ Part(ds, Bytes(g)) = 0
  BY <1>2, <1>3, SumOfZeros
<1>5. ds # {} => Max(Times(ds, g)) = 0
  <2>1. ds # {} => Times(ds, g) = {0}
    <3>1. \A i \in ds : Of(stream[i], g).newest = 0
      BY <1>1 DEF Zero, NoTime
    <3>2. QED
      BY <3>1 DEF Times
  <2>2. Max({0}) = 0
    BY MaxIs
  <2>3. QED
    BY <2>1, <2>2
<1>6. QED
  BY <1>4, <1>5 DEF Ref, Zero, NoTime

LEMMA ReferenceIs ==
  ASSUME ControlTypeOK, NEW ds \in SUBSET (1..Len(stream))
  PROVE  /\ Reference(ds) = [g \in In(ds) |-> Ref(ds, g)]
         /\ \A g : Of(Reference(ds), g) = Ref(ds, g)
         /\ In(ds) \subseteq Groups
<1>1. ASSUME NEW g
      PROVE  /\ SumFunction([i \in ds |-> Of(stream[i], g).files])
                  = Part(ds, Files(g))
             /\ SumFunction([i \in ds |-> Of(stream[i], g).bytes])
                  = Part(ds, Bytes(g))
             /\ {Of(stream[i], g).newest : i \in ds} = Times(ds, g)
  <2>1. /\ [i \in ds |-> Files(g)[i]] = [i \in ds |-> Of(stream[i], g).files]
        /\ [i \in ds |-> Bytes(g)[i]] = [i \in ds |-> Of(stream[i], g).bytes]
    BY DEF Files, Bytes
  <2>2. QED
    BY <2>1 DEF Part, Times
<1>2. \A g \in In(ds) : ds # {}
  BY DEF In
<1>3. Reference(ds) = [g \in In(ds) |-> Ref(ds, g)]
  BY <1>1, <1>2 DEF Reference, Ref, In
<1>4. \A g : Of(Reference(ds), g) = Ref(ds, g)
  BY <1>3, RefOfOthers DEF Of
<1>5. In(ds) \subseteq Groups
  BY StreamIs DEF In
<1>6. QED
  BY <1>3, <1>4, <1>5

\* One more batch, whenever it is merged.
LEMMA ReferenceTakes ==
  ASSUME ControlTypeOK, NEW ds \in SUBSET (1..Len(stream)),
         NEW i \in 1..Len(stream), i \notin ds
  PROVE  Reference(ds \cup {i}) = Merge(Reference(ds), stream[i])
<1> DEFINE es == ds \cup {i}
<1>1. Reference(es) = [g \in In(es) |-> Ref(es, g)]
  BY ReferenceIs
<1>2. DOMAIN Reference(ds) = In(ds) /\ In(es) = In(ds) \cup DOMAIN stream[i]
  BY ReferenceIs DEF In
<1>3. \A g : Ref(es, g) = Add(Of(Reference(ds), g), Of(stream[i], g))
  BY ReferenceIs, RefTakes
<1>4. QED
  BY <1>1, <1>2, <1>3 DEF Merge

LEMMA ReferenceSkips ==
  ASSUME ControlTypeOK, NEW ds \in SUBSET (1..Len(stream)),
         NEW i \in 1..Len(stream), i \notin ds, DOMAIN stream[i] = {}
  PROVE  Reference(ds \cup {i}) = Reference(ds)
<1>1. /\ Reference(ds) = [g \in In(ds) |-> Ref(ds, g)]
      /\ \A g : Of(Reference(ds), g) = Ref(ds, g)
  BY ReferenceIs
<1>2. \A g : Of(stream[i], g) = Zero
  BY DEF Of
<1>3. \A g : Add(Ref(ds, g), Zero) = Ref(ds, g)
  BY RefStats, ZeroStats, AddStats
<1>4. Merge(Reference(ds), stream[i]) = [g \in In(ds) |-> Ref(ds, g)]
  BY <1>1, <1>2, <1>3 DEF Merge
<1>5. QED
  BY <1>1, <1>4, ReferenceTakes

LEMMA MergeAllIs ==
  ASSUME ControlTypeOK, NEW ds \in SUBSET (1..Len(stream)),
         NEW es \in SUBSET (1..Len(stream)), ds \cap es = {}
  PROVE  MergeAll(Reference(ds), es) = Reference(ds \cup es)
<1> DEFINE Eq(f) == f = [s \in SUBSET es |->
                           IF s = {} THEN Reference(ds)
                           ELSE Merge(f[s \ {CHOOSE x \in s : TRUE}],
                                      stream[CHOOSE x \in s : TRUE])]
           c == CHOOSE f : Eq(f)
           g == [s \in SUBSET es |-> Reference(ds \cup s)]
<1>1. ASSUME NEW s \in SUBSET es, s # {}
      PROVE  Reference(ds \cup s)
               = Merge(Reference(ds \cup (s \ {Pick(s)})), stream[Pick(s)])
  <2> DEFINE p == Pick(s)
             d == ds \cup (s \ {p})
  <2>1. p \in s
    BY <1>1 DEF Pick
  <2> HIDE DEF p
  <2>2. /\ d \in SUBSET (1..Len(stream)) /\ p \in 1..Len(stream) /\ p \notin d
        /\ d \cup {p} = ds \cup s
    BY <2>1
  <2> HIDE DEF d
  <2>3. Reference(d \cup {p}) = Merge(Reference(d), stream[p])
    BY <2>2, ReferenceTakes
  <2>4. QED
    BY <2>2, <2>3 DEF d, p
<1>2. \A s \in SUBSET es :
        g[s] = IF s = {} THEN Reference(ds)
               ELSE Merge(g[s \ {Pick(s)}], stream[Pick(s)])
  <2>1. \A s \in SUBSET es : s = {} => g[s] = Reference(ds)
    <3>1. ds \cup {} = ds
      OBVIOUS
    <3>2. QED
      BY <3>1
  <2>2. \A s \in SUBSET es : s # {} =>
          g[s \ {Pick(s)}] = Reference(ds \cup (s \ {Pick(s)}))
    OBVIOUS
  <2>3. \A s \in SUBSET es : g[s] = Reference(ds \cup s)
    OBVIOUS
  <2> HIDE DEF g
  <2>4. QED
    BY <1>1, <2>1, <2>2, <2>3
<1>3. Eq(g)
  <2>1. g = [s \in SUBSET es |-> g[s]]
    OBVIOUS
  <2> HIDE DEF g
  <2>2. g = [s \in SUBSET es |->
               IF s = {} THEN Reference(ds)
               ELSE Merge(g[s \ {Pick(s)}], stream[Pick(s)])]
    BY <1>2, <2>1
  <2>3. QED
    BY <2>2 DEF Pick
<1>4. Eq(c)
  <2> HIDE DEF Eq, g
  <2>1. QED
    BY <1>3
<1>5. \A s \in SUBSET es :
        c[s] = IF s = {} THEN Reference(ds)
               ELSE Merge(c[s \ {Pick(s)}], stream[Pick(s)])
  <2> HIDE DEF c, g
  <2>1. QED
    BY <1>4 DEF Pick
<1>6. MergeAll(Reference(ds), es) = c[es]
  BY DEF MergeAll, FoldSet, MapThenFoldSet
<1> HIDE DEF c, Eq
<1>7. \A s \in SUBSET es : c[s] = g[s]
  <2> DEFINE T == {s \in SUBSET es : c[s] = g[s]}
  <2> HIDE DEF g
  <2>1. T \in SUBSET (SUBSET es) /\ {} \in T
    BY <1>2, <1>5
  <2>2. ASSUME NEW s \in SUBSET es, s # {}, s \ {Pick(s)} \in T PROVE s \in T
    <3>1. c[s \ {Pick(s)}] = g[s \ {Pick(s)}]
      BY <2>2
    <3>2. QED
      BY <1>2, <1>5, <2>2, <3>1
  <2>3. IsFiniteSet(es)
    BY TimesIs
  <2>4. T = SUBSET es
    <3> HIDE DEF T
    <3>1. QED
      BY <2>1, <2>2, <2>3, SetInduct
  <2>5. QED
    BY <2>4
<1>8. QED
  BY <1>6, <1>7

RowsOf == [i \in 1..Len(stream) |-> Rows(stream[i])]

LEMMA RowsAre ==
  ASSUME ControlTypeOK, NEW ds \in SUBSET (1..Len(stream))
  PROVE  /\ \A i \in ds : RowsOf[i] = Rows(stream[i]) /\ RowsOf[i] \in Nat
         /\ SumFunction([i \in ds |-> Rows(stream[i])]) = Part(ds, RowsOf)
         /\ Part(ds, RowsOf) \in Nat
<1>1. ASSUME NEW i \in 1..Len(stream) PROVE Rows(stream[i]) \in Nat
  <2> DEFINE b == stream[i]
             w == [g \in DOMAIN b |-> b[g].files]
  <2>1. DOMAIN b \subseteq Groups /\ \A g \in DOMAIN b : b[g] \in Stats
    BY StreamIs
  <2>2. IsFiniteSet(DOMAIN b)
    BY <2>1, FS_Subset, RollupAssumption
  <2>3. \A g \in DOMAIN b : w[g] \in Nat
    BY <2>1 DEF Stats
  <2>4. Part(DOMAIN b, w) \in Nat
    <3> HIDE DEF b, w
    <3>1. QED
      BY <2>2, <2>3, SumIsNat
  <2>5. [g \in DOMAIN b |-> w[g]] = [g \in DOMAIN b |-> b[g].files]
    OBVIOUS
  <2>6. QED
    BY <2>4, <2>5 DEF Rows, Part
<1>2. \A i \in ds : RowsOf[i] = Rows(stream[i]) /\ RowsOf[i] \in Nat
  BY <1>1 DEF RowsOf
<1>3. [i \in ds |-> RowsOf[i]] = [i \in ds |-> Rows(stream[i])]
  BY <1>2
<1>4. SumFunction([i \in ds |-> Rows(stream[i])]) = Part(ds, RowsOf)
  BY <1>3 DEF Part
<1>5. Part(ds, RowsOf) \in Nat
  BY <1>2, TimesIs, SumIsNat
<1>6. QED
  BY <1>2, <1>4, <1>5

-----------------------------------------------------------------------------
(* The rollup.  As long as nothing has failed, what is merged is the        *)
(* reference of what was read and is not pending; the end of it has read    *)
(* everything.                                                              *)

Unharmed ==
  \/ pc \in {"read", "wait", "drain", "seed"}
  \/ pc = "unwind" /\ outcome = "none"
Through ==
  \/ pc \in {"seed", "report"} \/ outcome = "ok"
  \/ pc = "unwind" /\ outcome = "none"
Complete == pc = "report" \/ outcome = "ok"

All == In(1..Len(stream)) \cup dirs
Zeros(names) == [g \in names |-> Zero]

TableOK ==
  /\ DOMAIN groups \subseteq Groups /\ Cardinality(DOMAIN groups) =< MaxGroups
  /\ \A g \in DOMAIN groups : groups[g] \in Stats
  /\ total \in Nat /\ fed \in Nat

Merged ==
  Unharmed => /\ groups = Reference(1..(pos - 1) \ pending)
              /\ total + Part(pending, RowsOf) = fed

Course ==
  /\ pc \in {"read", "wait", "drain", "seed", "report"} => outcome = "none"
  /\ pc = "over" => outcome # "none"
  /\ outcome = "ok" => pc = "over"
  /\ pc = "drain" \/ Through => pos = Len(stream) + 1
  /\ Through \/ ~pooled => pending = {}

Refused ==
  /\ outcome = "wide" => Cardinality(All) > MaxGroups
  /\ \A i \in 1..Len(stream) : future[i] = "wide" => TooWide(stream[i])

Whole ==
  Complete => /\ groups = Merge(Reference(1..Len(stream)), Zeros(dirs))
              /\ total = fed

ResultOf(order) ==
  [rows     |-> total,
   totals   |-> Fold(groups),
   children |-> [i \in DOMAIN order |-> [name  |-> order[i],
                                         stats |-> groups[order[i]]]]]

Returned ==
  IF outcome = "ok"
  THEN \E order \in BySize(groups) : result = ResultOf(order)
  ELSE result = NoResult

ScanInv == TableOK /\ Merged /\ Course /\ Refused /\ Whole /\ Returned

(* The catalog does not change, nor what is computed from it.              *)
LEMMA Frame ==
  ASSUME UNCHANGED catalog
  PROVE  /\ Reference(1..(pos - 1) \ pending)'
              = Reference(1..(pos' - 1) \ pending')
         /\ Reference(1..Len(stream))' = Reference(1..Len(stream))
         /\ Part(pending, RowsOf)' = Part(pending', RowsOf)
         /\ All' = All /\ Zeros(dirs)' = Zeros(dirs)
         /\ \A i : TooWide(stream[i])' <=> TooWide(stream[i])
<1>1. stream' = stream /\ dirs' = dirs /\ pooled' = pooled
  BY DEF catalog
<1>2. Reference(1..(pos - 1) \ pending)' = Reference(1..(pos' - 1) \ pending')
  BY <1>1, Zenon DEF Reference
<1>3. Reference(1..Len(stream))' = Reference(1..Len(stream))
  BY <1>1, Zenon DEF Reference
<1>4. Part(pending, RowsOf)' = Part(pending', RowsOf)
  <2>1. RowsOf' = RowsOf
    BY <1>1, Zenon DEF RowsOf
  <2>2. QED
    BY <2>1, Zenon DEF Part
<1>5. All' = All
  BY <1>1, Zenon DEF All, In
<1>6. Zeros(dirs)' = Zeros(dirs)
  BY <1>1, Zenon DEF Zeros
<1>7. \A i : TooWide(stream[i])' <=> TooWide(stream[i])
  BY <1>1, Zenon DEF TooWide
<1>8. QED
  BY <1>2, <1>3, <1>4, <1>5, <1>6, <1>7

\* No group is lost on the way, and some are beyond the limit.
LEMMA WideAll ==
  ASSUME ControlTypeOK, NEW gs, DOMAIN gs \subseteq All, TooWide(gs)
  PROVE  Cardinality(All) > MaxGroups
<1>1. All \subseteq Groups
  BY StreamIs, RollupAssumption DEF All, In, ControlTypeOK
<1>2. IsFiniteSet(All)
  BY <1>1, FS_Subset, RollupAssumption
<1>3. /\ Cardinality(DOMAIN gs) =< Cardinality(All)
      /\ Cardinality(DOMAIN gs) \in Nat /\ Cardinality(All) \in Nat
  BY <1>2, FS_Subset, FS_CardinalityType
<1>4. QED
  BY <1>3, RollupAssumption DEF TooWide

LEMMA InAll ==
  ASSUME NEW ds \in SUBSET (1..Len(stream))
  PROVE  In(ds) \subseteq All /\ \A i \in ds : DOMAIN stream[i] \subseteq All
BY DEF In, All

\* A table of the reference is one of statistics.
LEMMA ReferenceTable ==
  ASSUME ControlTypeOK, NEW ds \in SUBSET (1..Len(stream)),
         ~TooWide(Reference(ds))
  PROVE  /\ DOMAIN Reference(ds) \subseteq Groups
         /\ Cardinality(DOMAIN Reference(ds)) =< MaxGroups
         /\ \A g \in DOMAIN Reference(ds) : Reference(ds)[g] \in Stats
<1>1. /\ Reference(ds) = [g \in In(ds) |-> Ref(ds, g)]
      /\ In(ds) \subseteq Groups
      /\ \A g : Ref(ds, g) \in Stats
  BY ReferenceIs, RefStats
<1>2. IsFiniteSet(In(ds)) /\ Cardinality(In(ds)) \in Nat
  BY <1>1, FS_Subset, FS_CardinalityType, RollupAssumption
<1>3. QED
  BY <1>1, <1>2, RollupAssumption DEF TooWide

LEMMA ScanInit == Init => ScanInv
<1> SUFFICES ASSUME Init
             PROVE  ScanInv
  OBVIOUS
<1>1. ControlTypeOK
  BY TypeInit
<1>2. /\ pos = 1 /\ future = [i \in 1..MaxBatches |-> "none"] /\ pending = {}
      /\ groups = <<>> /\ total = 0 /\ fed = 0
      /\ pc = "read" /\ outcome = "none" /\ result = NoResult
  BY DEF Init
<1>3. TableOK
  <2>1. DOMAIN groups = {}
    BY <1>2
  <2>2. QED
    BY <1>2, <2>1, FS_EmptySet, RollupAssumption DEF TableOK
<1>4. Merged
  <2>1. 1..(pos - 1) \ pending = {}
    BY <1>2
  <2>2. Reference({}) = [g \in {} |-> Ref({}, g)]
    BY <1>1, ReferenceIs DEF In
  <2>3. Reference({}) = <<>>
    BY <2>2
  <2>4. Part(pending, RowsOf) = 0
    BY <1>2, SumEmpty
  <2>5. QED
    BY <1>2, <2>1, <2>3, <2>4 DEF Merged
<1>5. Course /\ Whole /\ Returned
  BY <1>2 DEF Course, Through, Complete, Whole, Returned
<1>6. Refused
  <2>1. Len(stream) \in 0..MaxBatches /\ MaxBatches \in Nat
    BY <1>1, StreamIs
  <2>2. \A i \in 1..Len(stream) : future[i] = "none"
    BY <1>2, <2>1
  <2>3. QED
    BY <1>2, <2>2 DEF Refused
<1>7. QED
  BY <1>3, <1>4, <1>5, <1>6 DEF ScanInv

\* A result is made of the groups and of the rows.
LEMMA ResultKept ==
  ASSUME UNCHANGED <<groups, total>>
  PROVE  /\ BySize(groups)' = BySize(groups)
         /\ \A order : ResultOf(order)' = ResultOf(order)
<1>1. BySize(groups)' = BySize(groups)
  BY Zenon DEF BySize
<1>2. Fold(groups)' = Fold(groups)
  OBVIOUS
<1>3. \A order : ResultOf(order)' = ResultOf(order)
  BY <1>2, Zenon DEF ResultOf
<1>4. QED
  BY <1>1, <1>3

\* What a step leaves alone.
LEMMA Kept ==
  ASSUME UNCHANGED catalog
  PROVE  /\ UNCHANGED <<groups, total, fed>> /\ TableOK => TableOK'
         /\ UNCHANGED <<future, outcome>> /\ Refused => Refused'
         /\ ~Complete' => Whole'
         /\ UNCHANGED <<groups, total, fed>> /\ Complete /\ Whole => Whole'
         /\ UNCHANGED <<outcome, result>> /\ outcome # "ok" /\ Returned
              => Returned'
         /\ UNCHANGED <<groups, total, outcome, result>> /\ Returned
              => Returned'
         /\ outcome' # "ok" /\ result' = NoResult => Returned'
<1>1. UNCHANGED <<groups, total, fed>> /\ TableOK => TableOK'
  BY DEF TableOK
<1>2. UNCHANGED <<future, outcome>> /\ Refused => Refused'
  BY Frame DEF Refused, catalog
<1>3. ~Complete' => Whole'
  BY DEF Whole
<1>4. UNCHANGED <<groups, total, fed>> /\ Complete /\ Whole => Whole'
  <2>1. Reference(1..Len(stream))' = Reference(1..Len(stream))
        /\ Zeros(dirs)' = Zeros(dirs)
    BY Frame
  <2>2. QED
    BY <2>1 DEF Whole
<1>5. /\ UNCHANGED <<outcome, result>> /\ outcome # "ok" /\ Returned
           => Returned'
      /\ outcome' # "ok" /\ result' = NoResult => Returned'
  BY DEF Returned
<1>6. UNCHANGED <<groups, total, outcome, result>> /\ Returned => Returned'
  BY ResultKept DEF Returned
<1>7. QED
  BY <1>1, <1>2, <1>3, <1>4, <1>5, <1>6

-----------------------------------------------------------------------------
(* Each step.                                                              *)

LEMMA SkipStep ==
  ASSUME ControlTypeOK, ScanInv, SkipEmpty
  PROVE  ScanInv'
<1>1. /\ pc = "read" /\ pos \in 1..Len(stream) /\ DOMAIN stream[pos] = {}
      /\ pos' = pos + 1
      /\ UNCHANGED catalog /\ UNCHANGED <<pooled, stream>>
      /\ UNCHANGED <<future, pending, groups, total, fed, pc, outcome, result>>
  BY DEF SkipEmpty, ControlTypeOK, catalog
<1>2. TableOK' /\ Refused'
  BY <1>1, Kept DEF ScanInv
<1>3. outcome = "none" /\ pending \subseteq 1..(pos - 1)
  BY <1>1 DEF ScanInv, Course, ControlTypeOK
<1>4. Merged'
  <2> DEFINE ds == 1..(pos - 1) \ pending
  <2>1. ds \in SUBSET (1..Len(stream)) /\ pos \notin ds
    BY <1>1, StreamIs
  <2>2. 1..(pos' - 1) \ pending' = ds \cup {pos}
    BY <1>1, <1>3
  <2>3. groups = Reference(ds) /\ total + Part(pending, RowsOf) = fed
    BY <1>1 DEF ScanInv, Merged, Unharmed
  <2>4. Reference(ds \cup {pos}) = Reference(ds)
    BY <1>1, <2>1, ReferenceSkips
  <2> HIDE DEF ds
  <2>5. QED
    BY <1>1, <2>2, <2>3, <2>4, Frame DEF Merged
<1>5. Course'
  BY <1>1, <1>3 DEF ScanInv, Course, Through
<1>6. Whole' /\ Returned'
  BY <1>1, <1>3, Kept DEF ScanInv, Complete
<1>7. QED
  BY <1>2, <1>4, <1>5, <1>6 DEF ScanInv

LEMMA FeedStep ==
  ASSUME ControlTypeOK, ScanInv, Feed
  PROVE  ScanInv'
<1>1. /\ pc = "read" /\ pooled /\ pos \in 1..Len(stream)
      /\ pos' = pos + 1 /\ pending' = pending \cup {pos}
      /\ future' = [future EXCEPT ![pos] = "pending"]
      /\ fed' = fed + Rows(stream[pos])
      /\ \/ pc' \in {"wait", "read"} /\ outcome' = outcome
         \/ pc' = "unwind" /\ outcome' = "failed"
      /\ UNCHANGED catalog /\ UNCHANGED <<pooled, stream>>
      /\ UNCHANGED <<groups, total, result>>
  BY DEF Feed, Raise, ControlTypeOK, catalog
<1>2. outcome = "none" /\ pending \subseteq 1..(pos - 1) /\ pos \notin pending
  BY <1>1 DEF ScanInv, Course, ControlTypeOK
<1>3. /\ Rows(stream[pos]) \in Nat /\ RowsOf[pos] = Rows(stream[pos])
      /\ IsFiniteSet(pending') /\ \A i \in pending' : RowsOf[i] \in Nat
  <2>1. /\ {pos} \in SUBSET (1..Len(stream))
        /\ pending' \in SUBSET (1..Len(stream))
    BY <1>1, <1>2, StreamIs
  <2>2. QED
    BY <2>1, RowsAre, TimesIs
<1>4. TableOK'
  BY <1>1, <1>3 DEF ScanInv, TableOK
<1>5. Merged'
  <2>1. 1..(pos' - 1) \ pending' = 1..(pos - 1) \ pending
    BY <1>1, <1>2
  <2>2. groups = Reference(1..(pos - 1) \ pending)
        /\ total + Part(pending, RowsOf) = fed /\ total \in Nat
    BY <1>1 DEF ScanInv, Merged, Unharmed, TableOK
  <2>3. Part(pending', RowsOf) = RowsOf[pos] + Part(pending, RowsOf)
        /\ Part(pending, RowsOf) \in Nat
    <3>1. pos \in pending' /\ pending' \ {pos} = pending
      BY <1>1, <1>2
    <3>2. QED
      BY <1>3, <3>1, SumTakes
  <2>4. total' + Part(pending', RowsOf) = fed'
    BY <1>1, <1>3, <2>2, <2>3
  <2>5. QED
    BY <1>1, <2>1, <2>2, <2>4, Frame DEF Merged
<1>6. Course'
  BY <1>1, <1>2 DEF ScanInv, Course, Through
<1>7. Refused'
  <2>1. outcome' # "wide"
    BY <1>1, <1>2
  <2>2. \A i \in 1..Len(stream) : future'[i] = "wide" => future[i] = "wide"
    BY <1>1, StreamIs DEF ControlTypeOK
  <2>3. QED
    BY <1>1, <2>1, <2>2, Frame DEF ScanInv, Refused
<1>8. Whole' /\ Returned'
  BY <1>1, <1>2, Kept DEF ScanInv, Complete, Returned
<1>9. QED
  BY <1>4, <1>5, <1>6, <1>7, <1>8 DEF ScanInv

LEMMA FeedInlineStep ==
  ASSUME ControlTypeOK, ScanInv, FeedInline
  PROVE  ScanInv'
<1> DEFINE ds == 1..(pos - 1)
           merged == Reference(ds \cup {pos})
<1>1. /\ pc = "read" /\ ~pooled /\ pos \in 1..Len(stream) /\ pos' = pos + 1
      /\ UNCHANGED catalog /\ UNCHANGED <<pooled, stream>>
      /\ UNCHANGED <<future, pending, result>>
  BY DEF FeedInline, ControlTypeOK, catalog
<1>2. outcome = "none" /\ pending = {}
  BY <1>1 DEF ScanInv, Course
<1>3. /\ ds \in SUBSET (1..Len(stream)) /\ pos \notin ds
      /\ 1..(pos' - 1) = ds \cup {pos}
      /\ ds \cup {pos} \in SUBSET (1..Len(stream))
  BY <1>1, StreamIs
<1>4. groups = Reference(ds) /\ total = fed
  <2>1. ds \ pending = ds /\ Part(pending, RowsOf) = 0
    BY <1>2, SumEmpty
  <2>2. /\ groups = Reference(ds \ pending)
        /\ total + Part(pending, RowsOf) = fed
    BY <1>1 DEF ScanInv, Merged, Unharmed
  <2>3. total \in Nat
    BY DEF ScanInv, TableOK
  <2> HIDE DEF ds
  <2>4. QED
    BY <2>1, <2>2, <2>3
<1>5. Merge(groups, stream[pos]) = merged
  BY <1>1, <1>3, <1>4, ReferenceTakes
<1> HIDE DEF ds
<1>6. Rows(stream[pos]) \in Nat /\ total \in Nat
  <2>1. {pos} \in SUBSET (1..Len(stream))
    BY <1>1
  <2>2. RowsOf[pos] = Rows(stream[pos]) /\ RowsOf[pos] \in Nat
    BY <2>1, RowsAre
  <2>3. QED
    BY <2>2 DEF ScanInv, TableOK
<1> HIDE DEF merged
<1>7. \/ /\ TooWide(merged) /\ pc' = "unwind" /\ outcome' = "wide"
         /\ UNCHANGED <<groups, total, fed>>
      \/ /\ groups' = merged /\ ~TooWide(merged)
         /\ total' = total + Rows(stream[pos]) /\ fed' = total'
         /\ \/ pc' = "unwind" /\ outcome' = "failed"
            \/ pc' = "read" /\ outcome' = "none"
  BY <1>1, <1>2, <1>5 DEF FeedInline, Raise
<1>8. TableOK'
  <2>1. CASE UNCHANGED <<groups, total, fed>>
    BY <1>1, <2>1, Kept DEF ScanInv
  <2>2. CASE /\ groups' = merged /\ ~TooWide(merged)
             /\ total' = total + Rows(stream[pos]) /\ fed' = total'
    <3>1. /\ DOMAIN merged \subseteq Groups
          /\ Cardinality(DOMAIN merged) =< MaxGroups
          /\ \A g \in DOMAIN merged : merged[g] \in Stats
      BY <1>3, <2>2, ReferenceTable DEF merged
    <3>2. total' \in Nat /\ fed' \in Nat /\ groups' = merged
      BY <1>6, <2>2
    <3>3. QED
      BY <3>1, <3>2 DEF TableOK
  <2>3. QED
    BY <1>7, <2>1, <2>2
<1>9. Merged'
  <2>1. SUFFICES ASSUME Unharmed'
                 PROVE  groups' = merged /\ total' = fed' /\ total' \in Nat
    <3>1. 1..(pos' - 1) \ pending' = ds \cup {pos}
      BY <1>1, <1>2, <1>3
    <3>2. Part(pending', RowsOf) = 0
      BY <1>1, <1>2, SumEmpty
    <3>3. Reference(1..(pos - 1) \ pending)' = merged
      BY <1>1, <3>1, Frame DEF merged
    <3>4. Part(pending, RowsOf)' = 0
      BY <1>1, <3>2, Frame
    <3>5. QED
      BY <3>3, <3>4 DEF Merged
  <2>2. QED
    BY <1>6, <1>7, <2>1 DEF Unharmed
<1>10. Course'
  BY <1>1, <1>2, <1>7 DEF ScanInv, Course, Through
<1>11. Refused'
  <2>1. outcome' = "wide" => Cardinality(All) > MaxGroups
    <3>1. DOMAIN merged \subseteq All
      <4>1. DOMAIN merged = In(ds \cup {pos})
        BY <1>3, ReferenceIs DEF merged
      <4>2. QED
        BY <1>3, <4>1, InAll
    <3>2. QED
      BY <1>7, <3>1, WideAll
  <2>2. QED
    BY <1>1, <2>1, Frame DEF ScanInv, Refused
<1>12. Whole' /\ Returned'
  <2>1. outcome' # "ok" /\ pc' # "report"
    BY <1>7
  <2>2. QED
    BY <1>1, <1>2, <2>1, Kept DEF ScanInv, Complete, Returned
<1>13. QED
  BY <1>8, <1>9, <1>10, <1>11, <1>12 DEF ScanInv

LEMMA CollectStep ==
  ASSUME ControlTypeOK, ScanInv, Collect
  PROVE  ScanInv'
<1> DEFINE ds == 1..(pos - 1) \ pending
           good == {i \in Done : future[i] = "done"}
           merged == Reference(ds \cup Done)
           new == Part(Done, RowsOf)
<1>1. /\ pc \in {"wait", "drain"} /\ pending' = pending \ Done
      /\ UNCHANGED catalog /\ UNCHANGED <<pooled, stream>>
      /\ UNCHANGED <<pos, future, fed, result>>
  BY DEF Collect, catalog
<1>2. outcome = "none" /\ pending \subseteq 1..(pos - 1)
  BY <1>1 DEF ScanInv, Course, ControlTypeOK
<1>3. /\ ds \in SUBSET (1..Len(stream)) /\ pending \in SUBSET (1..Len(stream))
      /\ Done \in SUBSET pending /\ good \in SUBSET Done
      /\ ds \cap Done = {} /\ ds \cap good = {}
      /\ 1..(pos - 1) \ (pending \ Done) = ds \cup Done
  <2>1. 1..(pos - 1) \subseteq 1..Len(stream)
    BY StreamIs DEF ControlTypeOK
  <2>2. Done \in SUBSET pending /\ good \in SUBSET Done
    BY DEF Done
  <2> HIDE DEF good
  <2>3. QED
    BY <1>2, <2>1, <2>2
<1>4. groups = Reference(ds) /\ total + Part(pending, RowsOf) = fed
  BY <1>1 DEF ScanInv, Merged, Unharmed
<1>5. /\ MergeAll(groups, Done) = merged
      /\ MergeAll(groups, good) = Reference(ds \cup good)
      /\ SumFunction([i \in Done |-> Rows(stream[i])]) = new /\ new \in Nat
  <2> HIDE DEF ds, good
  <2>1. Done \in SUBSET (1..Len(stream)) /\ good \in SUBSET (1..Len(stream))
    BY <1>3
  <2>2. QED
    BY <1>3, <1>4, <2>1, MergeAllIs, RowsAre
<1>6. /\ Part(pending, RowsOf) = new + Part(pending \ Done, RowsOf)
      /\ Part(pending \ Done, RowsOf) \in Nat
  <2>1. IsFiniteSet(pending) /\ \A i \in pending : RowsOf[i] \in Nat
    BY <1>3, RowsAre, TimesIs
  <2>2. Part(pending, RowsOf) = new + Part(pending \ Done, RowsOf)
    BY <1>3, <2>1, SumSplits
  <2>3. pending \ Done \in SUBSET (1..Len(stream))
    BY <1>3
  <2>4. Part(pending \ Done, RowsOf) \in Nat
    BY <2>3, RowsAre
  <2>5. QED
    BY <2>2, <2>4
<1>7. total \in Nat /\ fed \in Nat
  BY DEF ScanInv, TableOK
<1> HIDE DEF ds, good, merged, new
<1>8. \/ /\ groups' = merged /\ ~TooWide(merged) /\ total' = total + new
         /\ pc' \in {"read", "drain"} /\ outcome' = "none"
         /\ pc' = "drain" => pc = "drain"
      \/ /\ \E i \in Done : future[i] # "done" /\ outcome' = future[i]
         /\ pc' = "unwind" /\ UNCHANGED <<groups, total>>
      \/ /\ TooWide(Reference(ds \cup good))
         /\ pc' = "unwind" /\ outcome' = "wide" /\ UNCHANGED <<groups, total>>
  <2>1. CASE /\ \A i \in Done : future[i] = "done"
             /\ groups' = MergeAll(groups, Done) /\ ~TooWide(groups')
             /\ total' = total + SumFunction([i \in Done |-> Rows(stream[i])])
             /\ pc' = IF pc = "wait" THEN "read" ELSE "drain"
             /\ UNCHANGED outcome
    BY <1>1, <1>2, <1>5, <2>1
  <2>2. CASE /\ \E i \in Done : future[i] # "done" /\ Raise(future[i])
             /\ UNCHANGED <<groups, total>>
    BY <2>2 DEF Raise
  <2>3. CASE /\ TooWide(MergeAll(groups, good))
             /\ Raise("wide")
             /\ UNCHANGED <<groups, total>>
    BY <1>5, <2>3 DEF Raise
  <2>4. QED
    BY <2>1, <2>2, <2>3 DEF Collect, good
<1>9. /\ outcome' \in {"none", "wide", "failed"}
      /\ pc' \in {"read", "drain", "unwind"}
      /\ outcome' = "none" => pc' # "unwind"
  BY <1>8 DEF Done
<1>10. TableOK'
  <2>1. CASE UNCHANGED <<groups, total, fed>>
    BY <1>1, <2>1, Kept DEF ScanInv
  <2>2. CASE groups' = merged /\ ~TooWide(merged) /\ total' = total + new
    <3>1. ds \cup Done \in SUBSET (1..Len(stream))
      BY <1>3
    <3>2. /\ DOMAIN merged \subseteq Groups
          /\ Cardinality(DOMAIN merged) =< MaxGroups
          /\ \A g \in DOMAIN merged : merged[g] \in Stats
      BY <2>2, <3>1, ReferenceTable DEF merged
    <3>3. total' \in Nat /\ fed' \in Nat /\ groups' = merged
      BY <1>1, <1>5, <1>7, <2>2
    <3>4. QED
      BY <3>2, <3>3 DEF TableOK
  <2>3. QED
    BY <1>1, <1>8, <2>1, <2>2
<1>11. Merged'
  <2>1. SUFFICES ASSUME Unharmed'
                 PROVE  groups' = merged /\ total' = total + new
    <3>1. Reference(1..(pos - 1) \ pending)' = merged
      BY <1>1, <1>3, Frame DEF merged
    <3>2. Part(pending, RowsOf)' = Part(pending \ Done, RowsOf)
      BY <1>1, Frame
    <3>3. QED
      BY <1>1, <1>4, <1>5, <1>6, <1>7, <3>1, <3>2 DEF Merged
  <2>2. QED
    BY <1>8, <1>9, <2>1 DEF Unharmed
<1>12. Course'
  <2>1. pc' = "drain" => pos' = Len(stream') + 1
    BY <1>1, <1>8 DEF ScanInv, Course
  <2>2. ~pooled' => pending' = {}
    BY <1>1 DEF ScanInv, Course
  <2>3. ~Through'
    BY <1>9 DEF Through
  <2>4. pc' \in {"read", "drain"} => outcome' = "none"
    BY <1>8
  <2>5. QED
    BY <1>9, <2>1, <2>2, <2>3, <2>4 DEF Course
<1>13. Refused'
  <2>1. outcome' = "wide" => Cardinality(All) > MaxGroups
    <3>1. ASSUME NEW i \in Done, future[i] = "wide"
          PROVE  Cardinality(All) > MaxGroups
      <4>1. TooWide(stream[i]) /\ DOMAIN stream[i] \subseteq All
        BY <1>3, <3>1, InAll DEF ScanInv, Refused
      <4>2. QED
        BY <4>1, WideAll
    <3>2. ASSUME TooWide(Reference(ds \cup good))
          PROVE  Cardinality(All) > MaxGroups
      <4>1. ds \cup good \in SUBSET (1..Len(stream))
        BY <1>3
      <4>2. DOMAIN Reference(ds \cup good) = In(ds \cup good)
        BY <4>1, ReferenceIs
      <4>3. DOMAIN Reference(ds \cup good) \subseteq All
        BY <4>1, <4>2, InAll
      <4>4. QED
        BY <3>2, <4>3, WideAll
    <3>3. QED
      BY <1>8, <3>1, <3>2
  <2>2. QED
    BY <1>1, <2>1, Frame DEF ScanInv, Refused
<1>14. Whole' /\ Returned'
  BY <1>1, <1>2, <1>9, Kept DEF ScanInv, Complete, Returned
<1>15. QED
  BY <1>10, <1>11, <1>12, <1>13, <1>14 DEF ScanInv

\* The reader goes on without a change of what is merged.
LEMMA TurnStep ==
  ASSUME ControlTypeOK, ScanInv,
         StreamFails \/ StreamEnds \/ Drained \/ Shutdown \/ SeedFails
           \/ ReportRaises
  PROVE  ScanInv'
<1>1. /\ UNCHANGED catalog /\ UNCHANGED <<pooled, stream>>
      /\ UNCHANGED <<pos, future, pending, groups, total, fed, result>>
  BY DEF StreamFails, StreamEnds, Drained, Shutdown, SeedFails, ReportRaises,
     catalog
<1>2. \/ outcome' = "failed" /\ pc' \in {"unwind", "over"} /\ outcome = "none"
      \/ /\ pc = "read" /\ outcome = "none" /\ outcome' = "none"
         /\ pos = Len(stream) + 1
         /\ pc' = "drain" \/ (pc' = "unwind" /\ pending = {})
      \/ /\ pc = "drain" /\ pending = {} /\ pc' = "unwind"
         /\ outcome = "none" /\ outcome' = "none"
      \/ /\ pc = "unwind" /\ pending = {} /\ outcome' = outcome
         /\ pc' = IF outcome = "none" THEN "seed" ELSE "over"
  <2>1. pc \in {"read", "drain", "seed", "report"} => outcome = "none"
    BY DEF ScanInv, Course
  <2>2. CASE StreamFails \/ SeedFails \/ ReportRaises
    BY <2>1, <2>2 DEF StreamFails, SeedFails, ReportRaises, Raise
  <2>3. CASE StreamEnds
    <3>1. pos = Len(stream) + 1
      BY <2>3, StreamIs DEF StreamEnds, ControlTypeOK
    <3>2. ~pooled => pending = {}
      BY DEF ScanInv, Course
    <3>3. QED
      BY <2>1, <2>3, <3>1, <3>2 DEF StreamEnds
  <2>4. CASE Drained \/ Shutdown
    BY <2>1, <2>4 DEF Drained, Shutdown
  <2>5. QED
    BY <2>2, <2>3, <2>4
<1>3. TableOK'
  BY <1>1, Kept DEF ScanInv
<1>4. Merged'
  <2>1. Unharmed' => Unharmed
    BY <1>2 DEF Unharmed
  <2>2. QED
    BY <1>1, <2>1, Frame DEF ScanInv, Merged
<1>5. Course'
  <2>1. outcome = "ok" => pc = "over"
    BY DEF ScanInv, Course
  <2>2. pc = "drain" \/ Through => pos = Len(stream) + 1
    BY DEF ScanInv, Course
  <2>3. ~pooled => pending = {}
    BY DEF ScanInv, Course
  <2>4. CASE outcome' = "failed" /\ pc' \in {"unwind", "over"}
    BY <1>1, <2>3, <2>4 DEF Course, Through
  <2>5. CASE /\ pc = "read" /\ outcome' = "none" /\ pos = Len(stream) + 1
             /\ pc' = "drain" \/ (pc' = "unwind" /\ pending = {})
    BY <1>1, <2>3, <2>5 DEF Course, Through
  <2>6. CASE pc = "drain" /\ pending = {} /\ pc' = "unwind" /\ outcome' = "none"
    BY <1>1, <2>2, <2>6 DEF Course, Through
  <2>7. CASE /\ pc = "unwind" /\ pending = {} /\ outcome' = outcome
             /\ pc' = IF outcome = "none" THEN "seed" ELSE "over"
    BY <1>1, <2>1, <2>2, <2>7 DEF Course, Through
  <2>8. QED
    BY <1>2, <2>4, <2>5, <2>6, <2>7
<1>6. Refused'
  <2>1. outcome' = "wide" => outcome = "wide"
    BY <1>2
  <2>2. QED
    BY <1>1, <2>1, Frame DEF ScanInv, Refused
<1>7. Whole' /\ Returned'
  <2>1. outcome # "ok" /\ outcome' # "ok" /\ pc' # "report"
    BY <1>2 DEF ScanInv, Course
  <2>2. result = NoResult
    BY <2>1 DEF ScanInv, Returned
  <2>3. QED
    BY <1>1, <2>1, <2>2, Kept DEF Complete
<1>8. QED
  BY <1>3, <1>4, <1>5, <1>6, <1>7 DEF ScanInv

LEMMA CancelStep ==
  ASSUME ControlTypeOK, ScanInv, NEW i \in pending, Cancel(i)
  PROVE  ScanInv'
<1>1. /\ pc = "unwind" /\ pending' = pending \ {i}
      /\ future' = IF future[i] = "pending"
                   THEN [future EXCEPT ![i] = "cancelled"] ELSE future
      /\ UNCHANGED catalog /\ UNCHANGED <<pooled, stream>>
      /\ UNCHANGED <<pos, groups, total, fed, pc, outcome, result>>
  BY DEF Cancel, catalog
<1>2. outcome # "none" /\ outcome # "ok"
  BY <1>1 DEF ScanInv, Course, Through
<1>3. TableOK' /\ Whole' /\ Returned'
  BY <1>1, <1>2, Kept DEF ScanInv, Complete
<1>4. Merged' /\ Course'
  BY <1>1, <1>2 DEF ScanInv, Merged, Unharmed, Course, Through
<1>5. Refused'
  <2>1. \A k \in 1..Len(stream) : future'[k] = "wide" => future[k] = "wide"
    BY <1>1, StreamIs DEF ControlTypeOK
  <2>2. QED
    BY <1>1, <2>1, Frame DEF ScanInv, Refused
<1>6. QED
  BY <1>3, <1>4, <1>5 DEF ScanInv

LEMMA WorkStep ==
  ASSUME ControlTypeOK, Pipeline, ScanInv,
         NEW i \in 1..MaxBatches, Take(i) \/ Aggregate(i)
  PROVE  ScanInv'
<1>1. /\ UNCHANGED catalog /\ UNCHANGED <<pooled, stream>>
      /\ UNCHANGED <<pos, pending, groups, total, fed, pc, outcome, result>>
  BY DEF Take, Aggregate, catalog
<1>2. TableOK' /\ Merged' /\ Course'
  BY <1>1, Kept, Frame DEF ScanInv, Merged, Unharmed, Course, Through
<1>3. Refused'
  <2>1. \A k \in 1..Len(stream) :
          future'[k] = "wide" => future[k] = "wide" \/ TooWide(stream[k])
    BY StreamIs DEF ControlTypeOK, Take, Aggregate
  <2>2. QED
    BY <1>1, <2>1, Frame DEF ScanInv, Refused
<1>4. Whole' /\ Returned'
  <2>1. Complete' <=> Complete
    BY <1>1 DEF Complete
  <2>2. Whole'
    BY <1>1, <2>1, Kept DEF ScanInv
  <2>3. Returned'
    BY <1>1, Kept DEF ScanInv
  <2>4. QED
    BY <2>2, <2>3
<1>5. QED
  BY <1>2, <1>3, <1>4 DEF ScanInv

LEMMA IdleStep ==
  ASSUME ControlTypeOK, ScanInv, UNCHANGED vars
  PROVE  ScanInv'
<1>1. /\ UNCHANGED catalog /\ UNCHANGED <<pooled, stream>>
      /\ UNCHANGED <<pos, future, pending, groups, total, fed, pc, outcome,
                     result>>
  BY DEF vars, catalog
<1>2. TableOK' /\ Merged' /\ Course' /\ Refused'
  BY <1>1, Kept, Frame DEF ScanInv, Merged, Unharmed, Course, Through
<1>3. Whole' /\ Returned'
  <2>1. Complete' <=> Complete
    BY <1>1 DEF Complete
  <2>2. Whole'
    BY <1>1, <2>1, Kept DEF ScanInv
  <2>3. Returned'
    BY <1>1, Kept DEF ScanInv
  <2>4. QED
    BY <2>2, <2>3
<1>4. QED
  BY <1>2, <1>3 DEF ScanInv

\* What the root shows is a statistic, too.
LEMMA FoldStats ==
  ASSUME NEW gs, IsFiniteSet(DOMAIN gs), \A g \in DOMAIN gs : gs[g] \in Stats
  PROVE  Fold(gs) \in Stats
<1> DEFINE A == DOMAIN gs
           Eq(f) == f = [s \in SUBSET A |->
                           IF s = {} THEN Zero
                           ELSE Add(f[s \ {CHOOSE x \in s : TRUE}],
                                    gs[CHOOSE x \in s : TRUE])]
           c == CHOOSE f : Eq(f)
           st == [x \in A |-> [v \in Stats |-> Add(v, gs[x])]]
<1>1. st \in [A -> [Stats -> Stats]] /\ Zero \in Stats
  <2>1. \A x \in A, v \in Stats : Add(v, gs[x]) \in Stats
    BY AddStats
  <2>2. QED
    BY <2>1, ZeroStats
<1>2. PICK h : h \in SetRuns(A, Stats, Zero, st)
  <2> HIDE DEF st, A
  <2>1. SetRuns(A, Stats, Zero, st) # {}
    BY <1>1, SetRecursion DEF A
  <2>2. QED
    BY <2>1
<1>3. /\ h \in [SUBSET A -> Stats] /\ h[{}] = Zero
      /\ \A s \in SUBSET A : s # {} => h[s] = st[Pick(s)][h[s \ {Pick(s)}]]
  BY <1>2 DEF SetRuns
<1>4. \A s \in SUBSET A : s # {} =>
        st[Pick(s)][h[s \ {Pick(s)}]] = Add(h[s \ {Pick(s)}], gs[Pick(s)])
  <2>1. \A s \in SUBSET A :
          s # {} => Pick(s) \in A /\ h[s \ {Pick(s)}] \in Stats
    BY <1>3 DEF Pick
  <2>2. \A x \in A, v \in Stats : st[x][v] = Add(v, gs[x])
    OBVIOUS
  <2> HIDE DEF st, A
  <2>3. QED
    BY <2>1, <2>2
<1>5. Eq(h)
  <2>1. \A s \in SUBSET A :
          h[s] = IF s = {} THEN Zero ELSE Add(h[s \ {Pick(s)}], gs[Pick(s)])
    BY <1>3, <1>4
  <2> HIDE DEF st, A
  <2>2. h = [s \in SUBSET A |->
               IF s = {} THEN Zero ELSE Add(h[s \ {Pick(s)}], gs[Pick(s)])]
    BY <1>3, <2>1
  <2>3. QED
    BY <2>2 DEF Pick
<1>6. Eq(c)
  <2> HIDE DEF Eq
  <2>1. QED
    BY <1>5
<1>7. \A s \in SUBSET A :
        c[s] = IF s = {} THEN Zero ELSE Add(c[s \ {Pick(s)}], gs[Pick(s)])
  <2> HIDE DEF c, A
  <2>1. QED
    BY <1>6 DEF Pick
<1>8. Fold(gs) = c[A]
  BY DEF Fold, FoldSet, MapThenFoldSet
<1> HIDE DEF c, Eq, st
<1>9. \A s \in SUBSET A : c[s] = h[s]
  <2> DEFINE T == {s \in SUBSET A : c[s] = h[s]}
  <2>1. {} \in T /\ T \in SUBSET (SUBSET A)
    BY <1>3, <1>7
  <2>2. ASSUME NEW s \in SUBSET A, s # {}, s \ {Pick(s)} \in T PROVE s \in T
    BY <1>3, <1>4, <1>7, <2>2
  <2>3. T = SUBSET A
    <3> HIDE DEF T
    <3>1. QED
      BY <2>1, <2>2, SetInduct
  <2>4. QED
    BY <2>3
<1>10. QED
  BY <1>3, <1>8, <1>9

LEMMA SeedStep ==
  ASSUME ControlTypeOK, ScanInv, Seed
  PROVE  ScanInv'
<1> DEFINE ref == Reference(1..Len(stream))
           seeded(read) == Merge(groups, [g \in read |-> Zero])
<1>1. /\ pc = "seed" /\ UNCHANGED catalog /\ UNCHANGED <<pooled, stream>>
      /\ UNCHANGED <<pos, future, pending, total, fed, result>>
  BY DEF Seed, catalog
<1>2. /\ outcome = "none" /\ pos = Len(stream) + 1 /\ pending = {}
  BY <1>1 DEF ScanInv, Course, Through
<1>3. groups = ref /\ total = fed /\ total \in Nat /\ fed \in Nat
  <2>1. 1..(pos - 1) \ pending = 1..Len(stream)
    BY <1>2, StreamIs
  <2>2. Part(pending, RowsOf) = 0
    BY <1>2, SumEmpty
  <2>3. groups = Reference(1..(pos - 1) \ pending)
        /\ total + Part(pending, RowsOf) = fed
    BY <1>1 DEF ScanInv, Merged, Unharmed
  <2>4. total \in Nat /\ fed \in Nat
    BY DEF ScanInv, TableOK
  <2> HIDE DEF ref
  <2>5. groups = ref
    BY <2>1, <2>3 DEF ref
  <2>6. QED
    BY <2>2, <2>3, <2>4, <2>5
<1>4. DOMAIN groups = In(1..Len(stream)) /\ DOMAIN groups \subseteq All
  BY <1>3, ReferenceIs DEF All
<1>5. \A g \in DOMAIN groups : groups[g] \in Stats
  BY DEF ScanInv, TableOK
<1> HIDE DEF ref
<1>6. PICK read \in Readable :
        \/ /\ TooWide(seeded(read)) /\ pc' = "over" /\ outcome' = "wide"
           /\ UNCHANGED groups
        \/ /\ ~TooWide(seeded(read)) /\ pc' = "report"
           /\ groups' = seeded(read) /\ UNCHANGED outcome
  BY DEF Seed
<1>7. /\ DOMAIN seeded(read) = DOMAIN groups \cup read
      /\ DOMAIN seeded(read) \subseteq All /\ All \subseteq Groups
      /\ \A g \in DOMAIN seeded(read) : seeded(read)[g] \in Stats
  <2>1. DOMAIN seeded(read) = DOMAIN groups \cup read
    BY DEF Merge
  <2>2. read \subseteq dirs
    BY DEF Readable
  <2>3. All \subseteq Groups
    BY StreamIs, RollupAssumption DEF All, In, ControlTypeOK
  <2>4. \A g : Of([k \in read |-> Zero], g) = Zero
    BY DEF Of
  <2>5. \A g \in DOMAIN seeded(read) :
          seeded(read)[g] = Add(Of(groups, g), Zero)
    BY <2>4 DEF Merge
  <2>6. \A g : Of(groups, g) \in Stats
    BY <1>5, OfStats
  <2>7. QED
    BY <1>4, <2>1, <2>2, <2>3, <2>5, <2>6, AddStats, ZeroStats DEF All
<1>8. ASSUME ~TooWide(seeded(read))
      PROVE  read = dirs /\ Cardinality(DOMAIN seeded(read)) =< MaxGroups
  <2>1. IsFiniteSet(DOMAIN seeded(read))
    BY <1>7, FS_Subset, RollupAssumption
  <2>2. /\ Cardinality(DOMAIN seeded(read)) \in Nat /\ Cardinality(read) \in Nat
        /\ Cardinality(read) =< Cardinality(DOMAIN seeded(read))
    BY <1>7, <2>1, FS_Subset, FS_CardinalityType
  <2>3. Cardinality(DOMAIN seeded(read)) =< MaxGroups
    BY <1>8, <2>2, RollupAssumption DEF TooWide
  <2>4. Cardinality(read) # MaxGroups + 1
    BY <2>2, <2>3, RollupAssumption
  <2>5. QED
    BY <2>3, <2>4 DEF Readable
<1> HIDE DEF seeded
<1>9. TableOK'
  <2>1. CASE UNCHANGED groups
    BY <1>1, <2>1, Kept DEF ScanInv
  <2>2. CASE ~TooWide(seeded(read)) /\ groups' = seeded(read)
    BY <1>1, <1>3, <1>7, <1>8, <2>2 DEF TableOK
  <2>3. QED
    BY <1>6, <2>1, <2>2
<1>10. Merged' /\ Course'
  <2>1. ~Unharmed'
    BY <1>6 DEF Unharmed
  <2>2. QED
    BY <1>1, <1>2, <1>6, <2>1 DEF Merged, Course, Through
<1>11. Refused'
  <2>1. outcome' = "wide" => Cardinality(All) > MaxGroups
    BY <1>2, <1>6, <1>7, WideAll
  <2>2. QED
    BY <1>1, <2>1, Frame DEF ScanInv, Refused
<1>12. Whole'
  <2>1. CASE outcome' = "wide"
    <3>1. pc' # "report"
      BY <1>2, <1>6, <2>1
    <3>2. QED
      BY <2>1, <3>1 DEF Whole, Complete
  <2>2. CASE ~TooWide(seeded(read)) /\ groups' = seeded(read)
    <3>1. groups' = Merge(ref, Zeros(dirs))
      BY <1>3, <1>8, <2>2 DEF seeded, Zeros
    <3>2. QED
      BY <1>1, <1>3, <3>1, Frame DEF Whole, ref
  <2>3. QED
    BY <1>6, <2>1, <2>2
<1>13. Returned'
  BY <1>1, <1>2, <1>6, Kept DEF ScanInv, Returned
<1>14. QED
  BY <1>9, <1>10, <1>11, <1>12, <1>13 DEF ScanInv

LEMMA ReportStep ==
  ASSUME ControlTypeOK, ScanInv, Report
  PROVE  ScanInv'
<1>1. /\ pc = "report" /\ pc' = "over" /\ outcome' = "ok"
      /\ UNCHANGED catalog /\ UNCHANGED <<pooled, stream>>
      /\ UNCHANGED <<pos, future, pending, groups, total, fed>>
  BY DEF Report, catalog
<1>2. TableOK'
  BY <1>1, Kept DEF ScanInv
<1>3. Merged' /\ Course'
  <2>1. pos = Len(stream) + 1 /\ pending = {}
    BY <1>1 DEF ScanInv, Course, Through
  <2>2. QED
    BY <1>1, <2>1 DEF Merged, Unharmed, Course, Through
<1>4. Refused'
  BY <1>1, Frame DEF ScanInv, Refused
<1>5. Whole'
  BY <1>1, Kept DEF ScanInv, Complete
<1>6. Returned'
  <2>1. PICK order \in BySize(groups) : result' = ResultOf(order)
    BY Zenon DEF Report, ResultOf
  <2>2. QED
    BY <1>1, <2>1, ResultKept DEF Returned
<1>7. QED
  BY <1>2, <1>3, <1>4, <1>5, <1>6 DEF ScanInv

LEMMA ScanStep ==
  ASSUME ControlTypeOK, Pipeline, ScanInv, [Next]_vars
  PROVE  ScanInv'
<1>1. CASE SkipEmpty
  BY <1>1, SkipStep
<1>2. CASE Feed
  BY <1>2, FeedStep
<1>3. CASE FeedInline
  BY <1>3, FeedInlineStep
<1>4. CASE StreamFails \/ StreamEnds \/ Drained \/ Shutdown \/ SeedFails
           \/ ReportRaises
  BY <1>4, TurnStep
<1>5. CASE Collect
  BY <1>5, CollectStep
<1>6. ASSUME NEW i \in pending, Cancel(i)
      PROVE  ScanInv'
  BY <1>6, CancelStep
<1>7. CASE Seed
  BY <1>7, SeedStep
<1>8. CASE Report
  BY <1>8, ReportStep
<1>9. ASSUME NEW i \in 1..MaxBatches, Take(i) \/ Aggregate(i)
      PROVE  ScanInv'
  BY <1>9, WorkStep
<1>10. CASE UNCHANGED vars
  BY <1>10, IdleStep
<1>11. QED
  BY <1>1, <1>2, <1>3, <1>4, <1>5, <1>6, <1>7, <1>8, <1>9, <1>10
  DEF Next, Reader, Workers, Over

LEMMA ScanInvariance == Spec => [](ControlTypeOK /\ Pipeline /\ ScanInv)
<1>1. Init => ControlTypeOK /\ Pipeline /\ ScanInv
  BY TypeInit, PipelineInit, ScanInit
<1>2. ControlTypeOK /\ Pipeline /\ ScanInv /\ [Next]_vars
        => (ControlTypeOK /\ Pipeline /\ ScanInv)'
  BY TypeStep, PipelineStep, ScanStep
<1>3. QED
  BY <1>1, <1>2, PTL DEF Spec

-----------------------------------------------------------------------------
(* What a rollup that succeeds returns.                                    *)

\* The orders of the children hold each group once, and no sequence twice.
LEMMA Orders ==
  ASSUME ControlTypeOK, TableOK, NEW order \in BySize(groups)
  PROVE  /\ order \in Seq(DOMAIN groups)
         /\ DOMAIN order = 1..Cardinality(DOMAIN groups)
         /\ Len(order) = Cardinality(DOMAIN groups)
         /\ Cardinality(DOMAIN groups) \in Nat
         /\ \A i, j \in DOMAIN order : i # j => order[i] # order[j]
         /\ \A g \in DOMAIN groups : \E i \in DOMAIN order : order[i] = g
         /\ \A i, j \in DOMAIN order :
              i < j => groups[order[i]].bytes >= groups[order[j]].bytes
<1> DEFINE n == Cardinality(DOMAIN groups)
           S == DOMAIN groups
<1>1. IsFiniteSet(S) /\ n \in Nat
  BY FS_Subset, FS_CardinalityType, RollupAssumption DEF TableOK
<1>2. /\ order \in [1..n -> S]
      /\ \A i, j \in 1..n : i # j => order[i] # order[j]
      /\ \A i, j \in DOMAIN order :
              i < j => groups[order[i]].bytes >= groups[order[j]].bytes
  BY DEF BySize, SetToSeqs
<1>3. order \in Seq(S) /\ Len(order) = n /\ DOMAIN order = 1..n
  BY <1>1, <1>2
<1>4. \A g \in S : \E i \in 1..n : order[i] = g
  <2> HIDE DEF n, S
  <2>1. IsFiniteSet(1..n) /\ Cardinality(1..n) = n
    BY <1>1, FS_Interval
  <2>2. order \in Injection(1..n, S)
    BY <1>2 DEF Injection, IsInjective
  <2>3. order \in Surjection(1..n, S)
    BY <1>1, <2>1, <2>2, FS_Surjection, FS_Injection DEF n, S
  <2>4. QED
    BY <2>3 DEF Surjection
<1>5. QED
  BY <1>1, <1>2, <1>3, <1>4

LEMMA ResultIs ==
  ASSUME ControlTypeOK, TableOK, NEW order \in BySize(groups)
  PROVE  ResultOf(order) # NoResult
<1> DEFINE Child == [name : Groups, stats : Stats]
           ch == [i \in DOMAIN order |-> [name  |-> order[i],
                                          stats |-> groups[order[i]]]]
<1>1. /\ order \in Seq(DOMAIN groups) /\ DOMAIN order = 1..Len(order)
      /\ Len(order) \in Nat
  BY Orders
<1>2. \A i \in DOMAIN order : order[i] \in Groups /\ groups[order[i]] \in Stats
  BY <1>1 DEF TableOK
<1>3. ch \in Seq(Child)
  <2>1. \A i \in DOMAIN order :
          [name |-> order[i], stats |-> groups[order[i]]] \in Child
    BY <1>2
  <2> HIDE DEF Child
  <2>2. ch \in [1..Len(order) -> Child]
    BY <1>1, <2>1
  <2>3. QED
    BY <1>1, <2>2
<1>4. Fold(groups) \in Stats
  <2>1. IsFiniteSet(DOMAIN groups)
    BY FS_Subset, RollupAssumption DEF TableOK
  <2>2. QED
    BY <2>1, FoldStats DEF TableOK
<1>5. ResultOf(order) \in [rows : Nat, totals : Stats, children : Seq(Child)]
  <2> HIDE DEF ch, Child
  <2>1. ResultOf(order) = [rows |-> total, totals |-> Fold(groups),
                           children |-> ch]
    BY DEF ResultOf, ch
  <2>2. QED
    BY <1>3, <1>4, <2>1 DEF TableOK
<1>6. QED
  BY <1>5, RollupAssumption

LEMMA ScanTypes ==
  ASSUME ControlTypeOK, ScanInv
  PROVE  TypeOK
<1>1. result = NoResult <=> outcome # "ok"
  BY ResultIs DEF ScanInv, Returned
<1>2. QED
  BY <1>1 DEF TypeOK, ScanInv, TableOK

LEMMA ScanMerged ==
  ASSUME ControlTypeOK, ScanInv
  PROVE  MergedIsReference
<1>1. pending \in SUBSET (1..Len(stream))
  BY StreamIs DEF ControlTypeOK
<1>2. SumFunction([i \in pending |-> Rows(stream[i])]) = Part(pending, RowsOf)
  BY <1>1, RowsAre
<1>3. QED
  BY <1>2 DEF ScanInv, Merged, Unharmed, MergedIsReference

\* The groups of a rollup that succeeds.
LEMMA WholeIs ==
  ASSUME ControlTypeOK, ScanInv, outcome = "ok"
  PROVE  /\ groups = Merge(Reference(DOMAIN stream), [g \in dirs |-> Zero])
         /\ DOMAIN groups = All /\ DOMAIN stream = 1..Len(stream)
<1>1. DOMAIN stream = 1..Len(stream)
  BY StreamIs
<1>2. groups = Merge(Reference(1..Len(stream)), Zeros(dirs))
  BY DEF ScanInv, Whole, Complete
<1>3. DOMAIN Reference(1..Len(stream)) = In(1..Len(stream))
  BY ReferenceIs
<1>4. DOMAIN Zeros(dirs) = dirs /\ Zeros(dirs) = [g \in dirs |-> Zero]
  BY DEF Zeros
<1>5. DOMAIN groups = All
  BY <1>2, <1>3, <1>4 DEF Merge, All
<1>6. QED
  BY <1>1, <1>2, <1>4, <1>5

LEMMA ScanRefused ==
  ASSUME ControlTypeOK, ScanInv
  PROVE  RefusedIfTooWide
<1>1. (UNION {DOMAIN stream[i] : i \in DOMAIN stream}) \cup dirs = All
  BY StreamIs DEF All, In
<1>2. outcome = "ok" => Cardinality(All) =< MaxGroups
  BY WholeIs DEF ScanInv, TableOK
<1>3. QED
  BY <1>1, <1>2 DEF RefusedIfTooWide, ScanInv, Refused

LEMMA MinOfTwo ==
  ASSUME NEW m \in Nat, NEW n \in Nat
  PROVE  Min({m, n}) = IF m =< n THEN m ELSE n
<1> DEFINE k == IF m =< n THEN m ELSE n
<1>1. k \in {m, n} /\ \A y \in {m, n} : k =< y
  OBVIOUS
<1> HIDE DEF k
<1>2. Min({m, n}) \in {m, n} /\ \A y \in {m, n} : Min({m, n}) =< y
  BY <1>1 DEF Min
<1>3. Min({m, n}) = k
  BY <1>1, <1>2
<1>4. QED
  BY <1>3 DEF k

LEMMA FirstOf ==
  ASSUME NEW X, NEW ch \in Seq(X), NEW k \in Nat, k =< Len(ch)
  PROVE  SubSeq(ch, 1, k) = [i \in 1..k |-> ch[i]]
OBVIOUS

\* A response shows the first of the children, which are the largest.
LEMMA Shows ==
  ASSUME NEW X, NEW ch \in Seq(X), NEW r, r.children = ch,
         \A i, j \in DOMAIN ch : i # j => ch[i] # ch[j],
         \A i, j \in DOMAIN ch :
           i < j => ch[i].stats.bytes >= ch[j].stats.bytes,
         NEW limit \in Nat
  PROVE  ShowsTheLargest(r, limit)
<1> DEFINE q == IF limit = 0 THEN ResponseChildren ELSE limit
           n == Min({q, MaxGroups})
           L == Len(ch)
           k == Min({n, L})
           shown == SubSeq(ch, 1, k)
           hidden == ToSet(ch) \ ToSet(shown)
           p == PublicResult(r, limit)
<1>1. /\ n \in Nat /\ L \in Nat /\ k \in Nat /\ k = IF n =< L THEN n ELSE L
      /\ DOMAIN ch = 1..L
  <2>1. q \in Nat /\ MaxGroups \in Nat
    BY RollupAssumption
  <2>2. n \in Nat
    <3> HIDE DEF q
    <3>1. QED
      BY <2>1, MinOfTwo
  <2>3. L \in Nat /\ DOMAIN ch = 1..L
    OBVIOUS
  <2>4. k = IF n =< L THEN n ELSE L
    <3> HIDE DEF n, L
    <3>1. QED
      BY <2>2, <2>3, MinOfTwo
  <2>5. QED
    BY <2>2, <2>3, <2>4
<1>2. p = [children |-> shown, total |-> L, truncated |-> L > n]
  BY DEF PublicResult
<1> HIDE DEF q, n, L, k, p
<1>3. k =< L /\ (L > n <=> L > k)
  BY <1>1
<1>4. /\ DOMAIN shown = 1..k /\ Len(shown) = k
      /\ \A i \in 1..k : shown[i] = ch[i] /\ i \in DOMAIN ch
  <2>1. shown = [i \in 1..k |-> ch[i]]
    <3>1. k \in Nat /\ k =< Len(ch)
      BY <1>1, <1>3 DEF L
    <3>2. QED
      BY <3>1, FirstOf
  <2> HIDE DEF shown
  <2>2. QED
    BY <1>1, <1>3, <2>1
<1>5. ToSet(shown) = {ch[i] : i \in 1..k} /\ ToSet(ch) = {ch[i] : i \in 1..L}
  <2> HIDE DEF shown, hidden
  <2>1. /\ ToSet(shown) = {shown[i] : i \in 1..k}
        /\ ToSet(ch) = {ch[i] : i \in 1..L}
    BY <1>1, <1>4 DEF ToSet
  <2>2. QED
    BY <1>4, <2>1
<1>6. hidden = {ch[i] : i \in (k + 1)..L}
  <2>1. \A i \in (k + 1)..L, j \in 1..k : ch[i] # ch[j]
    BY <1>1, <1>3
  <2>2. 1..L = 1..k \cup (k + 1)..L
    BY <1>1, <1>3
  <2>3. QED
    BY <1>5, <2>1, <2>2
<1> HIDE DEF shown, hidden
<1>7. Cardinality(hidden) = L - k
  <2> DEFINE I == (k + 1)..L
             h == [i \in I |-> ch[i]]
  <2>1. IsFiniteSet(I) /\ Cardinality(I) = L - k
    BY <1>1, <1>3, FS_Interval
  <2>2. h \in Bijection(I, hidden)
    <3>1. h \in [I -> hidden] /\ \A y \in hidden : \E i \in I : h[i] = y
      BY <1>6
    <3>2. \A i, j \in I : i # j => h[i] # h[j]
      BY <1>1, <1>3
    <3> HIDE DEF I, h
    <3>3. QED
      BY <3>1, <3>2 DEF Bijection, Injection, IsInjective, Surjection
  <2> HIDE DEF I, h
  <2>3. ExistsBijection(I, hidden)
    BY <2>2 DEF ExistsBijection
  <2>4. QED
    BY <2>1, <2>3, FS_Bijection
<1>8. L > n <=> hidden # {}
  <2>1. L > k <=> (k + 1)..L # {}
    BY <1>1
  <2>2. QED
    BY <1>3, <1>6, <2>1
<1>9. L = Len(shown) + Cardinality(hidden)
  BY <1>1, <1>3, <1>4, <1>7
<1>10. ASSUME NEW c \in ToSet(shown), NEW d \in hidden
       PROVE  c.stats.bytes >= d.stats.bytes
  <2>1. PICK i \in 1..k, j \in (k + 1)..L : c = ch[i] /\ d = ch[j]
    BY <1>5, <1>6
  <2>2. i \in DOMAIN ch /\ j \in DOMAIN ch /\ i < j
    BY <1>1, <1>3
  <2>3. QED
    BY <2>1, <2>2
<1>11. hidden = ToSet(r.children) \ ToSet(shown)
  BY DEF hidden
<1>12. p.children = shown /\ p.total = L /\ (p.truncated <=> L > n)
  <2>1. p.children = shown /\ p.total = L
    BY <1>2
  <2>2. p.truncated = (L > n)
    BY <1>2, Zenon
  <2>3. QED
    BY <2>1, <2>2
<1>13. /\ p.truncated <=> hidden # {}
       /\ p.total = Len(p.children) + Cardinality(hidden)
       /\ \A c \in ToSet(p.children), d \in hidden :
            c.stats.bytes >= d.stats.bytes
       /\ hidden = ToSet(r.children) \ ToSet(p.children)
  BY <1>8, <1>9, <1>10, <1>11, <1>12
<1>14. QED
  BY <1>13 DEF ShowsTheLargest, p

LEMMA ScanResult ==
  ASSUME ControlTypeOK, ScanInv
  PROVE  ResultIsReference
<1> DEFINE all == Merge(Reference(DOMAIN stream), [g \in dirs |-> Zero])
           ch == result.children
           C == ToSet(ch)
<1>1. SUFFICES ASSUME outcome = "ok"
      PROVE  /\ [g \in {c.name : c \in C} |->
                   (CHOOSE c \in C : c.name = g).stats] = all
             /\ Len(ch) = Cardinality(DOMAIN all)
             /\ result.totals = Fold(all)
             /\ result.rows = fed /\ pos = Len(stream) + 1
             /\ \A limit \in 0..(MaxGroups + 1) : ShowsTheLargest(result, limit)
  BY ScanMerged, ScanRefused DEF ResultIsReference
<1>2. groups = all /\ groups = [g \in DOMAIN groups |-> groups[g]]
  BY <1>1, WholeIs DEF Merge
<1>3. total = fed /\ pos = Len(stream) + 1 /\ TableOK
  BY <1>1 DEF ScanInv, Whole, Complete, Course, Through
<1>4. PICK order \in BySize(groups) : result = ResultOf(order)
  BY <1>1 DEF ScanInv, Returned
<1> DEFINE n == Cardinality(DOMAIN groups)
<1>5. /\ order \in Seq(DOMAIN groups) /\ DOMAIN order = 1..n /\ n \in Nat
      /\ \A i, j \in 1..n : i # j => order[i] # order[j]
      /\ \A g \in DOMAIN groups : \E i \in 1..n : order[i] = g
      /\ \A i, j \in 1..n :
           i < j => groups[order[i]].bytes >= groups[order[j]].bytes
  BY <1>3, Orders
<1> HIDE DEF n, all
<1>6. /\ ch = [i \in 1..n |-> [name |-> order[i], stats |-> groups[order[i]]]]
      /\ result.rows = total /\ result.totals = Fold(groups)
  BY <1>4, <1>5 DEF ResultOf
<1> HIDE DEF ch
<1>7. /\ DOMAIN ch = 1..n /\ Len(ch) = n
      /\ \A i \in 1..n : ch[i].name = order[i]
                         /\ ch[i].stats = groups[order[i]]
  BY <1>5, <1>6
<1>8. C = {ch[i] : i \in 1..n}
  BY <1>7 DEF ToSet
<1> HIDE DEF C
<1>9. {c.name : c \in C} = DOMAIN groups
  <2>1. \A i \in 1..n : order[i] \in DOMAIN groups
    BY <1>5
  <2>2. \A c \in C : c.name \in DOMAIN groups
    BY <1>7, <1>8, <2>1
  <2>3. ASSUME NEW g \in DOMAIN groups
        PROVE  \E c \in C : c.name = g
    <3>1. PICK i \in 1..n : order[i] = g
      BY <1>5
    <3>2. ch[i] \in C /\ ch[i].name = g
      BY <1>7, <1>8, <3>1
    <3>3. QED
      BY <3>2
  <2>4. QED
    BY <2>2, <2>3
<1>10. ASSUME NEW g \in DOMAIN groups
       PROVE  (CHOOSE c \in C : c.name = g).stats = groups[g]
  <2>1. \A c \in C : c.name = g => c.stats = groups[g]
    BY <1>7, <1>8
  <2>2. \E c \in C : c.name = g
    BY <1>9
  <2>3. QED
    BY <2>1, <2>2
<1>11. [g \in {c.name : c \in C} |-> (CHOOSE c \in C : c.name = g).stats] = all
  BY <1>2, <1>9, <1>10
<1>12. ASSUME NEW limit \in 0..(MaxGroups + 1)
       PROVE  ShowsTheLargest(result, limit)
  <2>1. ch \in Seq(C)
    BY <1>5, <1>6, <1>8
  <2>2. limit \in Nat
    OBVIOUS
  <2>3. \A i, j \in DOMAIN ch : i # j => ch[i] # ch[j]
    BY <1>5, <1>7
  <2>4. \A i, j \in DOMAIN ch :
          i < j => ch[i].stats.bytes >= ch[j].stats.bytes
    BY <1>5, <1>7
  <2>5. result.children = ch
    BY DEF ch
  <2>6. QED
    BY <2>1, <2>2, <2>3, <2>4, <2>5, Shows
<1>13. QED
  BY <1>2, <1>3, <1>6, <1>7, <1>11, <1>12 DEF n, ch

(* No more groups are kept than are allowed, every group keeps a statistic *)
(* and there is a result exactly if the rollup has succeeded               *)
(* (catalog.py:187-191, 477-503, 970-1045).                                *)
THEOREM RollupTypes == Spec => []TypeOK
BY ScanInvariance, ScanTypes, PTL

(* A rollup that succeeds covers every batch of its stream once and every  *)
(* child directory, in whatever order the batches are aggregated and       *)
(* merged; it is refused as too wide exactly when it is; and a response    *)
(* shows the largest of its children, whatever limit it was asked for      *)
(* (catalog.py:187-191, 211-215, 477-503, 970-1045).                       *)
THEOREM ResultHolds == Spec => []ResultIsReference
BY ScanInvariance, ScanResult, PTL
=============================================================================
