--------------------------- MODULE FrontendProofs ---------------------------
(***************************************************************************)
(* Theorems about Frontend, for any directories, page counts and bounds:   *)
(* what the rollup panels show, which jobs the page asks to delete, and    *)
(* what the table shows.  The first two rest on the rollup half of the     *)
(* state alone, which the table's half reaches only through navigate.      *)
(***************************************************************************)
EXTENDS Frontend, FiniteSetTheorems, TLAPS

(* The load that owns the panels, and the job that is active.              *)
OwnerIsAtWork ==
  rollupToken # None =>
    /\ stage[rollupToken] # "idle" /\ of[rollupToken] = view.path
    /\ rollupInFlight = view.path
    /\ panel = [kind |-> "computing", path |-> view.path]
    /\ stage[rollupToken] = "asked" => active = None
    /\ stage[rollupToken] = "polling" => active = rollupToken

NobodyElse == rollupToken = None => rollupInFlight = None

(* A job is the active one or asked to be deleted, never both, and is known*)
(* only once its request was answered.                                     *)
JobsAreKnown ==
  \A r \in Rollups :
    /\ stage[r] = "asked" => job[r] = "none"
    /\ r = active => job[r] # "none"
    /\ r \in deletes => job[r] = "running" /\ r # active
    /\ job[r] # "none" => r = active \/ r \in deletes

RollupInv ==
  /\ RollupTypes /\ view.path \in Paths
  /\ OwnerIsAtWork /\ NobodyElse /\ JobsAreKnown /\ PanelIsOfThisPath

LEMMA NoneIsNoRollup == None \notin Rollups
  BY FrontendAssumption DEF Rollups

LEMMA InvInit == Init => RollupInv
<1> SUFFICES ASSUME Init
             PROVE  RollupInv
  OBVIOUS
<1> USE FrontendAssumption DEF Init, Blank
<1>1. RollupTypes /\ view.path \in Paths
  BY DEF RollupTypes
<1>2. OwnerIsAtWork /\ NobodyElse /\ PanelIsOfThisPath
  BY DEF OwnerIsAtWork, NobodyElse, PanelIsOfThisPath
<1>3. JobsAreKnown
  BY NoneIsNoRollup DEF JobsAreKnown
<1> QED
  BY <1>1, <1>2, <1>3 DEF RollupInv

(* After cancelActiveRollup and loadRollup every job is asked to be        *)
(* deleted.                                                                *)
LEMMA EveryJobDeleted ==
  ASSUME RollupInv, Delete({active} \cap Rollups)
  PROVE  /\ job' \in [Rollups -> {"none", "running", "ended"}]
         /\ deletes' \subseteq Rollups
         /\ \A r \in Rollups :
              /\ r \in deletes' => job'[r] = "running"
              /\ job'[r] # "none" => r \in deletes'
              /\ job[r] = "none" => job'[r] = "none"
<1>1. /\ job \in [Rollups -> {"none", "running", "ended"}]
      /\ deletes \subseteq Rollups
      /\ \A r \in Rollups :
           /\ r \in deletes => job[r] = "running" /\ r # active
           /\ job[r] # "none" => r = active \/ r \in deletes
  BY DEF RollupInv, RollupTypes, JobsAreKnown
<1> QED
  BY <1>1 DEF Delete

LEMMA LoadRollupStep ==
  ASSUME RollupInv, NEW r \in Rollups, LoadRollup(r, view.path),
         view' = view
  PROVE  RollupInv'
<1>1. /\ job[r] = "none" /\ active' = None /\ rollupToken' = r
      /\ stage' = [stage EXCEPT ![r] = "asked"]
      /\ Delete({active} \cap Rollups)
  BY DEF LoadRollup, Free
<1>2. /\ job' \in [Rollups -> {"none", "running", "ended"}]
      /\ deletes' \subseteq Rollups
      /\ \A q \in Rollups :
           /\ q \in deletes' => job'[q] = "running"
           /\ job'[q] # "none" => q \in deletes'
           /\ job[q] = "none" => job'[q] = "none"
  BY <1>1, EveryJobDeleted
<1>3. RollupTypes' /\ view'.path \in Paths
  BY <1>2 DEF RollupInv, RollupTypes, LoadRollup
<1>4. OwnerIsAtWork'
  BY NoneIsNoRollup DEF RollupInv, RollupTypes, LoadRollup, OwnerIsAtWork
<1>5. JobsAreKnown'
  BY <1>1, <1>2, NoneIsNoRollup DEF RollupInv, RollupTypes, JobsAreKnown
<1>6. NobodyElse' /\ PanelIsOfThisPath'
  BY NoneIsNoRollup DEF RollupInv, LoadRollup, NobodyElse, PanelIsOfThisPath
<1> QED
  BY <1>3, <1>4, <1>5, <1>6 DEF RollupInv

LEMMA ClickStep ==
  ASSUME RollupInv, NEW l \in Loads, Click(l)
  PROVE  RollupInv'
<1> USE DEF RollupInv
<1>1. ASSUME NEW p \in Paths, Navigate(l, p)
      PROVE  RollupInv'
  <2> USE <1>1 DEF Navigate, CancelActiveRollup, Blank
  <2>1. /\ job' \in [Rollups -> {"none", "running", "ended"}]
        /\ deletes' \subseteq Rollups
        /\ \A q \in Rollups :
             /\ q \in deletes' => job'[q] = "running"
             /\ job'[q] # "none" => q \in deletes'
             /\ job[q] = "none" => job'[q] = "none"
    BY EveryJobDeleted
  <2>2. RollupTypes' /\ view'.path \in Paths
    BY <2>1 DEF RollupTypes
  <2>3. JobsAreKnown'
    BY <2>1, NoneIsNoRollup DEF JobsAreKnown
  <2>4. OwnerIsAtWork' /\ NobodyElse' /\ PanelIsOfThisPath'
    BY DEF OwnerIsAtWork, NobodyElse, PanelIsOfThisPath
  <2> QED
    BY <2>2, <2>3, <2>4
<1>2. CASE UNCHANGED rollupVars /\ view'.path = view.path
  BY <1>2 DEF rollupVars, jobVars, RollupTypes, OwnerIsAtWork, NobodyElse, JobsAreKnown,
              PanelIsOfThisPath
<1>3. ASSUME NEW s \in Sorts, Sort(l, s)
      PROVE  UNCHANGED rollupVars /\ view'.path = view.path
  BY <1>3 DEF Sort
<1>4. ASSUME NEW n \in Names, Filter(l, n)
      PROVE  UNCHANGED rollupVars /\ view'.path = view.path
  BY <1>4 DEF Filter
<1>5. ASSUME \/ PrevPage(l) \/ NextPage(l) \/ \E n \in Pages : Jump(l, n)
      PROVE  UNCHANGED rollupVars /\ view'.path = view.path
  BY <1>5 DEF PrevPage, NextPage, Jump
<1> QED
  BY <1>1, <1>2, <1>3, <1>4, <1>5 DEF Click

(* A settled promise reaches the rollups only through navigate.            *)
LEMMA SettleStep ==
  ASSUME RollupInv, NEW f \in Fetches, PageArrives(f) \/ PageFails(f)
  PROVE  RollupInv'
<1>1. view' = view
  BY DEF PageArrives, PageFails, Settle
<1>2. PICK L : Proceed(L)
  BY DEF PageArrives, PageFails
<1>3. CASE \E l \in L : load[l].target = view.path
  BY <1>1, <1>2, <1>3, LoadRollupStep DEF Proceed
<1>4. CASE ~\E l \in L : load[l].target = view.path
  BY <1>1, <1>2, <1>4
  DEF Proceed, rollupVars, jobVars, RollupInv, RollupTypes, OwnerIsAtWork, NobodyElse,
      JobsAreKnown, PanelIsOfThisPath
<1> QED
  BY <1>3, <1>4

(* The owner of the panels ends, with a result or a failure.               *)
LEMMA OwnerEnds ==
  ASSUME RollupInv, NEW r \in Rollups, Owner(r), Over(r), Release(r),
         RenderRollup(of[r]) \/ Fail(of[r]), view' = view,
         \/ UNCHANGED jobVars
         \/ /\ stage[r] = "polling" /\ Forget(r) /\ UNCHANGED deletes
            /\ job' = [job EXCEPT ![r] = "none"]
  PROVE  RollupInv'
<1> USE NoneIsNoRollup DEF RollupInv, Owner, Over, Release
<1>1. /\ rollupToken' = None /\ rollupInFlight' = None
      /\ panel'.path = view.path
      /\ panel' \in [kind : {"blank", "computing", "result", "failed"},
                     path : Paths \cup {None}]
  BY DEF RenderRollup, Fail, OwnerIsAtWork
<1>2. RollupTypes' /\ view'.path \in Paths
  BY <1>1 DEF RollupTypes, Forget, jobVars
<1>3. JobsAreKnown'
  <2>1. CASE UNCHANGED jobVars
    BY <2>1 DEF RollupTypes, JobsAreKnown, jobVars
  <2>2. CASE /\ stage[r] = "polling" /\ Forget(r) /\ UNCHANGED deletes
             /\ job' = [job EXCEPT ![r] = "none"]
    <3>1. active = r /\ active' = None
      BY <2>2 DEF OwnerIsAtWork, Forget
    <3> QED
      BY <2>2, <3>1 DEF RollupTypes, JobsAreKnown
  <2> QED
    BY <2>1, <2>2
<1>4. OwnerIsAtWork' /\ NobodyElse' /\ PanelIsOfThisPath'
  BY <1>1 DEF OwnerIsAtWork, NobodyElse, PanelIsOfThisPath
<1> QED
  BY <1>2, <1>3, <1>4

(* A load that lost its token ends without a trace.                        *)
LEMMA OtherEnds ==
  ASSUME RollupInv, NEW r \in Rollups, ~Owner(r), Over(r),
         rollupToken' = rollupToken, view' = view, Quiet,
         UNCHANGED jobVars
  PROVE  RollupInv'
<1> USE DEF RollupInv, Owner, Over, Quiet, jobVars
<1>1. RollupTypes' /\ view'.path \in Paths
  BY DEF RollupTypes
<1>2. OwnerIsAtWork'
  BY DEF RollupTypes, OwnerIsAtWork
<1>3. JobsAreKnown'
  BY DEF RollupTypes, JobsAreKnown
<1>4. NobodyElse' /\ PanelIsOfThisPath'
  BY DEF NobodyElse, PanelIsOfThisPath
<1> QED
  BY <1>1, <1>2, <1>3, <1>4

LEMMA RollupStep ==
  ASSUME RollupInv, NEW r \in Rollups,
         Answer(r) \/ PollAnswer(r) \/ Serve(r)
  PROVE  RollupInv'
<1>1. CASE Answer200(r) \/ AnswerError(r)
  <2>1. CASE Owner(r)
    BY <1>1, <2>1, OwnerEnds DEF Answer200, AnswerError, Still
  <2>2. CASE ~Owner(r)
    BY <1>1, <2>2, OtherEnds DEF Answer200, AnswerError, Still, Release, Owner
  <2> QED
    BY <2>1, <2>2
<1>2. CASE Answer202(r)
  <2>1. CASE Owner(r)
    <3> USE <1>2, <2>1 DEF Answer202, Owner, Quiet, Still, RollupInv
    <3>1. RollupTypes' /\ view'.path \in Paths
      BY DEF RollupTypes
    <3>2. OwnerIsAtWork'
      BY DEF RollupTypes, OwnerIsAtWork
    <3>3. JobsAreKnown'
      <4>1. active = None
        BY NoneIsNoRollup DEF OwnerIsAtWork
      <4> QED
        BY <4>1, NoneIsNoRollup DEF RollupTypes, JobsAreKnown
    <3>4. NobodyElse' /\ PanelIsOfThisPath'
      BY DEF NobodyElse, PanelIsOfThisPath
    <3> QED
      BY <3>1, <3>2, <3>3, <3>4
  <2>2. CASE ~Owner(r)
    <3> USE <1>2, <2>2 DEF Answer202, Over, Owner, Quiet, Still, RollupInv
    <3>1. RollupTypes' /\ view'.path \in Paths
      BY DEF RollupTypes
    <3>2. OwnerIsAtWork'
      BY DEF RollupTypes, OwnerIsAtWork
    <3>3. JobsAreKnown'
      BY DEF RollupTypes, JobsAreKnown
    <3>4. NobodyElse' /\ PanelIsOfThisPath'
      BY DEF NobodyElse, PanelIsOfThisPath
    <3> QED
      BY <3>1, <3>2, <3>3, <3>4
  <2> QED
    BY <2>1, <2>2
<1>3. CASE PollStale(r)
  BY <1>3, OtherEnds DEF PollStale, Still
<1>4. CASE PollRunning(r)
  BY <1>4 DEF PollRunning, Quiet, Still, jobVars, RollupInv, RollupTypes,
              OwnerIsAtWork, NobodyElse, JobsAreKnown, PanelIsOfThisPath
<1>5. CASE PollEnded(r)
  BY <1>5, OwnerEnds DEF PollEnded, Still
<1>6. CASE PollError(r)
  BY <1>6, OwnerEnds DEF PollError, Still
<1>7. CASE Serve(r)
  <2> USE <1>7 DEF Serve, Deleted, JobEnds, Quiet, Still, RollupInv
  <2>1. RollupTypes' /\ view'.path \in Paths
    BY DEF RollupTypes
  <2>2. OwnerIsAtWork' /\ JobsAreKnown'
    BY DEF RollupTypes, OwnerIsAtWork, JobsAreKnown
  <2>3. NobodyElse' /\ PanelIsOfThisPath'
    BY DEF NobodyElse, PanelIsOfThisPath
  <2> QED
    BY <2>1, <2>2, <2>3
<1> QED
  BY <1>1, <1>2, <1>3, <1>4, <1>5, <1>6, <1>7 DEF Answer, PollAnswer

LEMMA InvStep == RollupInv /\ [Next]_vars => RollupInv'
<1> SUFFICES ASSUME RollupInv, [Next]_vars
             PROVE  RollupInv'
  OBVIOUS
<1>1. CASE UNCHANGED vars
  BY <1>1 DEF vars, RollupInv, RollupTypes, OwnerIsAtWork, NobodyElse,
              JobsAreKnown, PanelIsOfThisPath
<1> QED
  BY <1>1, ClickStep, SettleStep, RollupStep DEF Next

THEOREM InvHolds == Spec => []RollupInv
  BY InvInit, InvStep, PTL DEF Spec

(* The variables of the rollups keep their types.                          *)
THEOREM RollupTypesHold == Spec => []RollupTypes
<1>1. RollupInv => RollupTypes
  BY DEF RollupInv
<1> QED
  BY <1>1, InvHolds, PTL

(* The rollup panels speak of the directory shown, or of none, whichever   *)
(* answers come when (app.js:367-382).                                     *)
THEOREM PanelHolds == Spec => []PanelIsOfThisPath
<1>1. RollupInv => PanelIsOfThisPath
  BY DEF RollupInv
<1> QED
  BY <1>1, InvHolds, PTL

(* A job that runs for this page is the active one, whose DELETE goes out  *)
(* with the next transition, or its DELETE was sent, and never both.  What *)
(* becomes of a DELETE is not in the page's hands (app.js:371-381, 480-487,*)
(* 499-504).                                                               *)
THEOREM LeftAreDeleted == Spec => []LeftJobsAreDeleted
<1>1. RollupInv => LeftJobsAreDeleted
  BY DEF RollupInv, JobsAreKnown, LeftJobsAreDeleted
<1> QED
  BY <1>1, InvHolds, PTL

(* A rollup in flight has a load that will answer or poll (app.js:459-532).*)
THEOREM InFlightHolds == Spec => []InFlightIsWorkedOn
<1>1. RollupInv => InFlightIsWorkedOn
  BY NoneIsNoRollup
  DEF RollupInv, RollupTypes, OwnerIsAtWork, NobodyElse, JobsAreKnown,
      Owner, InFlightIsWorkedOn
<1> QED
  BY <1>1, InvHolds, PTL
-----------------------------------------------------------------------------
(* The table.  Facts about numbers, finite sets and sequences first.       *)

LEMMA LeastNat ==
  ASSUME NEW T \in SUBSET Nat, T # {}
  PROVE  \E x \in T : \A y \in T : x =< y
<1> DEFINE R == {ss \in Nat \X Nat : ss[1] < ss[2]}
<1>1. IsWellFoundedOn(R, Nat)
  BY NatLessThanWellFounded DEF OpToRel
<1>2. \E x \in T : \A y \in T : ~ (<<y, x>> \in R)
  <2> HIDE DEF R
  <2> QED
  BY <1>1, WFMin
<1>3. ASSUME NEW x \in T, NEW y \in T, ~ (<<y, x>> \in R) PROVE x =< y
  BY <1>3
<1> QED
  BY <1>2, <1>3

LEMMA Induct ==
  ASSUME NEW m \in Nat, NEW T \in SUBSET (0..m), 0 \in T,
         \A n \in T : n < m => n + 1 \in T
  PROVE  T = 0..m
<1>1. SUFFICES ASSUME (0..m) \ T # {} PROVE FALSE
  OBVIOUS
<1>2. PICK x \in (0..m) \ T : \A y \in (0..m) \ T : x =< y
  <2>1. (0..m) \ T \in SUBSET Nat
    OBVIOUS
  <2>2. QED
    BY <2>1, <1>1, LeastNat
<1>3. x - 1 \in T /\ x - 1 < m
  BY <1>2
<1>4. QED
  BY <1>2, <1>3

LEMMA HasMax ==
  ASSUME NEW S \in SUBSET Nat, IsFiniteSet(S), S # {}
  PROVE  \E x \in S : \A y \in S : x >= y
<1>1. PICK m \in Nat : m # 0 /\ ExistsBijection(1..m, S)
  <2>1. Cardinality(S) \in Nat /\ Cardinality(S) # 0
    BY FS_CardinalityType, FS_EmptySet
  <2>2. ExistsBijection(1..Cardinality(S), S)
    BY FS_CardinalityType
  <2>3. QED
    BY <2>1, <2>2
<1>2. PICK h \in [1..m -> S] : \A y \in S : \E i \in 1..m : h[i] = y
  BY <1>1 DEF ExistsBijection, Bijection, Surjection
<1> DEFINE Top(i, n) == \A j \in 1..n : h[i] >= h[j]
           T == {n \in 0..m : n = 0 \/ \E i \in 1..n : Top(i, n)}
<1>3. \A i \in 1..m : h[i] \in Nat
  BY <1>2
<1>4. T \in SUBSET (0..m) /\ 0 \in T
  BY <1>1
<1>5. ASSUME NEW n \in T, n < m PROVE n + 1 \in T
  <2>1. n \in 0..m /\ n + 1 \in 1..m /\ n + 1 \in 0..m
    BY <1>1, <1>5
  <2>2. \E i \in 1..(n + 1) : Top(i, n + 1)
    <3>1. CASE n = 0
      <4>1. Top(1, 1)
        BY <1>3, <2>1, <3>1
      <4>2. QED
        BY <3>1, <4>1
    <3>2. CASE n # 0
      <4>1. PICK i \in 1..n : Top(i, n)
        BY <3>2
      <4>2. i \in 1..m /\ h[i] \in Nat /\ h[n + 1] \in Nat
        BY <1>1, <1>3, <2>1
      <4>3. CASE h[i] >= h[n + 1]
        <5>1. Top(i, n + 1)
          BY <2>1, <4>1, <4>3
        <5>2. QED
          BY <2>1, <5>1
      <4>4. CASE h[n + 1] >= h[i]
        <5>1. \A j \in 1..n : h[j] \in Nat /\ h[i] >= h[j]
          BY <1>1, <1>3, <2>1, <4>1
        <5>2. Top(n + 1, n + 1)
          BY <2>1, <4>2, <4>4, <5>1
        <5>3. QED
          BY <2>1, <5>2
      <4>5. QED
        BY <4>2, <4>3, <4>4
    <3>3. QED
      BY <3>1, <3>2
  <2> HIDE DEF Top
  <2>3. QED
    BY <2>1, <2>2
<1>6. T = 0..m
  <2> HIDE DEF T
  <2>1. QED
    BY <1>1, <1>4, <1>5, Induct
<1>7. m \in T
  <2> HIDE DEF T
  <2>1. QED
    BY <1>1, <1>6
<1>8. PICK i \in 1..m : Top(i, m)
  BY <1>1, <1>7
<1>9. QED
  BY <1>2, <1>8

LEMMA ImageIsFinite ==
  ASSUME NEW S, IsFiniteSet(S), NEW g, g = [x \in S |-> g[x]]
  PROVE  LET T == {g[x] : x \in S}
         IN  /\ IsFiniteSet(T) /\ Cardinality(T) =< Cardinality(S)
             /\ Cardinality(T) \in Nat /\ Cardinality(S) \in Nat
<1> DEFINE T == {g[x] : x \in S}
<1>1. g \in Surjection(S, T)
  <2>1. g \in [S -> T]
    OBVIOUS
  <2>2. QED
    BY <2>1 DEF Surjection
<1> HIDE DEF T
<1>2. IsFiniteSet(T) /\ Cardinality(T) =< Cardinality(S)
  BY <1>1, FS_Surjection
<1>3. QED
  BY <1>2, FS_CardinalityType DEF T

LEMMA PageCounts ==
  /\ LastPage \in Nat \ {0} /\ Pages = 1..LastPage
  /\ \A p \in Paths : PagesOf[p] \in 1..LastPage
<1> DEFINE S == {PagesOf[p] : p \in Paths}
<1>1. S \in SUBSET (Nat \ {0}) /\ S # {}
  BY FrontendAssumption
<1>2. IsFiniteSet(S)
  <2>1. IsFiniteSet(Paths) /\ PagesOf = [p \in Paths |-> PagesOf[p]]
    BY FrontendAssumption
  <2>2. QED
    BY <2>1, ImageIsFinite
<1>3. \E x \in S : \A y \in S : x >= y
  <2> HIDE DEF S
  <2>1. QED
    BY <1>1, <1>2, HasMax
<1>4. LastPage \in S /\ \A y \in S : LastPage >= y
  BY <1>3 DEF LastPage, Max
<1>5. QED
  BY <1>1, <1>4 DEF Pages

LEMMA ServedIsPage ==
  ASSUME NEW v \in Views, NEW n \in 1..(LastPage + 1)
  PROVE  Served(v, n) \in 1..PagesOf[v.path] /\ Served(v, n) \in Pages
         /\ v.path \in Paths /\ PagesOf[v.path] \in 1..LastPage
<1>1. v.path \in Paths
  BY DEF Views
<1>2. PagesOf[v.path] \in 1..LastPage /\ LastPage \in Nat
  BY <1>1, PageCounts
<1>3. QED
  BY <1>1, <1>2, PageCounts DEF Served

\* The promises a cache and the pending loads hold leave one for the next.
LEMMA SomeIsFree ==
  ASSUME NEW c \in Seq(Fetches), Len(c) =< PageCacheMax,
         load \in [Loads -> [fetch : Fetches, target : Paths \cup {None}]
                           \cup {None}]
  PROVE  Fetches \ Held(c) # {}
<1> DEFINE I == DOMAIN c
           L == {k \in Loads : load[k] # None}
           g == [l \in L |-> load[l].fetch]
           A == {c[i] : i \in I}
           B == {g[l] : l \in L}
           N == MaxLoads + PageCacheMax + 1
<1>1. /\ MaxLoads \in Nat /\ PageCacheMax \in Nat /\ Len(c) \in Nat
      /\ I = 1..Len(c)
  BY FrontendAssumption
<1>2. IsFiniteSet(I) /\ Cardinality(I) = Len(c)
  <2>1. I = 1..Len(c) /\ Len(c) \in Int /\ 1 \in Int /\ Len(c) - 1 + 1 = Len(c)
        /\ (1 > Len(c) => Len(c) = 0)
    BY <1>1
  <2> HIDE DEF I
  <2>2. QED
    BY <2>1, FS_Interval
<1>3. IsFiniteSet(Loads) /\ Cardinality(Loads) = MaxLoads
  BY <1>1, FS_Interval DEF Loads
<1>4. IsFiniteSet(L) /\ Cardinality(L) =< MaxLoads
  BY <1>3, FS_Subset
<1>5. IsFiniteSet(Fetches) /\ Cardinality(Fetches) = N
  BY <1>1, FS_Interval DEF Fetches
<1>6. IsFiniteSet(A) /\ Cardinality(A) =< Cardinality(I)
  <2>1. c = [i \in I |-> c[i]]
    OBVIOUS
  <2> HIDE DEF I
  <2>2. QED
    BY <1>2, <2>1, ImageIsFinite
<1>7. IsFiniteSet(B) /\ Cardinality(B) =< Cardinality(L)
  <2>1. g = [l \in L |-> g[l]]
    OBVIOUS
  <2> HIDE DEF L, g
  <2>2. QED
    BY <1>4, <2>1, ImageIsFinite
<1>8. Cardinality(A \cup B) =< PageCacheMax + MaxLoads /\ IsFiniteSet(A \cup B)
  <2> HIDE DEF A, B
  <2>1. Cardinality(A \cup B) = Cardinality(A) + Cardinality(B) - Cardinality(A \cap B)
    BY <1>6, <1>7, FS_Union
  <2>2. IsFiniteSet(A \cap B)
    BY <1>6, FS_Subset
  <2>3. /\ Cardinality(A) \in Nat /\ Cardinality(B) \in Nat
        /\ Cardinality(A \cap B) \in Nat /\ Cardinality(L) \in Nat
    BY <1>4, <1>6, <1>7, <2>2, FS_CardinalityType
  <2>4. IsFiniteSet(A \cup B)
    BY <1>6, <1>7, FS_Union
  <2>5. QED
    BY <1>1, <1>2, <1>4, <1>6, <1>7, <2>1, <2>3, <2>4
<1>9. Held(c) = A \cup B
  BY DEF Held, ToSet
<1>10. ~ (Fetches \subseteq A \cup B)
  <2> HIDE DEF A, B
  <2>1. SUFFICES ASSUME Fetches \subseteq A \cup B PROVE FALSE
    OBVIOUS
  <2>2. Cardinality(Fetches) =< Cardinality(A \cup B)
    BY <1>8, <2>1, FS_Subset
  <2>3. Cardinality(A \cup B) \in Nat
    BY <1>8, FS_CardinalityType
  <2>4. QED
    BY <1>1, <1>5, <1>8, <2>2, <2>3
<1>11. QED
  BY <1>9, <1>10

Loaded == [Loads -> [fetch : Fetches, target : Paths \cup {None}]
                    \cup {None}]

(* A pair of cache and promises that may be kept.                          *)
Sound(S) ==
  /\ S.cache \in Seq(Fetches) /\ Len(S.cache) =< PageCacheMax
  /\ S.fetch \in [Fetches -> Promises \cup {None}]
  /\ \A f \in ToSet(S.cache) : S.fetch[f] \in Promises

(* T has the promises of S that the loads wait for.                        *)
SameForLoads(S, T) ==
  \A l \in Loads : load[l] # None => T.fetch[load[l].fetch] = S.fetch[load[l].fetch]

LEMMA NewestIsShort ==
  ASSUME NEW c \in Seq(Fetches)
  PROVE  /\ Newest(c) \in Seq(Fetches) /\ Len(Newest(c)) =< PageCacheMax
         /\ ToSet(Newest(c)) \subseteq ToSet(c)
<1>1. PageCacheMax \in Nat \ {0} /\ Len(c) \in Nat
  BY FrontendAssumption
<1> DEFINE i == IF Len(c) > PageCacheMax THEN Len(c) - PageCacheMax + 1 ELSE 1
<1>2. i \in Nat /\ i >= 1 /\ Len(c) - i + 1 =< PageCacheMax /\ i =< Len(c) + 1
  BY <1>1
<1> HIDE DEF i
<1>3. /\ SubSeq(c, i, Len(c)) \in Seq(Fetches)
      /\ Len(SubSeq(c, i, Len(c))) = Len(c) - i + 1
      /\ \A k \in 1..(Len(c) - i + 1) : SubSeq(c, i, Len(c))[k] = c[i + k - 1]
  BY <1>1, <1>2
<1>4. Newest(c) = SubSeq(c, i, Len(c))
  BY DEF Newest, i
<1>5. ASSUME NEW f \in ToSet(Newest(c)) PROVE f \in ToSet(c)
  <2>1. PICK k \in 1..(Len(c) - i + 1) : f = c[i + k - 1]
    BY <1>3, <1>4, <1>5 DEF ToSet
  <2>2. i + k - 1 \in 1..Len(c)
    BY <1>1, <1>2
  <2>3. QED
    BY <2>1, <2>2 DEF ToSet
<1>6. QED
  BY <1>1, <1>2, <1>3, <1>4, <1>5

LEMMA Joined ==
  ASSUME NEW V, NEW a \in Seq(V), NEW b \in Seq(V)
  PROVE  /\ a \o b \in Seq(V) /\ Len(a \o b) = Len(a) + Len(b)
         /\ \A k \in 1..(Len(a) + Len(b)) :
              (a \o b)[k] = IF k =< Len(a) THEN a[k] ELSE b[k - Len(a)]
OBVIOUS

LEMMA DroppedIsShort ==
  ASSUME NEW c \in Seq(Fetches), NEW f
  PROVE  /\ Dropped(c, f) \in Seq(Fetches) /\ Len(Dropped(c, f)) =< Len(c)
         /\ ToSet(Dropped(c, f)) \subseteq ToSet(c)
<1>1. CASE f \notin ToSet(c)
  BY <1>1 DEF Dropped
<1>2. CASE f \in ToSet(c)
  <2> DEFINE i == CHOOSE i \in DOMAIN c : c[i] = f
  <2>1. i \in 1..Len(c) /\ Len(c) \in Nat
    BY <1>2 DEF ToSet
  <2>2. Dropped(c, f) = SubSeq(c, 1, i - 1) \o SubSeq(c, i + 1, Len(c))
    BY <1>2 DEF Dropped, RemoveAt
  <2> HIDE DEF i
  <2> DEFINE a == SubSeq(c, 1, i - 1)
             b == SubSeq(c, i + 1, Len(c))
  <2>3. a \in Seq(Fetches) /\ Len(a) = i - 1 /\ \A k \in 1..(i - 1) : a[k] = c[k]
    BY <2>1
  <2>4. b \in Seq(Fetches) /\ Len(b) = Len(c) - i
        /\ \A k \in 1..(Len(c) - i) : b[k] = c[i + k]
    BY <2>1
  <2> HIDE DEF a, b
  <2> DEFINE d == a \o b
  <2>5. /\ d \in Seq(Fetches) /\ Len(d) = Len(c) - 1
        /\ \A k \in 1..(Len(c) - 1) :
             d[k] = IF k =< i - 1 THEN a[k] ELSE b[k - (i - 1)]
    <3>1. d \in Seq(Fetches)
      BY <2>3, <2>4, Joined
    <3>2. Len(d) = Len(a) + Len(b)
      BY <2>3, <2>4, Joined
    <3>5. Len(a) + Len(b) = Len(c) - 1
      BY <2>1, <2>3, <2>4
    <3>3. \A k \in 1..(Len(a) + Len(b)) :
             d[k] = IF k =< Len(a) THEN a[k] ELSE b[k - Len(a)]
      BY <2>3, <2>4, Joined
    <3> HIDE DEF d
    <3>4. QED
      BY <2>3, <3>1, <3>2, <3>3, <3>5
  <2> HIDE DEF d
  <2>6. ASSUME NEW k \in 1..(Len(c) - 1) PROVE d[k] \in ToSet(c)
    <3>1. CASE k =< i - 1
      <4>1. d[k] = c[k] /\ k \in 1..Len(c)
        BY <2>1, <2>3, <2>5, <3>1
      <4>2. QED
        BY <4>1 DEF ToSet
    <3>2. CASE k > i - 1
      <4>1. d[k] = b[k - (i - 1)] /\ k - (i - 1) \in 1..(Len(c) - i)
        BY <2>1, <2>5, <3>2
      <4>2. d[k] = c[i + (k - (i - 1))] /\ i + (k - (i - 1)) \in 1..Len(c)
        BY <2>1, <2>4, <4>1
      <4>3. QED
        BY <4>2 DEF ToSet
    <3>3. QED
      BY <2>1, <3>1, <3>2
  <2>7. ToSet(d) \subseteq ToSet(c)
    BY <2>5, <2>6 DEF ToSet
  <2>8. d = Dropped(c, f)
    BY <2>2 DEF a, b, d
  <2>9. QED
    BY <2>1, <2>5, <2>7, <2>8
<1>3. QED
  BY <1>1, <1>2

LEMMA FetchedIsSound ==
  ASSUME load \in Loaded, NEW S, Sound(S), NEW v \in Views,
         NEW n \in 1..(LastPage + 1)
  PROVE  /\ Sound(Fetched(S, v, n)) /\ SameForLoads(S, Fetched(S, v, n))
         /\ S.cache = <<>> => \A f \in Hits(Fetched(S, v, n), v, n) :
                                 Fetched(S, v, n).fetch[f].state = "pending"
<1>1. CASE Hits(S, v, n) # {}
  <2>1. Fetched(S, v, n) = S
    BY <1>1 DEF Fetched
  <2>2. S.cache # <<>>
    BY <1>1 DEF Hits, ToSet
  <2>3. QED
    BY <2>1, <2>2 DEF SameForLoads
<1>2. CASE Hits(S, v, n) = {}
  <2> DEFINE f == CHOOSE i \in Fetches \ Held(S.cache) : TRUE
             new == [view |-> v, page |-> n, state |-> "pending"]
             c == Append(S.cache, f)
             T == [cache |-> Newest(c), fetch |-> [S.fetch EXCEPT ![f] = new]]
  <2>1. Fetched(S, v, n) = T
    BY <1>2 DEF Fetched
  <2>2. f \in Fetches /\ f \notin Held(S.cache)
    <3>1. Fetches \ Held(S.cache) # {}
      BY SomeIsFree DEF Sound, Loaded
    <3>2. QED
      BY <3>1
  <2> HIDE DEF f
  <2>3. new \in Promises
    BY PageCounts DEF Promises
  <2> HIDE DEF new
  <2>4. c \in Seq(Fetches) /\ \A g \in ToSet(c) : g = f \/ g \in ToSet(S.cache)
    <3>1. S.cache \in Seq(Fetches)
      BY DEF Sound
    <3>2. c \in Seq(Fetches) /\ Len(c) = Len(S.cache) + 1
          /\ c[Len(S.cache) + 1] = f
          /\ \A k \in 1..Len(S.cache) : c[k] = S.cache[k]
      BY <2>2, <3>1
    <3>3. Len(S.cache) \in Nat
      BY <3>1
    <3> HIDE DEF c
    <3>4. QED
      BY <3>1, <3>2, <3>3 DEF ToSet
  <2> HIDE DEF c
  <2>5. /\ Newest(c) \in Seq(Fetches) /\ Len(Newest(c)) =< PageCacheMax
        /\ \A g \in ToSet(Newest(c)) : g = f \/ g \in ToSet(S.cache)
    BY <2>4, NewestIsShort
  <2>6. Sound(T)
    BY <2>2, <2>3, <2>5 DEF Sound
  <2>7. SameForLoads(S, T)
    <3>1. ASSUME NEW l \in Loads, load[l] # None
          PROVE  load[l].fetch # f /\ load[l].fetch \in Fetches
      BY <2>2, <3>1 DEF Held, Loaded
    <3>2. QED
      BY <2>2, <3>1 DEF SameForLoads, Sound
  <2>8. ASSUME S.cache = <<>>, NEW g \in Hits(T, v, n)
        PROVE  T.fetch[g].state = "pending"
    <3>1. g \in ToSet(Newest(c))
      BY DEF Hits
    <3>2. ToSet(S.cache) = {}
      BY <2>8 DEF ToSet
    <3>3. T.fetch[f] = new
      BY <2>2 DEF Sound
    <3>4. QED
      BY <2>5, <3>1, <3>2, <3>3 DEF new
  <2>9. QED
    BY <2>1, <2>6, <2>7, <2>8
<1>3. QED
  BY <1>1, <1>2

LEMMA PrefetchedIsSound ==
  ASSUME load \in Loaded, NEW S, Sound(S), NEW v \in Views,
         NEW n \in 1..LastPage, NEW streak \in BOOLEAN
  PROVE  /\ Sound(Prefetched(S, v, n, streak))
         /\ SameForLoads(S, Prefetched(S, v, n, streak))
<1> DEFINE one == IF n < PagesOf[v.path] THEN Fetched(S, v, n + 1) ELSE S
<1>1. PagesOf[v.path] \in 1..LastPage /\ LastPage \in Nat
  BY PageCounts DEF Views
<1>2. Sound(one) /\ SameForLoads(S, one)
  <2>1. n + 1 \in 1..(LastPage + 1)
    BY <1>1
  <2>2. QED
    BY <2>1, FetchedIsSound DEF SameForLoads
<1> HIDE DEF one
<1>3. CASE streak /\ n + 2 =< PagesOf[v.path]
  <2>1. n + 2 \in 1..(LastPage + 1)
    BY <1>1, <1>3
  <2>2. Prefetched(S, v, n, streak) = Fetched(one, v, n + 2)
    BY <1>3 DEF Prefetched, one
  <2>3. Sound(Fetched(one, v, n + 2)) /\ SameForLoads(one, Fetched(one, v, n + 2))
    BY <1>2, <2>1, FetchedIsSound
  <2>4. QED
    BY <1>2, <2>2, <2>3 DEF SameForLoads
<1>4. CASE ~ (streak /\ n + 2 =< PagesOf[v.path])
  <2>1. Prefetched(S, v, n, streak) = one
    BY <1>4 DEF Prefetched, one
  <2>2. QED
    BY <1>2, <2>1
<1>5. QED
  BY <1>3, <1>4

(* What is cached or waited for is a promise.                              *)
Cached == [cache |-> pageCache, fetch |-> fetch]

CacheInv ==
  /\ load \in Loaded /\ Sound(Cached)
  /\ \A l \in Loads : load[l] # None => fetch[load[l].fetch] \in Promises

(* What the table shows is a page that is there.                           *)
ShownTypes ==
  /\ view \in Views /\ page \in Pages /\ wanted \in Pages
  /\ listingToken \in Loads \cup {None}
  /\ listing \in [view : Views, page : Pages] \cup {None}
  /\ listing # None => listing.page \in 1..PagesOf[listing.view.path]
  /\ mark \in {"none", "dots"}
  /\ pager \in [prev : BOOLEAN, next : BOOLEAN, max : 0..LastPage]

(* The load with the token waits for what was asked for last.              *)
TokenIsAsked ==
  listingToken # None /\ load[listingToken] # None =>
    LET p == fetch[load[listingToken].fetch]
    IN  p.view = view /\ Served(view, p.page) = wanted

DotsAreShown == mark = "dots" => listing # None

TableInv ==
  CacheInv /\ ShownTypes /\ TokenIsAsked /\ ShownIsAsked /\ DotsAreShown

LEMMA NoneIsNothing ==
  /\ None \notin Paths /\ None \notin Loads
  /\ \A v \in Views, n \in Pages : [view |-> v, page |-> n] # None
BY FrontendAssumption DEF Loads

LEMMA KeepIsSound ==
  ASSUME load' \in Loaded, NEW S, Sound(S), Keep(S),
         \A l \in Loads : load'[l] # None => S.fetch[load'[l].fetch] \in Promises
  PROVE  /\ CacheInv'
         /\ \A l \in Loads : load'[l] # None =>
              fetch'[load'[l].fetch] = S.fetch[load'[l].fetch]
<1> DEFINE Used(f) == \/ f \in ToSet(S.cache)
                      \/ \E l \in Loads : load'[l] # None /\ load'[l].fetch = f
<1>1. /\ pageCache' = S.cache
      /\ fetch' = [f \in Fetches |-> IF Used(f) THEN S.fetch[f] ELSE None]
  BY DEF Keep
<1>2. \A l \in Loads : load'[l] # None =>
        load'[l].fetch \in Fetches /\ Used(load'[l].fetch)
  BY DEF Loaded
<1>3. ToSet(S.cache) \subseteq Fetches
  BY DEF Sound, ToSet
<1>4. \A f \in Fetches : Used(f) => fetch'[f] = S.fetch[f]
  <2> HIDE DEF Used
  <2>1. QED
    BY <1>1
<1>5. fetch' \in [Fetches -> Promises \cup {None}]
  <2>1. S.fetch \in [Fetches -> Promises \cup {None}]
    BY DEF Sound
  <2> HIDE DEF Used
  <2>2. QED
    BY <1>1, <2>1
<1>6. \A f \in ToSet(S.cache) : fetch'[f] = S.fetch[f]
  BY <1>3, <1>4
<1>7. \A l \in Loads : load'[l] # None =>
              fetch'[load'[l].fetch] = S.fetch[load'[l].fetch]
  <2> HIDE DEF Used
  <2>1. QED
    BY <1>2, <1>4
<1>8. Sound([cache |-> pageCache', fetch |-> fetch'])
  BY <1>1, <1>5, <1>6 DEF Sound
<1>9. QED
  BY <1>7, <1>8 DEF CacheInv, Cached

LEMMA ShowStep ==
  ASSUME load \in Loaded, load' \in Loaded, NEW S, Sound(S), NEW v \in Views,
         NEW n \in 1..(LastPage + 1), Show(S, v, n),
         \A l \in Loads : load'[l] # None =>
           load'[l] = load[l] /\ S.fetch[load[l].fetch] \in Promises
  PROVE  /\ CacheInv'
         /\ \A l \in Loads : load'[l] # None =>
              fetch'[load'[l].fetch] = S.fetch[load[l].fetch]
         /\ listing' = [view |-> v, page |-> Served(v, n)]
         /\ page' = Served(v, n) /\ page' \in Pages
         /\ listing' \in [view : Views, page : Pages] /\ listing' # None
         /\ listing'.page \in 1..PagesOf[listing'.view.path]
         /\ mark' \in Marks(v.path, rollupInFlight)
         /\ mark' \in {"none", "dots"}
         /\ pager' \in [prev : BOOLEAN, next : BOOLEAN, max : 0..LastPage]
<1> DEFINE p == Served(v, n)
<1>1. /\ listing' = [view |-> v, page |-> p] /\ page' = p
      /\ mark' \in Marks(v.path, rollupInFlight)
      /\ pager' = [prev |-> p > 1, next |-> p < PagesOf[v.path],
                   max |-> PagesOf[v.path]]
  BY DEF Show
<1>2. PICK streak \in BOOLEAN : Keep(Prefetched(S, v, p, streak))
  BY DEF Show
<1>3. p \in 1..PagesOf[v.path] /\ p \in Pages /\ p \in 1..LastPage
      /\ PagesOf[v.path] \in 1..LastPage /\ LastPage \in Nat
  BY ServedIsPage, PageCounts
<1> HIDE DEF p
<1> DEFINE T == Prefetched(S, v, p, streak)
<1>4. Sound(T) /\ SameForLoads(S, T)
  BY <1>3, PrefetchedIsSound
<1> HIDE DEF T
<1>5. \A l \in Loads : load'[l] # None =>
        /\ T.fetch[load'[l].fetch] = S.fetch[load[l].fetch]
        /\ T.fetch[load'[l].fetch] \in Promises
  BY <1>4 DEF SameForLoads
<1>6. /\ CacheInv'
      /\ \A l \in Loads : load'[l] # None =>
           fetch'[load'[l].fetch] = T.fetch[load'[l].fetch]
  <2>1. Keep(T)
    BY <1>2 DEF T
  <2>2. QED
    BY <1>4, <1>5, <2>1, KeepIsSound
<1>7. listing' # None /\ listing' \in [view : Views, page : Pages]
      /\ listing'.page \in 1..PagesOf[listing'.view.path]
  BY <1>1, <1>3, NoneIsNothing
<1>8. pager' \in [prev : BOOLEAN, next : BOOLEAN, max : 0..LastPage]
  <2>1. PagesOf[v.path] \in 0..LastPage
    BY <1>3
  <2>2. QED
    BY <1>1, <2>1
<1>9. mark' \in {"none", "dots"}
  BY <1>1 DEF Marks
<1>10. QED
  BY <1>1, <1>3, <1>5, <1>6, <1>7, <1>8, <1>9 DEF p

\* A load that was superseded may wait on, and the token is that of the new
\* one.
LEMMA LoadPageStep ==
  ASSUME TableInv, view' \in Views, NEW l \in Loads,
         NEW n \in 1..(LastPage + 1), NEW target \in Paths \cup {None},
         NEW reset \in BOOLEAN, LoadPage(l, n, target, reset)
  PROVE  /\ TableInv'
         /\ \/ listingToken' # None
            \/ ~reset /\ mark' \in Marks(view'.path, rollupInFlight)
<1> DEFINE c == IF reset THEN <<>> ELSE pageCache
           S0 == [cache |-> c, fetch |-> fetch]
           S == Fetched(S0, view', n)
<1>1. PICK f \in Hits(S, view', n) :
        IF S.fetch[f].state = "ok"
           THEN /\ listingToken' = None /\ load' = Superseded
                /\ Show(S, view', n)
           ELSE /\ listingToken' = l
                /\ load' = [Superseded EXCEPT
                             ![l] = [fetch |-> f, target |-> target]]
                /\ Keep(S)
                /\ page' = (IF reset THEN 1 ELSE page)
                /\ UNCHANGED <<listing, mark, pager>>
  BY DEF LoadPage
<1>2. wanted' = Served(view', n) /\ wanted' \in Pages
  BY ServedIsPage DEF LoadPage
<1>3. load \in Loaded /\ Superseded \in Loaded
      /\ \A k \in Loads : Superseded[k] # None => Superseded[k] = load[k]
                                                /\ load[k] # None
  BY DEF TableInv, CacheInv, Loaded, Superseded
<1>4. Sound(S0)
  <2>1. Sound(Cached)
    BY DEF TableInv, CacheInv
  <2>2. CASE reset
    <3>1. c = <<>> /\ c \in Seq(Fetches) /\ Len(c) = 0 /\ ToSet(c) = {}
      BY <2>2 DEF ToSet
    <3>2. PageCacheMax \in Nat
      BY FrontendAssumption
    <3> HIDE DEF c
    <3>3. QED
      BY <2>1, <3>1, <3>2 DEF Sound, Cached
  <2>3. CASE ~reset
    BY <2>1, <2>3 DEF Cached
  <2>4. QED
    BY <2>2, <2>3
<1>5. /\ Sound(S) /\ SameForLoads(S0, S)
      /\ reset => \A g \in Hits(S, view', n) : S.fetch[g].state = "pending"
  <2>1. reset => S0.cache = <<>>
    OBVIOUS
  <2> HIDE DEF S0
  <2>2. QED
    BY <1>3, <1>4, <2>1, FetchedIsSound
<1>6. \A k \in Loads : load[k] # None => S.fetch[load[k].fetch] \in Promises
  BY <1>5 DEF SameForLoads, TableInv, CacheInv
<1>7. f \in Fetches /\ S.fetch[f] \in Promises /\ S.fetch[f].view = view'
      /\ S.fetch[f].page = n
  BY <1>5 DEF Hits, Sound, ToSet
<1> HIDE DEF S, S0
<1>8. CASE S.fetch[f].state = "ok"
  <2>1. ~reset /\ listingToken' = None /\ load' = Superseded /\ Show(S, view', n)
    BY <1>1, <1>5, <1>8
  <2>2. \A k \in Loads : load'[k] # None =>
          load'[k] = load[k] /\ S.fetch[load[k].fetch] \in Promises
    BY <1>3, <1>6, <2>1
  <2>3. /\ CacheInv'
        /\ listing' = [view |-> view', page |-> Served(view', n)]
        /\ page' = Served(view', n) /\ page' \in Pages
        /\ listing' \in [view : Views, page : Pages] /\ listing' # None
        /\ listing'.page \in 1..PagesOf[listing'.view.path]
        /\ mark' \in Marks(view'.path, rollupInFlight)
        /\ mark' \in {"none", "dots"}
        /\ pager' \in [prev : BOOLEAN, next : BOOLEAN, max : 0..LastPage]
    BY <1>3, <1>5, <2>1, <2>2, ShowStep
  <2>4. ShownTypes'
    BY <1>2, <2>1, <2>3 DEF ShownTypes
  <2>5. TokenIsAsked' /\ ShownIsAsked' /\ DotsAreShown'
    BY <1>2, <2>1, <2>3 DEF TokenIsAsked, ShownIsAsked, DotsAreShown
  <2>6. QED
    BY <2>1, <2>3, <2>4, <2>5 DEF TableInv
<1>9. CASE S.fetch[f].state # "ok"
  <2>1. /\ listingToken' = l /\ Keep(S)
        /\ load' = [Superseded EXCEPT ![l] = [fetch |-> f, target |-> target]]
        /\ page' = (IF reset THEN 1 ELSE page)
        /\ UNCHANGED <<listing, mark, pager>>
    BY <1>1, <1>9
  <2>2. load' \in Loaded /\ load'[l] = [fetch |-> f, target |-> target]
        /\ \A k \in Loads : k # l => load'[k] = Superseded[k]
    BY <1>3, <1>7, <2>1 DEF Loaded
  <2>3. \A k \in Loads : load'[k] # None => S.fetch[load'[k].fetch] \in Promises
    BY <1>3, <1>6, <1>7, <2>2
  <2>4. CacheInv' /\ (load'[l] # None => fetch'[load'[l].fetch] = S.fetch[f])
    BY <1>5, <2>1, <2>2, <2>3, KeepIsSound
  <2>5. listingToken' # None
    BY <2>1, NoneIsNothing
  <2>6. ShownTypes'
    BY <1>2, <2>1, PageCounts DEF ShownTypes, TableInv
  <2>7. TokenIsAsked'
    BY <1>2, <1>7, <2>1, <2>4 DEF TokenIsAsked, Served
  <2>8. ShownIsAsked' /\ DotsAreShown'
    BY <2>1, <2>5 DEF ShownIsAsked, DotsAreShown, TableInv
  <2>9. QED
    BY <2>4, <2>5, <2>6, <2>7, <2>8 DEF TableInv
<1>10. QED
  BY <1>8, <1>9

LEMMA TableInit == Init => TableInv /\ DotsAreHonest
<1> SUFFICES ASSUME Init
             PROVE  TableInv /\ DotsAreHonest
  OBVIOUS
<1>1. /\ MaxLoads \in Nat \ {0} /\ PageCacheMax \in Nat \ {0}
      /\ 1 \in Loads /\ 1 \in Fetches
  BY FrontendAssumption DEF Loads, Fetches
<1>2. view \in Views /\ LastPage \in Nat \ {0} /\ 1 \in Pages
      /\ PagesOf[view.path] \in 1..LastPage
  BY FrontendAssumption, PageCounts DEF Init, Views
<1>3. [view |-> view, page |-> 1, state |-> "pending"] \in Promises
  BY <1>2 DEF Promises
<1>4. /\ load \in Loaded /\ \A l \in Loads : load[l] # None => load[l].fetch = 1
      /\ fetch \in [Fetches -> Promises \cup {None}] /\ fetch[1] \in Promises
      /\ load[1].fetch = 1 /\ fetch[1].view = view /\ fetch[1].page = 1
  BY <1>1, <1>3, FrontendAssumption DEF Init, Loaded
<1>5. pageCache \in Seq(Fetches) /\ Len(pageCache) = 1 /\ ToSet(pageCache) = {1}
  BY <1>1 DEF Init, ToSet
<1>6. CacheInv
  <2>1. Cached.cache = pageCache /\ Cached.fetch = fetch
    BY DEF Cached
  <2>2. Len(pageCache) =< PageCacheMax
    BY <1>1, <1>5
  <2>3. Sound(Cached)
    BY <1>4, <1>5, <2>1, <2>2 DEF Sound
  <2>4. QED
    BY <1>4, <2>3 DEF CacheInv
<1>7. ShownTypes /\ ShownIsAsked /\ DotsAreShown /\ DotsAreHonest
  BY <1>1, <1>2 DEF Init, ShownTypes, ShownIsAsked, DotsAreShown, DotsAreHonest
<1>8. TokenIsAsked
  <2>1. listingToken = 1 /\ wanted = 1
    BY DEF Init
  <2>2. Served(view, 1) = 1
    BY <1>2 DEF Served
  <2>3. QED
    BY <1>4, <2>1, <2>2 DEF TokenIsAsked
<1>9. QED
  BY <1>6, <1>7, <1>8 DEF TableInv

LEMMA ClickTable ==
  ASSUME TableInv, NEW l \in Loads, Click(l)
  PROVE  TableInv' /\ DotsAreHonest'
<1>1. view \in Views /\ page \in Pages /\ page \in 1..LastPage /\ LastPage \in Nat \ {0}
  BY PageCounts DEF TableInv, ShownTypes
<1>2. 1 \in 1..(LastPage + 1) /\ Pages \subseteq 1..(LastPage + 1)
  BY <1>1, PageCounts
<1>3. ASSUME NEW n \in 1..(LastPage + 1), NEW t \in Paths \cup {None},
             view' \in Views, LoadPage(l, n, t, TRUE)
      PROVE  TableInv' /\ DotsAreHonest'
  <2>1. TableInv' /\ listingToken' # None
    BY <1>3, LoadPageStep
  <2>2. QED
    BY <2>1 DEF DotsAreHonest
<1>4. ASSUME NEW n \in 1..(LastPage + 1), UNCHANGED <<view, rollupVars>>,
             LoadPage(l, n, None, FALSE)
      PROVE  TableInv' /\ DotsAreHonest'
  <2>1. TableInv' /\ (listingToken' # None
                      \/ mark' \in Marks(view'.path, rollupInFlight))
    BY <1>1, <1>4, LoadPageStep
  <2>2. QED
    BY <1>4, <2>1 DEF DotsAreHonest, Marks, rollupVars
<1>5. ASSUME NEW p \in Paths, Navigate(l, p) PROVE TableInv' /\ DotsAreHonest'
  <2>1. view' \in Views
    BY <1>1, <1>5, FrontendAssumption DEF Navigate, Views
  <2>2. QED
    BY <1>2, <1>3, <1>5, <2>1 DEF Navigate
<1>6. ASSUME NEW s \in Sorts, Sort(l, s) PROVE TableInv' /\ DotsAreHonest'
  <2>1. view' \in Views
    BY <1>1, <1>6 DEF Sort, Views
  <2>2. QED
    BY <1>2, <1>3, <1>6, <2>1 DEF Sort
<1>7. ASSUME NEW n \in Names, Filter(l, n) PROVE TableInv' /\ DotsAreHonest'
  <2>1. view' \in Views
    BY <1>1, <1>7 DEF Filter, Views
  <2>2. QED
    BY <1>2, <1>3, <1>7, <2>1 DEF Filter
<1>8. CASE PrevPage(l)
  <2>1. page - 1 \in 1..(LastPage + 1)
    BY <1>1, <1>8 DEF PrevPage
  <2>2. QED
    BY <1>4, <1>8, <2>1 DEF PrevPage
<1>9. CASE NextPage(l)
  <2>1. page + 1 \in 1..(LastPage + 1)
    BY <1>1
  <2>2. QED
    BY <1>4, <1>9, <2>1 DEF NextPage
<1>10. ASSUME NEW n \in Pages, Jump(l, n) PROVE TableInv' /\ DotsAreHonest'
  BY <1>2, <1>4, <1>10 DEF Jump
<1>11. QED
  BY <1>5, <1>6, <1>7, <1>8, <1>9, <1>10 DEF Click

\* What navigate goes on with leaves the dots of a table right.
LEMMA ProceedFlight ==
  ASSUME NEW L, Proceed(L)
  PROVE  rollupInFlight' \in {rollupInFlight, view.path}
BY DEF Proceed, LoadRollup, rollupVars

\* The loads that go on waiting when f settles.
LEMMA SettleLoads ==
  ASSUME TableInv, NEW f \in Fetches, Settle(f)
  PROVE  /\ load' \in Loaded /\ fetch[f] \in Promises
         /\ \A l \in Loads : load'[l] # None =>
              /\ load'[l] = load[l] /\ load[l] # None /\ load[l].fetch # f
              /\ load[l].fetch \in Fetches /\ fetch[load[l].fetch] \in Promises
         /\ view' = view /\ wanted' = wanted
         /\ listingToken' = (IF listingToken \in Waiting(f) THEN None
                             ELSE listingToken)
         /\ listingToken \in Waiting(f) =>
              Owns(f) /\ Served(view, fetch[f].page) = wanted
<1>1. /\ load' = [l \in Loads |-> IF l \in Waiting(f) THEN None ELSE load[l]]
      /\ fetch[f] # None /\ view' = view /\ wanted' = wanted
      /\ listingToken' = (IF listingToken \in Waiting(f) THEN None
                             ELSE listingToken)
  BY DEF Settle, Resumed, Pending
<1>2. /\ load \in Loaded /\ fetch \in [Fetches -> Promises \cup {None}]
      /\ \A l \in Loads : load[l] # None => fetch[load[l].fetch] \in Promises
  BY DEF TableInv, CacheInv, Sound, Cached
<1>3. load' \in Loaded
  BY <1>1, <1>2 DEF Loaded
<1>4. \A l \in Loads : load'[l] # None =>
              /\ load'[l] = load[l] /\ load[l] # None /\ load[l].fetch # f
              /\ load[l].fetch \in Fetches /\ fetch[load[l].fetch] \in Promises
  BY <1>1, <1>2 DEF Waiting, Loaded
<1>5. ASSUME listingToken \in Waiting(f)
      PROVE  Owns(f) /\ Served(view, fetch[f].page) = wanted
  BY <1>5, NoneIsNothing DEF Waiting, Owns, TableInv, TokenIsAsked
<1>6. QED
  BY <1>1, <1>2, <1>3, <1>4, <1>5

LEMMA ArrivesTable ==
  ASSUME TableInv, DotsAreHonest, NEW f \in Fetches, PageArrives(f)
  PROVE  TableInv' /\ DotsAreHonest'
<1> DEFINE S == [cache |-> pageCache, fetch |-> [fetch EXCEPT ![f].state = "ok"]]
<1>1. /\ Settle(f)
      /\ IF Owns(f) THEN Show(S, view, fetch[f].page)
         ELSE Keep(S) /\ UNCHANGED tableVars
      /\ Proceed(Waiting(f))
  BY DEF PageArrives
<1>2. /\ load' \in Loaded /\ fetch[f] \in Promises
      /\ \A l \in Loads : load'[l] # None =>
              /\ load'[l] = load[l] /\ load[l] # None /\ load[l].fetch # f
              /\ load[l].fetch \in Fetches /\ fetch[load[l].fetch] \in Promises
      /\ view' = view /\ wanted' = wanted
      /\ listingToken' = (IF listingToken \in Waiting(f) THEN None
                             ELSE listingToken)
      /\ listingToken \in Waiting(f) =>
              Owns(f) /\ Served(view, fetch[f].page) = wanted
  BY <1>1, SettleLoads
<1>3. rollupInFlight' \in {rollupInFlight, view.path}
  BY <1>1, ProceedFlight
<1>4. Sound(Cached) /\ load \in Loaded /\ view \in Views
  BY DEF TableInv, CacheInv, ShownTypes
<1>5. /\ S.fetch \in [Fetches -> Promises \cup {None}] /\ S.cache = pageCache
      /\ \A g \in Fetches : g # f => S.fetch[g] = fetch[g]
      /\ S.fetch[f] \in Promises
  BY <1>2, <1>4 DEF Sound, Cached, Promises
<1> HIDE DEF S
<1>6. Sound(S)
  <2>1. ToSet(pageCache) \subseteq Fetches
    BY <1>4 DEF Sound, Cached, ToSet
  <2>2. QED
    BY <1>4, <1>5, <2>1 DEF Sound, Cached
<1>7. \A l \in Loads : load'[l] # None =>
        /\ S.fetch[load[l].fetch] = fetch[load[l].fetch]
        /\ S.fetch[load'[l].fetch] \in Promises
        /\ S.fetch[load[l].fetch] \in Promises
  BY <1>2, <1>5
<1>8. CASE Owns(f)
  <2>1. fetch[f].page \in 1..(LastPage + 1) /\ listingToken' = None
        /\ Show(S, view, fetch[f].page)
        /\ Served(view, fetch[f].page) = wanted
    BY <1>1, <1>2, <1>8, PageCounts DEF Promises, Owns
  <2>2. /\ CacheInv'
        /\ listing' = [view |-> view, page |-> wanted] /\ page' = wanted
        /\ page' \in Pages
        /\ listing' \in [view : Views, page : Pages] /\ listing' # None
        /\ listing'.page \in 1..PagesOf[listing'.view.path]
        /\ mark' \in Marks(view.path, rollupInFlight)
        /\ mark' \in {"none", "dots"}
        /\ pager' \in [prev : BOOLEAN, next : BOOLEAN, max : 0..LastPage]
    BY <1>2, <1>4, <1>6, <1>7, <2>1, ShowStep
  <2>3. TableInv'
    BY <1>2, <2>1, <2>2, <1>4
    DEF TableInv, ShownTypes, TokenIsAsked, ShownIsAsked, DotsAreShown
  <2>4. DotsAreHonest'
    BY <1>2, <1>3, <2>2 DEF DotsAreHonest, Marks
  <2>5. QED
    BY <2>3, <2>4
<1>9. CASE ~Owns(f)
  <2>1. listingToken' = listingToken /\ Keep(S) /\ UNCHANGED tableVars
    BY <1>1, <1>2, <1>9
  <2>2. /\ CacheInv'
        /\ \A l \in Loads : load'[l] # None =>
             fetch'[load'[l].fetch] = S.fetch[load'[l].fetch]
    BY <1>2, <1>6, <1>7, <2>1, KeepIsSound
  <2>3. TokenIsAsked'
    BY <1>2, <1>7, <2>1, <2>2 DEF TableInv, ShownTypes, TokenIsAsked, Served
  <2>4. TableInv'
    BY <1>2, <2>1, <2>2, <2>3
    DEF TableInv, ShownTypes, ShownIsAsked, DotsAreShown, tableVars
  <2>5. DotsAreHonest'
    BY <1>2, <1>3, <2>1 DEF DotsAreHonest, tableVars
  <2>6. QED
    BY <2>4, <2>5
<1>10. QED
  BY <1>8, <1>9

LEMMA FailsTable ==
  ASSUME TableInv, DotsAreHonest, NEW f \in Fetches, PageFails(f)
  PROVE  TableInv' /\ DotsAreHonest'
<1> DEFINE S == [cache |-> Dropped(pageCache, f), fetch |-> fetch]
<1>1. /\ Settle(f)
      /\ IF Owns(f) THEN ClearListingUI ELSE UNCHANGED tableVars
      /\ Keep(S)
      /\ Proceed(Waiting(f) \ {listingToken})
  BY DEF PageFails
<1>2. /\ load' \in Loaded
      /\ \A l \in Loads : load'[l] # None =>
              /\ load'[l] = load[l] /\ load[l] # None
              /\ fetch[load[l].fetch] \in Promises
      /\ view' = view /\ wanted' = wanted
      /\ listingToken' = (IF listingToken \in Waiting(f) THEN None
                             ELSE listingToken)
      /\ listingToken \in Waiting(f) => Owns(f)
  BY <1>1, SettleLoads
<1>3. rollupInFlight' \in {rollupInFlight, view.path}
  BY <1>1, ProceedFlight
<1>4. Sound(S)
  <2>1. Sound(Cached)
    BY DEF TableInv, CacheInv
  <2>2. /\ pageCache \in Seq(Fetches) /\ Len(pageCache) =< PageCacheMax
        /\ fetch \in [Fetches -> Promises \cup {None}]
        /\ \A g \in ToSet(pageCache) : fetch[g] \in Promises
    BY <2>1 DEF Sound, Cached
  <2> DEFINE d == Dropped(pageCache, f)
  <2>3. d \in Seq(Fetches) /\ Len(d) =< Len(pageCache)
        /\ ToSet(d) \subseteq ToSet(pageCache)
    BY <2>2, DroppedIsShort
  <2> HIDE DEF d
  <2>4. Len(d) =< PageCacheMax
    <3>1. Len(d) \in Nat /\ Len(pageCache) \in Nat /\ PageCacheMax \in Nat
      BY <2>2, <2>3, FrontendAssumption
    <3>2. QED
      BY <2>2, <2>3, <3>1
  <2>5. Sound([cache |-> d, fetch |-> fetch])
    BY <2>2, <2>3, <2>4 DEF Sound
  <2>6. QED
    BY <2>5 DEF d
<1>5. /\ CacheInv'
      /\ \A l \in Loads : load'[l] # None =>
           fetch'[load'[l].fetch] = fetch[load'[l].fetch]
  <2>1. \A l \in Loads : load'[l] # None => S.fetch[load'[l].fetch] \in Promises
    BY <1>2
  <2>2. S.fetch = fetch
    OBVIOUS
  <2> HIDE DEF S
  <2>3. QED
    BY <1>1, <1>2, <1>4, <2>1, <2>2, KeepIsSound
<1>6. CASE Owns(f)
  <2>1. listingToken' = None /\ listing' = None /\ mark' = "none" /\ page' = page
        /\ pager' = [prev |-> FALSE, next |-> FALSE, max |-> 0]
    BY <1>1, <1>2, <1>6 DEF ClearListingUI, Owns
  <2>2. pager' \in [prev : BOOLEAN, next : BOOLEAN, max : 0..LastPage]
    BY <2>1, PageCounts
  <2>3. QED
    BY <1>2, <1>5, <2>1, <2>2
    DEF TableInv, ShownTypes, TokenIsAsked, ShownIsAsked, DotsAreShown,
        DotsAreHonest
<1>7. CASE ~Owns(f)
  <2>1. listingToken' = listingToken /\ UNCHANGED tableVars
    BY <1>1, <1>2, <1>7
  <2>2. TokenIsAsked'
    BY <1>2, <1>5, <2>1 DEF TableInv, ShownTypes, TokenIsAsked, Served
  <2>3. TableInv'
    BY <1>2, <1>5, <2>1, <2>2
    DEF TableInv, ShownTypes, ShownIsAsked, DotsAreShown, tableVars
  <2>4. DotsAreHonest'
    BY <1>2, <1>3, <2>1 DEF DotsAreHonest, tableVars
  <2>5. QED
    BY <2>3, <2>4
<1>8. QED
  BY <1>6, <1>7

\* A rollup touches the table's marks at most, and then not with dots.
LEMMA RollupTable ==
  ASSUME TableInv, DotsAreHonest, RollupInv, NEW r \in Rollups,
         Answer(r) \/ PollAnswer(r) \/ Serve(r)
  PROVE  TableInv' /\ DotsAreHonest'
<1> DEFINE Redrawn == mark' = "none"
           Left == mark' = mark /\ (rollupInFlight' = rollupInFlight \/ ~TableIsHere)
<1>1. ASSUME Owner(r) PROVE r # None /\ of[r] = view.path
  BY <1>1, NoneIsNoRollup DEF RollupInv, OwnerIsAtWork, Owner
<1>2. ASSUME Owner(r), RenderRollup(of[r]) PROVE Redrawn \/ Left
  BY <1>1, <1>2 DEF RenderRollup
<1>3. ASSUME Fail(of[r]) PROVE Redrawn \/ Left
  <2>1. view.path \in Paths /\ None \notin Paths
    BY NoneIsNothing DEF RollupInv
  <2>2. QED
    BY <1>3, <2>1 DEF Fail, Marks
<1>4. ASSUME Quiet PROVE Left
  BY <1>4 DEF Quiet
<1> HIDE DEF Redrawn, Left
<1>5. Still /\ (Redrawn \/ Left)
  BY <1>2, <1>3, <1>4
  DEF Answer, PollAnswer, Answer200, AnswerError, Answer202, PollStale,
      PollRunning, PollEnded, PollError, Serve, Deleted, JobEnds
<1>6. UNCHANGED <<view, page, pageCache, fetch, load, listingToken, wanted,
                  listing, pager>>
  BY <1>5 DEF Still, loadVars
<1>7. mark' \in {"none", "dots"} /\ (mark' = "dots" => mark = "dots")
  BY <1>5 DEF Redrawn, Left, TableInv, ShownTypes
<1>8. TableInv'
  <2>1. CacheInv'
    BY <1>6 DEF TableInv, CacheInv, Loaded, Sound, Cached
  <2>2. ShownTypes' /\ TokenIsAsked' /\ ShownIsAsked' /\ DotsAreShown'
    BY <1>6, <1>7
    DEF TableInv, ShownTypes, TokenIsAsked, ShownIsAsked, DotsAreShown, Served
  <2>3. QED
    BY <2>1, <2>2 DEF TableInv
<1>9. DotsAreHonest'
  <2>1. SUFFICES ASSUME listingToken = None, mark' = "dots"
                 PROVE  rollupInFlight' = view.path
    BY <1>6 DEF DotsAreHonest
  <2>2. mark = "dots" /\ rollupInFlight = view.path
    BY <1>7, <2>1 DEF DotsAreHonest
  <2>3. TableIsHere
    BY <2>1, <2>2 DEF TableInv, DotsAreShown, ShownIsAsked, TableIsHere
  <2>4. QED
    BY <1>5, <2>1, <2>2, <2>3 DEF Redrawn, Left
<1>10. QED
  BY <1>8, <1>9

PageInv == RollupInv /\ TableInv /\ DotsAreHonest

LEMMA PageStep == PageInv /\ [Next]_vars => PageInv'
<1> SUFFICES ASSUME PageInv, [Next]_vars
             PROVE  PageInv'
  OBVIOUS
<1>1. RollupInv'
  BY InvStep DEF PageInv
<1>2. CASE UNCHANGED vars
  <2>1. UNCHANGED <<view, page, pageCache, fetch, load, listingToken, wanted,
                    listing, mark, pager, rollupInFlight>>
    BY <1>2 DEF vars
  <2>2. CacheInv'
    BY <2>1 DEF PageInv, TableInv, CacheInv, Loaded, Sound, Cached
  <2>3. TableInv' /\ DotsAreHonest'
    BY <2>1, <2>2
    DEF PageInv, TableInv, ShownTypes, TokenIsAsked, ShownIsAsked,
        DotsAreShown, DotsAreHonest, Served
  <2>4. QED
    BY <1>1, <2>3 DEF PageInv
<1>3. ASSUME NEW l \in Loads, Click(l) PROVE PageInv'
  BY <1>1, <1>3, ClickTable DEF PageInv
<1>4. ASSUME NEW f \in Fetches, PageArrives(f) \/ PageFails(f) PROVE PageInv'
  BY <1>1, <1>4, ArrivesTable, FailsTable DEF PageInv
<1>5. ASSUME NEW r \in Rollups, Answer(r) \/ PollAnswer(r) \/ Serve(r)
      PROVE  PageInv'
  BY <1>1, <1>5, RollupTable DEF PageInv
<1>6. QED
  BY <1>2, <1>3, <1>4, <1>5 DEF Next

LEMMA PageHolds == Spec => []PageInv
<1>1. Init => PageInv
  BY InvInit, TableInit DEF PageInv
<1>2. QED
  BY <1>1, PageStep, PTL DEF Spec

(* The state of the page keeps its types: every page shown is one that its *)
(* listing has, and there is always a promise for the next request.        *)
THEOREM PageTypes == Spec => []TypeOK
<1>1. PageInv => TypeOK
  <2>1. SUFFICES ASSUME PageInv PROVE TypeOK
    OBVIOUS
  <2>2. RollupTypes
    BY <2>1 DEF PageInv, RollupInv
  <2>3. ListingTypes
    BY <2>1
    DEF PageInv, TableInv, CacheInv, Loaded, Sound, Cached, ShownTypes,
        ListingTypes
  <2>4. QED
    BY <2>2, <2>3 DEF TypeOK
<1>2. QED
  BY <1>1, PageHolds, PTL

(* Whichever answers come late, twice, from the cache or not at all, the   *)
(* table shows what was asked for last once no load owns it any more, or   *)
(* nothing after a failure (app.js:224-254).                               *)
THEOREM ShownHolds == Spec => []ShownIsAsked
<1>1. PageInv => ShownIsAsked
  BY DEF PageInv, TableInv
<1>2. QED
  BY <1>1, PageHolds, PTL

(* A table at rest shows dots only while a rollup of its directory is in   *)
(* flight (tests/test_static.py:43).                                       *)
THEOREM DotsHold == Spec => []DotsAreHonest
<1>1. PageInv => DotsAreHonest
  BY DEF PageInv
<1>2. QED
  BY <1>1, PageHolds, PTL
=============================================================================
