------------------------- MODULE CacheWarmerProofs -------------------------
(***************************************************************************)
(* Theorems about CacheWarmer, for any tree of directories, number of      *)
(* threads, cap and times: its types, that no entry goes cold before the   *)
(* passes have used up the slack, that nothing outlives stop(), and that   *)
(* the walk of a pass is breadth first.                                    *)
(***************************************************************************)
EXTENDS CacheWarmer, FiniteSetTheorems, TLAPS

LEMMA Times ==
  /\ Slack \in Nat /\ Slack =< Margin
  /\ TTL > Interval => Slack =< TTL - Interval
  /\ TTL =< Interval => Slack = 0
BY WarmerAssumption DEF Slack

LEMMA FiniteDirs ==
  ASSUME NEW S \in SUBSET Dirs
  PROVE  IsFiniteSet(S) /\ Cardinality(S) \in Nat
BY WarmerAssumption, FS_Subset, FS_CardinalityType

-----------------------------------------------------------------------------
(* Types.                                                                  *)

LEMMA TypeInit == Init => TypeOK
<1> SUFFICES ASSUME Init
             PROVE  TypeOK
  OBVIOUS
<1>1. Cardinality(batch) = 0 /\ Cardinality(asking) = 0
  BY FS_EmptySet DEF Init
<1>2. life \in [Dirs -> 0..TTL] /\ lag \in [Dirs -> 0..Slack]
  BY Times, WarmerAssumption DEF Init
<1>3. /\ level \in 0..(Depth + 1) /\ visited \in 0..maxDirs
      /\ Cardinality(batch) =< maxDirs - visited
      /\ Cardinality(asking) =< Threads /\ timer \in 0..Interval
  BY <1>1, WarmerAssumption DEF Init
<1>4. frontier \subseteq seen /\ seen \subseteq Dirs /\ queued \subseteq batch
  BY DEF Init
<1> QED
  BY <1>2, <1>3, <1>4 DEF Init, TypeOK

LEMMA TypeOfEndPass ==
  ASSUME TypeOK, EndPass
  PROVE  TypeOK'
<1>1. Cardinality({}) = 0
  BY FS_EmptySet
<1>2. lag' \in [Dirs -> 0..Slack] /\ fresh' \subseteq Dirs
  BY Times DEF TypeOK, EndPass, Lose
<1>3. timer' \in 0..Interval /\ Cardinality(batch') =< maxDirs' - visited'
  BY <1>1, WarmerAssumption DEF TypeOK, EndPass, passVars
<1> QED
  BY <1>1, <1>2, <1>3
  DEF TypeOK, EndPass, passVars, stopVars

LEMMA TypeOfSubmit ==
  ASSUME TypeOK, Submit
  PROVE  TypeOK'
<1>1. PICK b \in SUBSET frontier :
        /\ IF Cardinality(frontier) =< maxDirs - visited
             THEN b = frontier
             ELSE Cardinality(b) = maxDirs - visited
        /\ batch' = b /\ queued' = b
  BY DEF Submit
<1>2. b \subseteq Dirs /\ Cardinality(b) \in Nat
  BY <1>1, FiniteDirs DEF TypeOK
<1>3. Cardinality(b) =< maxDirs - visited
  BY <1>1, <1>2, WarmerAssumption DEF TypeOK
<1>4. queued' \subseteq batch' /\ batch' \subseteq Dirs
  BY <1>1, <1>2
<1>5. cancelled' = {}
  BY DEF Submit, TypeOK
<1> QED
  BY <1>1, <1>2, <1>3, <1>4, <1>5
  DEF TypeOK, Submit, passVars, stopVars, cacheVars

LEMMA TypeOfLevelDone ==
  ASSUME TypeOK, LevelDone
  PROVE  TypeOK'
<1>1. frontier' \subseteq Dirs
  BY WarmerAssumption DEF TypeOK, LevelDone
<1>2. Cardinality({}) = 0 /\ Cardinality(batch) \in Nat
  BY FS_EmptySet, FiniteDirs DEF TypeOK
<1>3. visited' \in 0..maxDirs /\ level' \in 0..(Depth + 1)
  BY <1>2, WarmerAssumption DEF TypeOK, LevelDone
<1> QED
  BY <1>1, <1>2, <1>3, WarmerAssumption
  DEF TypeOK, LevelDone, stopVars, cacheVars

\* The steps of a visit, of stop() and of the rest of the world.
LEMMA TypeOfVisit ==
  ASSUME TypeOK, NEW d \in Dirs, Visit(d)
  PROVE  TypeOK'
<1>1. /\ Cardinality(asking) \in Nat
      /\ Cardinality(asking \cup {d}) =< Cardinality(asking) + 1
      /\ Cardinality(asking \ {d}) =< Cardinality(asking)
  <2>1. IsFiniteSet(asking) /\ Cardinality(asking) \in Nat
    BY FiniteDirs DEF TypeOK
  <2>2. \/ Cardinality(asking \cup {d}) = Cardinality(asking)
        \/ Cardinality(asking \cup {d}) = Cardinality(asking) + 1
    BY <2>1, FS_AddElement
  <2>3. \/ Cardinality(asking \ {d}) = Cardinality(asking)
        \/ Cardinality(asking \ {d}) = Cardinality(asking) - 1
    BY <2>1, FS_RemoveElement
  <2> QED
    BY <2>1, <2>2, <2>3
<1>2. Cardinality(asking \ {d}) \in Nat /\ Cardinality(asking \cup {d}) \in Nat
  BY FiniteDirs DEF TypeOK
<1>3. ASSUME Hit(d) PROVE TypeOK'
  <2>1. lag' \in [Dirs -> 0..Slack] /\ fresh' \subseteq Dirs
    BY <1>3, Times DEF TypeOK, Hit, Leave
  <2> QED
    BY <1>3, <2>1 DEF TypeOK, Hit, passVars, stopVars
<1>4. ASSUME Ask(d) PROVE TypeOK'
  <2>1. asking' \subseteq Dirs /\ Cardinality(asking') =< Threads
    BY <1>1, <1>2, <1>4, WarmerAssumption DEF TypeOK, Ask
  <2>2. old' \subseteq asking'
    BY <1>4 DEF TypeOK, Ask, cacheVars
  <2> QED
    BY <1>4, <2>1, <2>2 DEF TypeOK, Ask, passVars, stopVars, cacheVars
<1>5. ASSUME Asked(d),
             life' \in [Dirs -> 0..TTL], lag' \in [Dirs -> 0..Slack],
             fresh' \subseteq Dirs, missed' \subseteq Dirs
      PROVE  TypeOK'
  <2>1. asking' \subseteq Dirs /\ Cardinality(asking') =< Threads
    BY <1>1, <1>2, <1>5, WarmerAssumption DEF TypeOK, Asked
  <2>2. old' \subseteq asking'
    BY <1>5 DEF TypeOK, Asked
  <2> QED
    BY <1>5, <2>1, <2>2 DEF TypeOK, Asked, passVars, stopVars
<1>6. ASSUME Answer(d) PROVE TypeOK'
  BY <1>5, <1>6, Times, WarmerAssumption DEF TypeOK, Answer, Leave
<1>7. ASSUME AnswerTooLarge(d) PROVE TypeOK'
  BY <1>5, <1>7, Times, WarmerAssumption DEF TypeOK, AnswerTooLarge, Lose
<1>8. ASSUME Fail(d) PROVE TypeOK'
  BY <1>5, <1>8, Times, WarmerAssumption DEF TypeOK, Fail
<1> QED
  BY <1>3, <1>4, <1>6, <1>7, <1>8 DEF Visit

LEMMA TypeOfWorld ==
  ASSUME TypeOK,
         Tick \/ Flip \/ \E d \in Dirs : Browse(d) \/ Evict(d)
  PROVE  TypeOK'
<1>1. CASE Tick
  <2>1. life' \in [Dirs -> 0..TTL] /\ lag' \in [Dirs -> 0..Slack]
    BY <1>1, Times, WarmerAssumption DEF TypeOK, Tick
  <2>2. timer' \in 0..Interval
    BY <1>1, WarmerAssumption DEF TypeOK, Tick
  <2> QED
    BY <1>1, <2>1, <2>2 DEF TypeOK, Tick, passVars, poolVars, stopVars
<1>2. CASE Flip
  <2>1. life' \in [Dirs -> 0..TTL] /\ lag' \in [Dirs -> 0..Slack]
    BY <1>2, Times, WarmerAssumption DEF TypeOK, Flip, Lose
  <2> QED
    BY <1>2, <2>1 DEF TypeOK, Flip, Lose, passVars, poolVars, stopVars
<1>3. ASSUME NEW d \in Dirs, Browse(d) PROVE TypeOK'
  <2>1. life' \in [Dirs -> 0..TTL]
    BY <1>3, WarmerAssumption DEF TypeOK, Browse
  <2> QED
    BY <1>3, <2>1 DEF TypeOK, Browse, passVars, poolVars, stopVars
<1>4. ASSUME NEW d \in Dirs, Evict(d) PROVE TypeOK'
  <2>1. life' \in [Dirs -> 0..TTL] /\ lag' \in [Dirs -> 0..Slack]
    BY <1>4, Times, WarmerAssumption DEF TypeOK, Evict, Lose
  <2> QED
    BY <1>4, <2>1 DEF TypeOK, Evict, Lose, passVars, poolVars, stopVars
<1> QED
  BY <1>1, <1>2, <1>3, <1>4

LEMMA TypeStep ==
  ASSUME TypeOK, [Next]_vars
  PROVE  TypeOK'
<1>1. CASE Start \/ Finish \/ Wake
  BY <1>1 DEF TypeOK, Start, Finish, Wake, passVars, poolVars, stopVars,
              cacheVars
<1>2. CASE Pass
  <2>1. maxDirs \in Nat /\ Cardinality(batch') = 0
    BY <1>2, FS_EmptySet, WarmerAssumption DEF TypeOK, Pass, poolVars
  <2>2. /\ level' \in 0..(Depth + 1) /\ visited' \in 0..maxDirs'
        /\ Cardinality(batch') =< maxDirs' - visited'
    BY <1>2, <2>1, WarmerAssumption DEF TypeOK, Pass, poolVars
  <2> QED
    BY <1>2, <2>2, WarmerAssumption DEF TypeOK, Pass, poolVars, stopVars
<1>3. CASE NoLevelLeft \/ SubmitRaises \/ LevelRaises
  BY <1>3, TypeOfEndPass DEF NoLevelLeft, SubmitRaises, LevelRaises
<1>4. CASE RequestStop
  BY <1>4 DEF TypeOK, RequestStop, passVars, poolVars, cacheVars
<1>5. CASE StopReturns
  BY <1>5 DEF TypeOK, StopReturns, passVars, poolVars, cacheVars
<1>6. CASE ShutPool
  BY <1>6 DEF TypeOK, ShutPool, passVars, cacheVars
<1>7. CASE UNCHANGED vars
  BY <1>7 DEF TypeOK, vars, passVars, poolVars, stopVars, cacheVars
<1> QED
  BY <1>1, <1>2, <1>3, <1>4, <1>6, <1>7, <1>5, TypeOfSubmit, TypeOfLevelDone,
     TypeOfVisit, TypeOfWorld
  DEF Next, Loop, Stopping, Gone

\* The scheduler, the pool, stop() and the entries keep their types and
\* their places (warmer.py:37-147).
THEOREM TypeCorrect == Spec => []TypeOK
<1>1. Init => TypeOK
  BY TypeInit
<1>2. TypeOK /\ [Next]_vars => TypeOK'
  BY TypeStep
<1> QED
  BY <1>1, <1>2, PTL DEF Spec

-----------------------------------------------------------------------------
(* Warmth.  A pass that leaves an entry leaves it life for the wait that    *)
(* follows and for the slack.  What the entry of d has left covers the part *)
(* of the slack that is not used up, and the wait, or the rest of it, if    *)
(* the pass that left the entry has not had it yet.                         *)

WaitAhead(d) ==
  IF d \notin fresh THEN 0
  ELSE IF loop = "wait" THEN timer
  ELSE IF loop \in {"level", "batch"} THEN Interval
  ELSE 0

Fuelled == \A d \in Dirs :
  lag[d] < Slack => life[d] >= Slack - lag[d] + WaitAhead(d)

\* Nothing is promised in the wait that the last pass did not leave.
OnlyFresh == loop = "wait" => \A d \in Dirs \ fresh : lag[d] = Slack

Warm == Fuelled /\ OnlyFresh

LEMMA WaitBound ==
  ASSUME TypeOK, NEW d \in Dirs
  PROVE  WaitAhead(d) \in 0..Interval
BY WarmerAssumption DEF TypeOK, WaitAhead

LEMMA WarmInit == Init => Warm
BY Times DEF Init, Warm, Fuelled, OnlyFresh

\* A visit that leaves an entry leaves one that lasts.
LEMMA LeaveIsWarm ==
  ASSUME TypeOK, TypeOK', Warm, NEW d \in Dirs, Leave(d),
         UNCHANGED <<loop, timer>>,
         \A e \in Dirs \ {d} : life'[e] = life[e],
         Slack > 0 => life'[d] >= Interval + Slack
  PROVE  Warm'
<1>1. lag' = [lag EXCEPT ![d] = 0] /\ fresh' = fresh \cup {d}
  BY DEF Leave
<1>2. ASSUME NEW e \in Dirs, lag'[e] < Slack
      PROVE  life'[e] >= Slack - lag'[e] + WaitAhead(e)'
  <2>1. WaitAhead(e)' \in 0..Interval
    BY WarmerAssumption DEF TypeOK, WaitAhead
  <2>2. CASE e = d
    BY <1>1, <1>2, <2>1, <2>2, Times, WarmerAssumption DEF TypeOK
  <2>3. CASE e # d
    <3>1. lag'[e] = lag[e] /\ life'[e] = life[e] /\ WaitAhead(e)' = WaitAhead(e)
      BY <1>1, <2>3 DEF TypeOK, WaitAhead
    <3> QED
      BY <1>2, <3>1 DEF Warm, Fuelled
  <2> QED
    BY <2>2, <2>3
<1>3. OnlyFresh'
  BY <1>1 DEF Warm, OnlyFresh, TypeOK
<1> QED
  BY <1>2, <1>3 DEF Warm, Fuelled

\* Nothing is promised for an entry that is lost.
LEMMA LoseIsWarm ==
  ASSUME TypeOK, Warm, NEW S \in SUBSET Dirs, Lose(S),
         UNCHANGED <<loop, timer>>,
         \A e \in Dirs \ S : life'[e] = life[e]
  PROVE  Warm'
<1>1. /\ \A e \in S : lag'[e] = Slack
      /\ \A e \in Dirs \ S : lag'[e] = lag[e]
      /\ fresh' = fresh \ S
  BY DEF Lose
<1>2. ASSUME NEW e \in Dirs, lag'[e] < Slack
      PROVE  life'[e] >= Slack - lag'[e] + WaitAhead(e)'
  <2>1. e \notin S
    BY <1>1, <1>2, Times
  <2>2. WaitAhead(e)' = WaitAhead(e)
    BY <1>1, <2>1 DEF WaitAhead
  <2> QED
    BY <1>1, <1>2, <2>1, <2>2 DEF Warm, Fuelled
<1>3. OnlyFresh'
  BY <1>1 DEF Warm, OnlyFresh
<1> QED
  BY <1>2, <1>3 DEF Warm, Fuelled

LEMMA EndPassIsWarm ==
  ASSUME TypeOK, Warm, EndPass, loop \in {"level", "batch"}
  PROVE  Warm'
<1>1. /\ \A e \in Dirs \ fresh : lag'[e] = Slack
      /\ \A e \in fresh : lag'[e] = lag[e]
      /\ fresh' = fresh /\ life' = life /\ loop' = "wait" /\ timer' = Interval
  BY DEF EndPass, Lose, TypeOK
<1>2. ASSUME NEW e \in Dirs, lag'[e] < Slack
      PROVE  life'[e] >= Slack - lag'[e] + WaitAhead(e)'
  <2>1. e \in fresh /\ lag'[e] = lag[e]
    BY <1>1, <1>2, Times
  <2>2. WaitAhead(e)' = Interval /\ WaitAhead(e) = Interval
    BY <1>1, <2>1 DEF WaitAhead
  <2> QED
    BY <1>1, <1>2, <2>1, <2>2 DEF Warm, Fuelled
<1>3. OnlyFresh'
  BY <1>1 DEF OnlyFresh
<1> QED
  BY <1>2, <1>3 DEF Warm, Fuelled

\* A tick takes from the wait, or from the slack.
LEMMA TickIsWarm ==
  ASSUME TypeOK, Warm, Tick
  PROVE  Warm'
<1>1. /\ loop' = loop /\ fresh' = fresh
      /\ \A e \in Dirs : life[e] > 0 => life'[e] = life[e] - 1
      /\ \A e \in Dirs : life[e] = 0 => life'[e] = 0
  BY DEF Tick, TypeOK
<1>2. CASE loop = "wait" /\ timer > 0
  <2>1. timer' = timer - 1 /\ lag' = lag
    BY <1>2 DEF Tick
  <2>2. ASSUME NEW e \in Dirs, lag[e] < Slack
        PROVE  life'[e] >= Slack - lag[e] + WaitAhead(e)'
    <3>1. e \in fresh
      BY <1>2, <2>2, Times DEF Warm, OnlyFresh
    <3>2. WaitAhead(e) = timer /\ WaitAhead(e)' = timer - 1
      BY <1>1, <1>2, <2>1, <3>1 DEF WaitAhead
    <3>3. /\ life[e] >= Slack - lag[e] + timer
          /\ life[e] \in Nat /\ lag[e] \in Nat /\ timer \in Nat
      BY <2>2, <3>2, Times, WarmerAssumption DEF Warm, Fuelled, TypeOK
    <3> QED
      BY <1>1, <1>2, <2>2, <3>2, <3>3, Times
  <2> QED
    BY <1>1, <1>2, <2>1, <2>2 DEF Warm, Fuelled, OnlyFresh
<1>3. CASE ~ (loop = "wait" /\ timer > 0)
  <2>1. /\ timer' = timer
        /\ \A e \in Dirs : lag'[e] = IF lag[e] < Slack THEN lag[e] + 1
                                                       ELSE lag[e]
    BY <1>3 DEF Tick
  <2>2. ASSUME NEW e \in Dirs, lag'[e] < Slack
        PROVE  life'[e] >= Slack - lag'[e] + WaitAhead(e)'
    <3>1. life[e] \in Nat /\ lag[e] \in Nat /\ WaitAhead(e) \in Nat
      BY WaitBound, Times, WarmerAssumption DEF TypeOK
    <3>2. lag[e] < Slack /\ lag'[e] = lag[e] + 1
      BY <2>1, <2>2, <3>1, Times
    <3>3. WaitAhead(e)' = WaitAhead(e)
      BY <1>1, <2>1 DEF WaitAhead
    <3>4. life[e] >= Slack - lag[e] + WaitAhead(e)
      BY <3>2 DEF Warm, Fuelled
    <3> QED
      BY <1>1, <3>1, <3>2, <3>3, <3>4, Times
  <2>3. OnlyFresh'
    BY <1>1, <2>1, Times DEF Warm, OnlyFresh
  <2> QED
    BY <2>2, <2>3 DEF Warm, Fuelled
<1> QED
  BY <1>2, <1>3

\* The loop goes on: a wait that is over is not ahead any more, and what lies
\* ahead of a new pass is no more than that.
LEMMA LoopIsWarm ==
  ASSUME TypeOK, Warm,
         Start \/ Pass \/ Finish \/ Submit \/ LevelDone \/ Wake
  PROVE  Warm'
<1>1. /\ life' = life /\ lag' = lag /\ timer' = timer /\ loop' # "wait"
      /\ fresh' \subseteq fresh
      /\ loop' \in {"level", "batch"} =>
           fresh' = {} \/ loop \in {"level", "batch"}
  BY DEF Start, Pass, Finish, Submit, LevelDone, Wake, cacheVars
<1>2. ASSUME NEW e \in Dirs
      PROVE  WaitAhead(e)' =< WaitAhead(e)
  BY <1>1, WarmerAssumption DEF WaitAhead, TypeOK
<1>3. ASSUME NEW e \in Dirs, lag[e] < Slack
      PROVE  life[e] >= Slack - lag[e] + WaitAhead(e)'
  <2>1. WaitAhead(e) \in Nat /\ WaitAhead(e)' \in Nat
    BY <1>1, WarmerAssumption DEF WaitAhead, TypeOK
  <2>2. life[e] \in Nat /\ lag[e] \in Nat
    BY Times DEF TypeOK
  <2>3. life[e] >= Slack - lag[e] + WaitAhead(e)
    BY <1>3 DEF Warm, Fuelled
  <2> QED
    BY <1>2, <2>1, <2>2, <2>3, Times
<1> QED
  BY <1>1, <1>3 DEF Warm, Fuelled, OnlyFresh

\* Steps that no entry and no promise can tell.
LEMMA SameIsWarm ==
  ASSUME TypeOK, Warm, UNCHANGED <<loop, timer, fresh, lag>>,
         \A e \in Dirs : life'[e] >= life[e] /\ life'[e] \in Nat
  PROVE  Warm'
<1>1. ASSUME NEW e \in Dirs, lag[e] < Slack
      PROVE  life'[e] >= Slack - lag[e] + WaitAhead(e)'
  <2>1. WaitAhead(e)' = WaitAhead(e)
    BY DEF WaitAhead
  <2>2. life[e] >= Slack - lag[e] + WaitAhead(e)
    BY <1>1 DEF Warm, Fuelled
  <2>3. life[e] \in Nat /\ lag[e] \in Nat /\ WaitAhead(e) \in Nat
    BY WaitBound, Times, WarmerAssumption DEF TypeOK
  <2> QED
    BY <2>1, <2>2, <2>3, Times
<1> QED
  BY <1>1 DEF Warm, Fuelled, OnlyFresh

LEMMA VisitIsWarm ==
  ASSUME TypeOK, TypeOK', Warm, NEW d \in Dirs, Visit(d)
  PROVE  Warm'
<1>0. \A e \in Dirs : life[e] \in Nat
  BY WarmerAssumption DEF TypeOK
<1>1. CASE Hit(d)
  <2>1. life[d] >= Interval + Slack
    BY <1>0, <1>1, Times, WarmerAssumption DEF Hit, LivesLong
  <2> QED
    BY <1>1, <2>1, LeaveIsWarm DEF Hit
<1>2. CASE Ask(d)
  BY <1>0, <1>2, SameIsWarm DEF Ask, cacheVars
<1>3. CASE Answer(d) /\ d \in old
  BY <1>0, <1>3, SameIsWarm DEF Answer, Asked
<1>4. CASE Answer(d) /\ d \notin old
  <2>1. life' = [life EXCEPT ![d] = TTL] /\ Leave(d)
    BY <1>4 DEF Answer
  <2>2. life'[d] = TTL /\ \A e \in Dirs \ {d} : life'[e] = life[e]
    BY <2>1 DEF TypeOK
  <2>3. Slack > 0 => life'[d] >= Interval + Slack
    BY <2>2, Times, WarmerAssumption
  <2>4. UNCHANGED <<loop, timer>>
    BY <1>4 DEF Answer, Asked
  <2> QED
    BY <2>1, <2>2, <2>3, <2>4, LeaveIsWarm
<1>5. CASE AnswerTooLarge(d)
  <2>1. Lose({d}) /\ UNCHANGED <<loop, timer>>
    BY <1>5 DEF AnswerTooLarge, Asked
  <2>2. \A e \in Dirs \ {d} : life'[e] = life[e]
    BY <1>5 DEF AnswerTooLarge, TypeOK
  <2> QED
    BY <2>1, <2>2, LoseIsWarm
<1>6. CASE Fail(d)
  BY <1>0, <1>6, SameIsWarm DEF Fail, Asked
<1> QED
  BY <1>1, <1>2, <1>3, <1>4, <1>5, <1>6 DEF Visit

LEMMA WarmStep ==
  ASSUME TypeOK, Warm, [Next]_vars
  PROVE  Warm'
<1>0. TypeOK' /\ \A e \in Dirs : life[e] \in Nat
  BY TypeStep, WarmerAssumption DEF TypeOK
<1>1. CASE Start \/ Pass \/ Finish \/ Submit \/ LevelDone \/ Wake
  BY <1>1, LoopIsWarm
<1>2. CASE NoLevelLeft \/ SubmitRaises \/ LevelRaises
  BY <1>2, EndPassIsWarm DEF NoLevelLeft, SubmitRaises, LevelRaises
<1>3. ASSUME NEW d \in Dirs, Visit(d) PROVE Warm'
  BY <1>0, <1>3, VisitIsWarm
<1>4. CASE Tick
  BY <1>4, TickIsWarm
<1>5. CASE Flip
  <2>1. Lose(Dirs) /\ UNCHANGED <<loop, timer>>
    BY <1>5 DEF Flip
  <2> QED
    BY <2>1, LoseIsWarm
<1>6. ASSUME NEW d \in Dirs, Evict(d) PROVE Warm'
  <2>1. Lose({d}) /\ UNCHANGED <<loop, timer>>
    BY <1>6 DEF Evict
  <2>2. \A e \in Dirs \ {d} : life'[e] = life[e]
    BY <1>6 DEF Evict, TypeOK
  <2> QED
    BY <2>1, <2>2, LoseIsWarm
<1>7. ASSUME NEW d \in Dirs, Browse(d) PROVE Warm'
  <2>1. \A e \in Dirs : life'[e] >= life[e] /\ life'[e] \in Nat
    BY <1>7, WarmerAssumption DEF Browse, TypeOK
  <2> QED
    BY <1>7, <2>1, SameIsWarm DEF Browse
<1>8. CASE RequestStop \/ ShutPool \/ StopReturns
  BY <1>0, <1>8, SameIsWarm DEF RequestStop, ShutPool, StopReturns, cacheVars
<1>9. CASE UNCHANGED vars
  BY <1>0, <1>9, SameIsWarm DEF vars, cacheVars
<1> QED
  BY <1>1, <1>2, <1>3, <1>4, <1>5, <1>6, <1>7, <1>8, <1>9
  DEF Next, Loop, Stopping, Gone

\* Whatever the interval, the margin and the time to live, and whoever uses
\* the cache meanwhile: no entry that the warmer left goes cold before the
\* passes have taken the slack (warmer.py:31-33, 90-92).
THEOREM EntriesStayWarm == Spec => []WarmStaysWarm
<1>1. Init => TypeOK /\ Warm
  BY TypeInit, WarmInit
<1>2. TypeOK /\ Warm /\ [Next]_vars => (TypeOK /\ Warm)'
  BY TypeStep, WarmStep
<1>3. TypeOK /\ Warm => WarmStaysWarm
  <2> SUFFICES ASSUME TypeOK, Warm, NEW d \in Dirs, lag[d] < Slack
               PROVE  life[d] > 0
    BY DEF WarmStaysWarm
  <2>1. life[d] >= Slack - lag[d] + WaitAhead(d)
    BY DEF Warm, Fuelled
  <2>2. WaitAhead(d) \in Nat /\ lag[d] \in Nat /\ life[d] \in Nat
    BY WaitBound, Times, WarmerAssumption DEF TypeOK
  <2> QED
    BY <2>1, <2>2, Times
<1> QED
  BY <1>1, <1>2, <1>3, PTL DEF Spec

-----------------------------------------------------------------------------
(* Shutdown.                                                               *)

Down == stopper = "gone" => loop = "done" /\ queued \cup asking = {}

Drained ==
  /\ stopper \in {"draining", "gone"} => closed
  /\ Down

LEMMA DrainedStep ==
  ASSUME TypeOK, Drained, [Next]_vars
  PROVE  Drained'
<1>1. CASE Loop
  BY <1>1 DEF Drained, Down, TypeOK, Loop, Start, Pass, Finish, Submit,
     NoLevelLeft, SubmitRaises, LevelDone, LevelRaises, EndPass, Wake,
     poolVars, stopVars
<1>2. ASSUME NEW d \in Dirs, Visit(d) PROVE Drained'
  BY <1>2 DEF Drained, Down, Visit, Hit, Ask, Answer, AnswerTooLarge, Fail,
     Asked, stopVars
<1>3. CASE RequestStop \/ ShutPool \/ StopReturns
  BY <1>3 DEF Drained, Down, TypeOK, RequestStop, ShutPool, StopReturns,
     poolVars
<1>4. CASE \/ Tick \/ Flip \/ UNCHANGED vars
           \/ \E d \in Dirs : Browse(d) \/ Evict(d)
  BY <1>4 DEF Drained, Down, Tick, Flip, Browse, Evict, vars, poolVars,
     stopVars
<1> QED
  BY <1>1, <1>2, <1>3, <1>4 DEF Next, Stopping, Gone

\* When stop() has returned, the thread has ended, and no visit of its pool
\* waits or runs, whatever the pass was at (warmer.py:64-75).
THEOREM NothingOutlivesStop == Spec => []Down
<1>1. Init => TypeOK /\ Drained
  BY TypeInit DEF Init, Drained, Down
<1>2. TypeOK /\ Drained /\ [Next]_vars => (TypeOK /\ Drained)'
  BY TypeStep, DrainedStep
<1>3. Drained => Down
  BY DEF Drained
<1> QED
  BY <1>1, <1>2, <1>3, PTL DEF Spec
-----------------------------------------------------------------------------
(* Induction, and functions defined by recursion on the naturals.          *)

LEMMA LeastNat ==
  ASSUME NEW T \in SUBSET Nat, T # {}
  PROVE  \E x \in T : \A y \in T : x =< y
<1> DEFINE R == {ss \in Nat \X Nat : ss[1] < ss[2]}
<1>1. IsWellFoundedOn(R, Nat)
  BY NatLessThanWellFounded DEF OpToRel
<1>2. \E x \in T : \A y \in T : ~ (<<y, x>> \in R)
  <2> HIDE DEF R
  <2> QED
  BY <1>1, WFMin
<1>3. ASSUME NEW x \in T, NEW y \in T, ~ (<<y, x>> \in R) PROVE x =< y
  BY <1>3
<1> QED
  BY <1>2, <1>3

LEMMA Induct ==
  ASSUME NEW m \in Nat, NEW T \in SUBSET (0..m), 0 \in T,
         \A n \in T : n < m => n + 1 \in T
  PROVE  T = 0..m
<1>1. SUFFICES ASSUME (0..m) \ T # {} PROVE FALSE
  OBVIOUS
<1>2. PICK x \in (0..m) \ T : \A y \in (0..m) \ T : x =< y
  <2>1. (0..m) \ T \in SUBSET Nat
    OBVIOUS
  <2>2. QED
    BY <2>1, <1>1, LeastNat
<1>3. x - 1 \in T /\ x - 1 < m
  BY <1>2
<1>4. QED
  BY <1>2, <1>3

Runs(m, V, b, st) ==
  {g \in [0..m -> V] : g[0] = b /\ \A n \in 1..m : g[n] = st[n][g[n - 1]]}
LEMMA Recursion ==
  ASSUME NEW m \in Nat, NEW V, NEW b \in V, NEW st \in [1..m -> [V -> V]]
  PROVE  Runs(m, V, b, st) # {}
<1> DEFINE Good(g, k) == g[0] = b /\ \A n \in 1..k : g[n] = st[n][g[n - 1]]
           T == {k \in 0..m : \E g \in [0..k -> V] : Good(g, k)}
<1>1. 0 \in T
  <2> DEFINE h == [i \in 0..0 |-> b]
  <2>1. h \in [0..0 -> V] /\ Good(h, 0)
    OBVIOUS
  <2>2. \E g \in [0..0 -> V] : Good(g, 0)
    BY <2>1
  <2> HIDE DEF Good
  <2>3. QED
    BY <2>2
<1>2. ASSUME NEW k \in T, k < m PROVE k + 1 \in T
  <2>1. PICK g \in [0..k -> V] : Good(g, k)
    OBVIOUS
  <2> DEFINE new == st[k + 1][g[k]]
             h == [i \in 0..(k + 1) |-> IF i = k + 1 THEN new ELSE g[i]]
  <2>2. k \in 0..m /\ k + 1 \in 1..m /\ k \in 0..k /\ new \in V
    <3>1. k \in 0..m /\ k + 1 \in 1..m /\ k \in 0..k
      BY <1>2
    <3>2. g[k] \in V /\ st[k + 1] \in [V -> V]
      BY <3>1
    <3>3. QED
      BY <3>1, <3>2
  <2>3. h \in [0..(k + 1) -> V]
    <3> HIDE DEF new
    <3>1. QED
      BY <2>2
  <2>4. Good(h, k + 1)
    <3>1. h[0] = b
      BY <2>1, <2>2
    <3>2. ASSUME NEW n \in 1..(k + 1) PROVE h[n] = st[n][h[n - 1]]
      <4>1. CASE n = k + 1
        BY <4>1, <2>2
      <4>2. CASE n # k + 1
        BY <4>2, <2>1, <2>2
      <4>3. QED
        BY <4>1, <4>2
    <3>3. QED
      BY <3>1, <3>2
  <2>5. \E g2 \in [0..(k + 1) -> V] : Good(g2, k + 1)
    <3> HIDE DEF Good, h
    <3>1. QED
      BY <2>3, <2>4
  <2>6. k + 1 \in 0..m
    BY <2>2
  <2> HIDE DEF Good
  <2>7. QED
    BY <2>5, <2>6
<1>3. T = 0..m
  <2>1. T \subseteq 0..m
    OBVIOUS
  <2> HIDE DEF T
  <2>2. QED
    BY <1>1, <1>2, <2>1, Induct
<1>4. \E g \in [0..m -> V] : Good(g, m)
  <2>1. m \in T
    <3> HIDE DEF T
    <3>1. QED
      BY <1>3
  <2> HIDE DEF Good
  <2>2. QED
    BY <2>1
<1>5. QED
  BY <1>4 DEF Runs


LEMMA Stays ==
  ASSUME NEW m \in Nat, NEW V, NEW c, c[0] \in V,
         \A n \in 1..m : c[n - 1] \in V => c[n] \in V
  PROVE  \A n \in 0..m : c[n] \in V
<1> DEFINE T == {n \in 0..m : c[n] \in V}
<1>1. T \in SUBSET (0..m) /\ 0 \in T
  OBVIOUS
<1>2. \A n \in T : n < m => n + 1 \in T
  OBVIOUS
<1>3. T = 0..m
  <2> HIDE DEF T
  <2>1. QED
    BY <1>1, <1>2, Induct
<1>4. QED
  BY <1>3

-----------------------------------------------------------------------------
(* Near, as the walk needs it.                                              *)

NextNear(S, failed) == S \cup UNION {Children[d] : d \in S \ failed}

LEMMA NearRec ==
  ASSUME NEW M
  PROVE  /\ Near(M) \in [0..(Depth + 1) -> SUBSET Dirs]
         /\ Near(M)[0] = Roots
         /\ \A n \in 0..Depth : Near(M)[n + 1] = NextNear(Near(M)[n], M)
<1> DEFINE m == Depth + 1
           V == SUBSET Dirs
           st == [n \in 1..m |-> [v \in V |-> NextNear(v, M)]]
           Eq(f) == f = [n \in 0..m |->
                           IF n = 0 THEN Roots
                           ELSE f[n - 1] \cup
                                UNION {Children[d] : d \in f[n - 1] \ M}]
           c == CHOOSE h : Eq(h)
<1>1. m \in Nat /\ Roots \in V /\ \A v \in V : NextNear(v, M) \in V
  BY WarmerAssumption DEF NextNear
<1>2. st \in [1..m -> [V -> V]]
  BY <1>1
<1>3. \E f : f \in Runs(m, V, Roots, st)
  <2> HIDE DEF st, m, V
  <2>1. QED
    BY <1>1, <1>2, Recursion
<1>4. PICK f : f \in Runs(m, V, Roots, st)
  BY <1>3
<1>5. f \in [0..m -> V] /\ f[0] = Roots
  BY <1>4 DEF Runs
<1>6. ASSUME NEW n \in 1..m PROVE f[n] = NextNear(f[n - 1], M)
  <2>1. f[n - 1] \in V
    BY <1>1, <1>5
  <2>2. f[n] = st[n][f[n - 1]]
    BY <1>4 DEF Runs
  <2>3. QED
    BY <2>1, <2>2
<1>7. Eq(f)
  <2> DEFINE g == [n \in 0..m |->
                     IF n = 0 THEN Roots
                     ELSE f[n - 1] \cup UNION {Children[d] : d \in f[n - 1] \ M}]
  <2>1. ASSUME NEW n \in 0..m PROVE f[n] = g[n]
    <3> HIDE DEF st, Eq, c
    <3>1. CASE n = 0
      BY <3>1, <1>5
    <3>2. CASE n # 0
      <4>1. n \in 1..m
        BY <1>1, <3>2
      <4>2. f[n] = NextNear(f[n - 1], M)
        BY <4>1, <1>6
      <4>3. QED
        BY <4>2, <3>2 DEF NextNear
    <3>3. QED
      BY <3>1, <3>2
  <2>2. QED
    BY <2>1, <1>5
<1>8. Eq(c)
  <2> HIDE DEF Eq
  <2>1. QED
    BY <1>7
<1>9. /\ c = [n \in 0..m |-> c[n]]
      /\ c[0] = Roots
      /\ \A n \in 1..m : c[n] = NextNear(c[n - 1], M)
  <2> HIDE DEF c
  <2>1. c = [n \in 0..m |-> c[n]] /\ 0 \in 0..m
    BY <1>1, <1>8
  <2>2. c[0] = Roots
    BY <1>8, <2>1
  <2>3. \A n \in 1..m : c[n] = NextNear(c[n - 1], M)
    BY <1>1, <1>8 DEF NextNear
  <2>4. QED
    BY <2>1, <2>2, <2>3
<1>10. \A n \in 0..m : c[n] \in V
  <2> HIDE DEF c, st, Eq
  <2>1. ASSUME NEW n \in 1..m, c[n - 1] \in V PROVE c[n] \in V
    BY <1>1, <1>9, <2>1
  <2>2. c[0] \in V
    BY <1>1, <1>9
  <2> HIDE DEF m, V
  <2>3. QED
    BY <1>1, <2>1, <2>2, Stays
<1>11. \A n \in 0..Depth : c[n + 1] = NextNear(c[n], M)
  <2> HIDE DEF c, st, Eq
  <2> SUFFICES ASSUME NEW n \in 0..Depth PROVE c[n + 1] = NextNear(c[n], M)
    OBVIOUS
  <2>1. n + 1 \in 1..m /\ n + 1 - 1 = n
    BY WarmerAssumption
  <2>2. c[n + 1] = NextNear(c[n + 1 - 1], M)
    BY <1>9, <2>1
  <2>3. QED
    BY <2>1, <2>2
<1>12. Near(M) = c
  BY DEF Near
<1> HIDE DEF c, V
<1>13. c \in [0..m -> V]
  BY <1>9, <1>10
<1>14. QED
  BY <1>9, <1>11, <1>12, <1>13 DEF V

\* Going further finds no less, and nothing more once a level adds nothing.
LEMMA NearGrows ==
  ASSUME NEW M, NEW n \in 0..Depth
  PROVE  Near(M)[n] \subseteq Near(M)[n + 1]
BY NearRec DEF NextNear

LEMMA NearSettles ==
  ASSUME NEW M, NEW n \in 0..Depth, Near(M)[n + 1] = Near(M)[n]
  PROVE  \A k \in n..(Depth + 1) : Near(M)[k] = Near(M)[n]
<1> DEFINE m == Depth + 1 - n
           T == {i \in 0..m : Near(M)[n + i] = Near(M)[n]}
<1>1. m \in Nat /\ n \in Nat /\ Depth \in Nat
  BY WarmerAssumption
<1>2. T \in SUBSET (0..m) /\ 0 \in T
  BY <1>1
<1>3. ASSUME NEW i \in T, i < m PROVE i + 1 \in T
  <2>1. n + i \in 0..Depth /\ i + 1 \in 0..m /\ n + (i + 1) = (n + i) + 1
    BY <1>1, <1>3
  <2>2. Near(M)[(n + i) + 1] = NextNear(Near(M)[n + i], M)
    BY <2>1, NearRec
  <2>3. Near(M)[n + 1] = NextNear(Near(M)[n], M)
    BY NearRec
  <2>4. Near(M)[n + i] = Near(M)[n]
    BY <1>3
  <2>5. Near(M)[n + (i + 1)] = Near(M)[n]
    BY <2>1, <2>2, <2>3, <2>4
  <2>6. QED
    BY <2>1, <2>5
<1>4. T = 0..m
  <2> HIDE DEF T, m
  <2>1. QED
    BY <1>1, <1>2, <1>3, Induct
<1>5. ASSUME NEW k \in n..(Depth + 1) PROVE Near(M)[k] = Near(M)[n]
  <2>1. k - n \in 0..m /\ n + (k - n) = k
    BY <1>1
  <2>2. \A i \in 0..m : Near(M)[n + i] = Near(M)[n]
    BY <1>4
  <2>3. Near(M)[n + (k - n)] = Near(M)[n]
    <3> HIDE DEF T, m
    <3>1. QED
      BY <2>1, <2>2
  <2>4. QED
    BY <2>1, <2>3
<1>6. QED
  BY <1>5

\* A directory that fails changes nothing up to the level below its own.
LEMMA NearButOne ==
  ASSUME NEW M, NEW d, NEW n \in 0..(Depth + 1),
         n > 0 => d \notin Near(M)[n - 1]
  PROVE  \A k \in 0..n : Near(M \cup {d})[k] = Near(M)[k]
<1> DEFINE T == {k \in 0..n : Near(M \cup {d})[k] = Near(M)[k]}
<1>1. n \in Nat /\ Depth \in Nat
  BY WarmerAssumption
<1>2. T \in SUBSET (0..n) /\ 0 \in T
  <2>1. Near(M \cup {d})[0] = Roots /\ Near(M)[0] = Roots
    BY NearRec
  <2>2. QED
    BY <2>1, <1>1
<1>3. \A k \in 0..n : k < n => d \notin Near(M)[k]
  <2> DEFINE F == {i \in 0..(n - 1) : d \notin Near(M)[n - 1 - i]}
  <2> SUFFICES ASSUME NEW k \in 0..n, k < n PROVE d \notin Near(M)[k]
    OBVIOUS
  <2>1. n - 1 \in Nat /\ F \in SUBSET (0..(n - 1)) /\ 0 \in F
    BY <1>1
  <2>2. ASSUME NEW i \in F, i < n - 1 PROVE i + 1 \in F
    <3>1. /\ n - 1 - (i + 1) \in 0..Depth /\ i + 1 \in 0..(n - 1)
          /\ (n - 1 - (i + 1)) + 1 = n - 1 - i
      BY <1>1, <2>2
    <3>2. Near(M)[n - 1 - (i + 1)] \subseteq Near(M)[n - 1 - i]
      <4>1. Near(M)[n - 1 - (i + 1)] \subseteq Near(M)[(n - 1 - (i + 1)) + 1]
        BY <3>1, NearGrows
      <4>2. QED
        BY <3>1, <4>1
    <3>3. d \notin Near(M)[n - 1 - i]
      BY <2>2
    <3>4. QED
      BY <3>1, <3>2, <3>3
  <2>3. F = 0..(n - 1)
    <3> DEFINE l == n - 1
    <3>1. l \in Nat /\ F \in SUBSET (0..l) /\ 0 \in F
          /\ \A i \in F : i < l => i + 1 \in F
      BY <2>1, <2>2
    <3>2. F = 0..l
      <4> HIDE DEF F, l
      <4>1. QED
        BY <3>1, Induct
    <3>3. QED
      BY <3>2
  <2>4. n - 1 - k \in F /\ n - 1 - (n - 1 - k) = k
    BY <2>1, <2>3
  <2>5. QED
    BY <2>4
<1>4. ASSUME NEW k \in T, k < n PROVE k + 1 \in T
  <2>1. k \in 0..Depth /\ k + 1 \in 0..n
    BY <1>1, <1>4
  <2>2. /\ Near(M)[k + 1] = NextNear(Near(M)[k], M)
        /\ Near(M \cup {d})[k + 1] = NextNear(Near(M \cup {d})[k], M \cup {d})
    BY <2>1, NearRec
  <2>3. Near(M \cup {d})[k] = Near(M)[k] /\ d \notin Near(M)[k]
    BY <1>3, <1>4
  <2>4. Near(M)[k] \ (M \cup {d}) = Near(M)[k] \ M
    BY <2>3
  <2>5. Near(M \cup {d})[k + 1] = Near(M)[k + 1]
    BY <2>2, <2>3, <2>4 DEF NextNear
  <2>6. QED
    BY <2>1, <2>5
<1>5. T = 0..n
  <2> HIDE DEF T
  <2>1. QED
    BY <1>1, <1>2, <1>4, Induct
<1>6. QED
  BY <1>5

-----------------------------------------------------------------------------
(* The walk.  As long as the cap is not reached, a pass that is at level n  *)
(* has visited all that is nearer than n, and its frontier is what lies at  *)
(* n exactly.  A listing that fails late changes nothing of this: visits    *)
(* that are still under way are of the last level begun (AskingIsLast).     *)

Upto(n) == Near(missed)[n]

\* Who is still asking: visits of the batch, or what is left of one after stop.
AskingIsLast ==
  asking # {} =>
    /\ visited < maxDirs /\ asking \subseteq frontier
    /\ level > 0 => frontier \cap Upto(level - 1) = {}
    /\ IF loop = "batch" THEN asking \subseteq batch
                         ELSE stop /\ loop # "level"

BatchIsFrontier ==
  loop = "batch" =>
    /\ visited < maxDirs /\ batch \subseteq frontier
    /\ batch = frontier \/ Cardinality(batch) = maxDirs - visited

FrontierIsNext ==
  loop \in {"level", "batch"} /\ visited < maxDirs =>
    /\ seen = Upto(level)
    /\ level = 0 => frontier = Roots
    /\ level > 0 => frontier = Upto(level) \ Upto(level - 1)

WalkIsNear ==
  /\ level = 0 => walk = {}
  /\ level > 0 => walk \subseteq Upto(level - 1)
  /\ level > 1 => Upto(level - 2) \subseteq walk
  /\ level > 0 /\ visited < maxDirs => walk = Upto(level - 1)

WalkInv ==
  /\ walk \subseteq Dirs /\ visited = Cardinality(walk)
  /\ cancelled # {} => stop
  /\ AskingIsLast /\ BatchIsFrontier /\ FrontierIsNext /\ WalkIsNear
  /\ loop = "wait" /\ ~stop => walk = Upto(Depth) \/ visited = maxDirs

LEMMA WalkInit == Init => WalkInv
<1> SUFFICES ASSUME Init PROVE WalkInv
  OBVIOUS
<1>1. /\ walk = {} /\ visited = 0 /\ cancelled = {} /\ asking = {}
      /\ loop = "off" /\ level = 0
  BY DEF Init
<1>2. Cardinality({}) = 0
  BY FS_EmptySet
<1>3. QED
  BY <1>1, <1>2
     DEF WalkInv, AskingIsLast, BatchIsFrontier, FrontierIsNext, WalkIsNear

\* The steps that leave the walk and the failures alone.
LEMMA WalkSame ==
  ASSUME TypeOK, WalkInv, UNCHANGED <<passVars, maxDirs, missed>>,
         asking' \subseteq asking, batch' = batch \/ batch' = {},
         cancelled' # {} => stop', stop => stop',
         \/ loop' = loop
         \/ loop \in {"off", "wait"} /\ loop' = "top"
         \/ loop = "top" /\ loop' = "done",
         loop' = loop => batch' = batch
  PROVE  WalkInv'
<1>1. Near(missed)' = Near(missed)
  BY DEF Near
<1>2. AskingIsLast'
  BY <1>1 DEF TypeOK, WalkInv, AskingIsLast, Upto, passVars
<1>3. BatchIsFrontier' /\ FrontierIsNext' /\ WalkIsNear'
  BY <1>1 DEF TypeOK, WalkInv, BatchIsFrontier, FrontierIsNext, WalkIsNear,
              Upto, passVars
<1>4. QED
  BY <1>1, <1>2, <1>3 DEF WalkInv, Upto, passVars

LEMMA WalkPass ==
  ASSUME TypeOK, WalkInv, Pass
  PROVE  WalkInv'
<1>1. /\ asking = {} /\ asking' = {} /\ cancelled' = cancelled /\ stop' = stop
      /\ loop' = "level" /\ level' = 0 /\ visited' = 0
      /\ frontier' = Roots /\ seen' = Roots /\ walk' = {} /\ missed' = {}
  BY DEF Pass, WalkInv, AskingIsLast, poolVars, stopVars
<1>2. Near({})[0] = Roots
  BY NearRec
<1>3. Cardinality({}) = 0
  BY FS_EmptySet
<1>4. QED
  BY <1>1, <1>2, <1>3
     DEF WalkInv, AskingIsLast, BatchIsFrontier, FrontierIsNext, WalkIsNear,
         Upto

LEMMA WalkSubmit ==
  ASSUME TypeOK, WalkInv, Submit
  PROVE  WalkInv'
<1>1. Near(missed)' = Near(missed)
  BY DEF Near, Submit, cacheVars
<1>2. PICK b \in SUBSET frontier :
        /\ IF Cardinality(frontier) =< maxDirs - visited
             THEN b = frontier
             ELSE Cardinality(b) = maxDirs - visited
        /\ batch' = b
  BY DEF Submit
<1>3. /\ loop = "level" /\ loop' = "batch" /\ visited < maxDirs
      /\ asking = {} /\ asking' = {}
      /\ UNCHANGED <<passVars, maxDirs, missed, cancelled, stop>>
  BY DEF Submit, WalkInv, AskingIsLast, stopVars, cacheVars
<1>4. BatchIsFrontier'
  BY <1>2, <1>3 DEF BatchIsFrontier, passVars
<1>5. FrontierIsNext' /\ WalkIsNear' /\ AskingIsLast'
  BY <1>1, <1>3 DEF WalkInv, FrontierIsNext, WalkIsNear, AskingIsLast, Upto,
                    passVars
<1>6. QED
  BY <1>1, <1>3, <1>4, <1>5 DEF WalkInv, Upto, passVars

LEMMA WalkEndPass ==
  ASSUME TypeOK, WalkInv, EndPass, loop \in {"level", "batch"},
         ~stop => walk = Upto(Depth) \/ visited = maxDirs,
         asking # {} => stop
  PROVE  WalkInv'
<1>1. Near(missed)' = Near(missed)
  BY DEF Near, EndPass
<1>2. /\ loop' = "wait" /\ batch' = {} /\ cancelled' = {}
      /\ UNCHANGED <<passVars, maxDirs, missed, stop, asking>>
  BY DEF EndPass, stopVars
<1>3. AskingIsLast'
  BY <1>1, <1>2 DEF WalkInv, AskingIsLast, Upto, passVars
<1>4. BatchIsFrontier' /\ FrontierIsNext' /\ WalkIsNear'
  BY <1>1, <1>2 DEF WalkInv, BatchIsFrontier, FrontierIsNext, WalkIsNear, Upto,
                    passVars
<1>5. QED
  BY <1>1, <1>2, <1>3, <1>4 DEF WalkInv, Upto, passVars

\* A pass that finds no level to go on with has seen all there is.
LEMMA WalkNoLevelLeft ==
  ASSUME TypeOK, WalkInv, NoLevelLeft
  PROVE  WalkInv'
<1>1. loop = "level" /\ EndPass /\ asking = {}
  BY DEF NoLevelLeft, WalkInv, AskingIsLast
<1>2. ASSUME ~stop, visited # maxDirs PROVE walk = Upto(Depth)
  <2>1. visited < maxDirs /\ level \in 0..(Depth + 1) /\ Depth \in Nat
    BY <1>2, WarmerAssumption DEF TypeOK
  <2>2. /\ level = 0 => walk = {} /\ frontier = Roots
        /\ level > 0 => /\ walk = Upto(level - 1)
                        /\ frontier = Upto(level) \ Upto(level - 1)
    BY <1>1, <2>1 DEF WalkInv, FrontierIsNext, WalkIsNear
  <2>3. CASE level > Depth
    <3>1. level - 1 = Depth /\ level > 0
      BY <2>1, <2>3
    <3>2. QED
      BY <3>1, <2>2
  <2>4. CASE level =< Depth
    <3>1. frontier = {}
      BY <1>2, <2>1, <2>4 DEF NoLevelLeft
    <3>2. CASE level = 0
      <4>1. Near(missed)[0] = {}
        BY <2>2, <3>1, <3>2, NearRec
      <4>2. Near(missed)[0 + 1] = {} /\ 0 \in 0..Depth
        BY <4>1, <2>1, NearRec DEF NextNear
      <4>3. Near(missed)[Depth] = Near(missed)[0]
        BY <4>1, <4>2, <2>1, NearSettles
      <4>4. QED
        BY <4>1, <4>3, <2>2, <3>2 DEF Upto
    <3>3. CASE level # 0
      <4> DEFINE n == level - 1
      <4>1. n \in 0..Depth /\ n + 1 = level /\ Depth \in n..(Depth + 1)
            /\ level > 0
        BY <2>1, <2>4, <3>3
      <4>2. walk = Near(missed)[n]
        BY <2>2, <4>1 DEF Upto
      <4>3. Near(missed)[n + 1] \subseteq Near(missed)[n]
        BY <2>2, <3>1, <4>1 DEF Upto
      <4> HIDE DEF n
      <4>4. Near(missed)[n + 1] = Near(missed)[n]
        BY <4>1, <4>3, NearGrows
      <4>5. Near(missed)[Depth] = Near(missed)[n]
        BY <4>1, <4>4, NearSettles
      <4>6. QED
        BY <4>2, <4>5 DEF Upto
    <3>4. QED
      BY <3>2, <3>3
  <2>5. QED
    BY <2>1, <2>3, <2>4
<1>3. QED
  BY <1>1, <1>2, WalkEndPass

\* The answers of a level are in: the next one is what they add.
LEMMA WalkLevelDone ==
  ASSUME TypeOK, WalkInv, LevelDone
  PROVE  WalkInv'
<1>1. Near(missed)' = Near(missed) /\ missed' = missed
  BY DEF Near, LevelDone, cacheVars
<1>2. /\ loop = "batch" /\ loop' = "level" /\ level' = level + 1
      /\ visited' = visited + Cardinality(batch) /\ walk' = walk \cup batch
      /\ frontier' = (UNION {Children[d] : d \in batch \ missed}) \ seen
      /\ seen' = seen \cup frontier' /\ maxDirs' = maxDirs
      /\ asking' = asking /\ cancelled' = {} /\ stop' = stop
  BY DEF LevelDone, stopVars
<1>3. asking = {}
  BY <1>2 DEF LevelDone, WalkInv, AskingIsLast
<1>4. /\ visited < maxDirs /\ batch \subseteq frontier
      /\ batch = frontier \/ Cardinality(batch) = maxDirs - visited
      /\ seen = Upto(level)
      /\ level = 0 => frontier = Roots /\ walk = {}
      /\ level > 0 => /\ frontier = Upto(level) \ Upto(level - 1)
                      /\ walk = Upto(level - 1)
      /\ walk \subseteq Dirs /\ visited = Cardinality(walk)
  BY <1>2 DEF WalkInv, BatchIsFrontier, FrontierIsNext, WalkIsNear
<1>5. /\ level \in 0..Depth /\ Depth \in Nat /\ maxDirs \in Nat /\ visited \in Nat
      /\ batch \subseteq Dirs
  BY <1>2, WarmerAssumption DEF TypeOK
<1>6. /\ Upto(level + 1) = NextNear(Upto(level), missed)
      /\ level > 0 => /\ Upto(level) = NextNear(Upto(level - 1), missed)
                      /\ Upto(level - 1) \subseteq Upto(level)
      /\ Upto(0) = Roots
  <2>1. Upto(level + 1) = NextNear(Upto(level), missed) /\ Upto(0) = Roots
    BY <1>5, NearRec DEF Upto
  <2>2. ASSUME level > 0
        PROVE  /\ Upto(level) = NextNear(Upto(level - 1), missed)
               /\ Upto(level - 1) \subseteq Upto(level)
    <3>1. level - 1 \in 0..Depth /\ (level - 1) + 1 = level
      BY <1>5, <2>2
    <3>2. /\ Near(missed)[(level - 1) + 1]
               = NextNear(Near(missed)[level - 1], missed)
          /\ Near(missed)[level - 1] \subseteq Near(missed)[(level - 1) + 1]
      BY <3>1, NearRec, NearGrows
    <3>3. QED
      BY <3>1, <3>2 DEF Upto
  <2>3. QED
    BY <2>1, <2>2
<1>7. walk \cap batch = {} /\ walk \cup frontier = Upto(level)
  BY <1>4, <1>5, <1>6
<1>8. visited' = Cardinality(walk')
  <2>1. /\ IsFiniteSet(walk) /\ IsFiniteSet(batch)
        /\ Cardinality(walk) \in Nat /\ Cardinality(batch) \in Nat
    BY <1>4, <1>5, FiniteDirs
  <2>2. Cardinality(walk \cup batch) = Cardinality(walk) + Cardinality(batch)
    BY <1>7, <2>1, FS_EmptySet, FS_Union
  <2>3. QED
    BY <1>2, <1>4, <2>2
<1>9. ASSUME visited' < maxDirs'
      PROVE  /\ walk' = Upto(level)
             /\ seen' = Upto(level + 1)
             /\ frontier' = Upto(level + 1) \ Upto(level)
  <2>1. batch = frontier
    <3>1. Cardinality(batch) \in Nat
      BY <1>5, FiniteDirs
    <3>2. QED
      BY <3>1, <1>2, <1>4, <1>5, <1>9
  <2>2. walk' = Upto(level)
    BY <2>1, <1>2, <1>7
  <2>3. UNION {Children[d] : d \in walk \ missed} \subseteq Upto(level)
    BY <1>4, <1>5, <1>6 DEF NextNear
  <2>4. Upto(level + 1) = Upto(level) \cup
          ((UNION {Children[d] : d \in walk \ missed})
           \cup (UNION {Children[d] : d \in frontier \ missed}))
    BY <1>6, <1>7 DEF NextNear
  <2>5. frontier' = (UNION {Children[d] : d \in frontier \ missed}) \ Upto(level)
    BY <2>1, <1>2, <1>4
  <2> DEFINE A == UNION {Children[d] : d \in walk \ missed}
             B == UNION {Children[d] : d \in frontier \ missed}
             U == Upto(level)
  <2>6. A \subseteq U
    BY <2>3
  <2>10. Upto(level + 1) = U \cup (A \cup B)
    BY <2>4
  <2>11. frontier' = B \ U
    BY <2>5
  <2>12. seen' = U \cup frontier'
    BY <1>2, <1>4
  <2> HIDE DEF A, B, U
  <2>7. seen' = Upto(level + 1) /\ frontier' = Upto(level + 1) \ U
    BY <2>6, <2>10, <2>11, <2>12
  <2>8. QED
    BY <2>2, <2>7 DEF U
<1>10. Upto(level)' = Near(missed)[level + 1] /\ (level + 1) - 1 = level
       /\ (level + 1) - 2 = level - 1
  BY <1>1, <1>2, <1>5 DEF Upto
<1>11. WalkIsNear'
  <2>1. walk' \subseteq Upto(level) /\ (level > 0 => Upto(level - 1) \subseteq walk')
    BY <1>2, <1>4, <1>7
  <2>2. level' > 0 /\ level' - 1 = level /\ level' - 2 = level - 1
        /\ (level' > 1 => level > 0)
    BY <1>2, <1>5
  <2>3. QED
    BY <1>1, <1>9, <2>1, <2>2 DEF WalkIsNear, Upto
<1>12. FrontierIsNext'
  BY <1>1, <1>2, <1>5, <1>9 DEF FrontierIsNext, Upto
<1>13. AskingIsLast' /\ BatchIsFrontier'
  BY <1>2, <1>3 DEF AskingIsLast, BatchIsFrontier
<1>14. QED
  BY <1>2, <1>4, <1>5, <1>8, <1>11, <1>12, <1>13 DEF WalkInv

\* A listing that fails was asked for at the last level begun.
LEMMA WalkFail ==
  ASSUME TypeOK, WalkInv, NEW d \in Dirs, Fail(d)
  PROVE  WalkInv'
<1>1. /\ d \in asking /\ asking' = asking \ {d} /\ missed' = missed \cup {d}
      /\ UNCHANGED <<loop, maxDirs, passVars, batch, cancelled, stop>>
  BY DEF Fail, Asked, stopVars
<1>2. /\ visited < maxDirs /\ d \in frontier
      /\ level > 0 => d \notin Upto(level - 1)
      /\ loop # "batch" => stop /\ loop # "level"
      /\ level \in 0..(Depth + 1) /\ Depth \in Nat
  BY <1>1, WarmerAssumption DEF WalkInv, AskingIsLast, TypeOK
<1>3. \A k \in 0..level : Near(missed \cup {d})[k] = Near(missed)[k]
  BY <1>2, NearButOne DEF Upto
<1>4. \A k \in 0..level : Near(missed)'[k] = Near(missed)[k]
  BY <1>1, <1>3
<1>5. /\ level' = level
      /\ Upto(level)' = Upto(level)
      /\ level > 0 => Near(missed)'[level - 1] = Upto(level - 1)
      /\ level > 1 => Near(missed)'[level - 2] = Upto(level - 2)
  <2>1. level' = level
    BY <1>1 DEF passVars
  <2>2. /\ level \in 0..level
        /\ level > 0 => level - 1 \in 0..level
        /\ level > 1 => level - 2 \in 0..level
    BY <1>2
  <2>3. QED
    BY <2>1, <2>2, <1>4 DEF Upto
<1>6. AskingIsLast'
  BY <1>1, <1>5 DEF WalkInv, AskingIsLast, Upto, passVars
<1>7. BatchIsFrontier'
  BY <1>1 DEF WalkInv, BatchIsFrontier, passVars
<1>8. FrontierIsNext' /\ WalkIsNear'
  BY <1>1, <1>5 DEF WalkInv, FrontierIsNext, WalkIsNear, Upto, passVars
<1>9. QED
  BY <1>1, <1>2, <1>6, <1>7, <1>8 DEF WalkInv, passVars

LEMMA WalkAsk ==
  ASSUME TypeOK, WalkInv, NEW d \in Dirs, Ask(d)
  PROVE  WalkInv'
<1>1. /\ d \in batch /\ loop = "batch" /\ asking' = asking \cup {d}
      /\ UNCHANGED <<loop, maxDirs, passVars, batch, cancelled, stop, missed>>
  BY DEF Ask, TypeOK, stopVars, cacheVars
<1>2. Near(missed)' = Near(missed)
  BY <1>1 DEF Near
<1>3. /\ visited < maxDirs /\ batch \subseteq frontier
      /\ level > 0 => frontier \cap Upto(level - 1) = {}
      /\ asking \subseteq batch
  BY <1>1 DEF WalkInv, BatchIsFrontier, FrontierIsNext, AskingIsLast
<1>4. AskingIsLast'
  BY <1>1, <1>2, <1>3 DEF AskingIsLast, Upto, passVars
<1>5. BatchIsFrontier' /\ FrontierIsNext' /\ WalkIsNear'
  BY <1>1, <1>2 DEF WalkInv, BatchIsFrontier, FrontierIsNext, WalkIsNear, Upto,
                    passVars
<1>6. QED
  BY <1>1, <1>2, <1>4, <1>5 DEF WalkInv, Upto, passVars

LEMMA WalkStep ==
  ASSUME TypeOK, WalkInv, [Next]_vars
  PROVE  WalkInv'
<1>1. CASE Start \/ Finish \/ Wake
  BY <1>1, WalkSame DEF WalkInv, Start, Finish, Wake, poolVars, stopVars,
                        cacheVars
<1>2. CASE Pass
  BY <1>2, WalkPass
<1>3. CASE Submit
  BY <1>3, WalkSubmit
<1>4. CASE NoLevelLeft
  BY <1>4, WalkNoLevelLeft
<1>5. CASE SubmitRaises
  <2>1. stop /\ EndPass /\ loop = "level"
    BY <1>5 DEF SubmitRaises, TypeOK
  <2>2. QED
    BY <2>1, WalkEndPass
<1>6. CASE LevelRaises
  <2>1. stop /\ EndPass /\ loop = "batch"
    BY <1>6 DEF LevelRaises, WalkInv
  <2>2. QED
    BY <2>1, WalkEndPass
<1>7. CASE LevelDone
  BY <1>7, WalkLevelDone
<1>8. ASSUME NEW d \in Dirs, Visit(d) PROVE WalkInv'
  <2>1. CASE Hit(d)
    BY <2>1, WalkSame DEF WalkInv, Hit, stopVars
  <2>2. CASE Ask(d)
    BY <2>2, WalkAsk
  <2>3. CASE Answer(d) \/ AnswerTooLarge(d)
    BY <2>3, WalkSame DEF WalkInv, Answer, AnswerTooLarge, Asked, stopVars
  <2>4. CASE Fail(d)
    BY <2>4, WalkFail
  <2>5. QED
    BY <1>8, <2>1, <2>2, <2>3, <2>4 DEF Visit
<1>9. CASE \/ RequestStop \/ StopReturns \/ Tick \/ Flip \/ UNCHANGED vars
           \/ \E d \in Dirs : Browse(d) \/ Evict(d)
  BY <1>9, WalkSame DEF WalkInv, RequestStop, StopReturns, Tick, Flip, vars,
       Browse, Evict, poolVars, stopVars, cacheVars
<1>10. CASE ShutPool
  BY <1>10, WalkSame DEF WalkInv, TypeOK, ShutPool, cacheVars
<1>11. QED
  BY <1>1, <1>2, <1>3, <1>4, <1>5, <1>6, <1>7, <1>8, <1>9, <1>10
     DEF Next, Loop, Stopping, Gone

\* A pass visits every directory once, and nearer ones first, whatever fails
\* on the way; one that ends by itself has visited all that it could see down
\* to the depth, or as many as the cap allows (warmer.py:99-147).
THEOREM WalkIsBreadthFirst == Spec => []PassIsBreadthFirst
<1>1. Init => TypeOK /\ WalkInv
  BY TypeInit, WalkInit
<1>2. TypeOK /\ WalkInv /\ [Next]_vars => (TypeOK /\ WalkInv)'
  BY TypeStep, WalkStep
<1>3. TypeOK /\ WalkInv => PassIsBreadthFirst
  BY WarmerAssumption DEF TypeOK, WalkInv, WalkIsNear, Upto, PassIsBreadthFirst
<1>4. QED
  BY <1>1, <1>2, <1>3, PTL DEF Spec
=============================================================================
