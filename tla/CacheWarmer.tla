---------------------------- MODULE CacheWarmer ----------------------------
(***************************************************************************)
(* catwalk/warmer.py and warm_listing of catalog.py: the scheduler thread  *)
(* that walks the directories under the warm roots breadth-first, pass     *)
(* after pass, the pool that looks at the listings of one level, and the   *)
(* shutdown that ends both.                                                *)
(*                                                                         *)
(* Time passes in ticks, at any moment.  Of the listing cache only the     *)
(* unfiltered entries of the current epoch are kept, as the ticks each has *)
(* left to live.  The order of a frontier is the order of the catalog's    *)
(* rows, which is arbitrary: a frontier is a set, and its first n members  *)
(* are any n of them.  Queries wait at the gate and end, one way or other. *)
(***************************************************************************)
EXTENDS Integers, FiniteSets

CONSTANTS Dirs,        \* the directories
          Roots,       \* self.paths
          Children,    \* the directories that a listing shows
          Depth, Threads,
          Caps,        \* values of max_dirs
          TTL,         \* of the listing cache
          Interval,    \* between two passes
          Margin       \* _PASS_MARGIN_SECS

ASSUME WarmerAssumption ==
  /\ IsFiniteSet(Dirs) /\ Roots \subseteq Dirs
  /\ Children \in [Dirs -> SUBSET Dirs]
  /\ Depth \in Nat /\ Threads \in Nat \ {0} /\ Caps \subseteq Nat \ {0}
  /\ TTL \in Nat \ {0} /\ Interval \in Nat /\ Margin \in Nat

\* The time that passes may take before the entries they leave go cold.
Slack == IF TTL =< Interval THEN 0
         ELSE IF Margin < TTL - Interval THEN Margin ELSE TTL - Interval

VARIABLES
  loop,        \* where the scheduler thread is
  maxDirs, level, visited, frontier, seen,    \* run_pass, its locals
  batch, queued, asking, cancelled,           \* the level in the pool
  stop, closed, stopper,                      \* _stop, the pool, stop()
  timer,       \* ticks left of _stop.wait(interval)
  life,        \* ticks left to the entry of each directory, 0: no entry
  old,         \* queries made for an epoch that has passed
  walk, missed,  \* history: what this pass visited, and failed to list
  fresh,       \* history: directories that this pass left with an entry
  lag          \* history: ticks since a visit of this pass or of the last
               \* left an entry, the wait not counted; Slack when there was
               \* none, or something other than time took its entry

passVars  == <<level, visited, frontier, seen, walk>>
poolVars  == <<batch, queued, asking, cancelled>>
stopVars  == <<stop, closed, stopper>>
cacheVars == <<life, old, missed, fresh, lag>>
vars == <<loop, maxDirs, timer, passVars, poolVars, stopVars, cacheVars>>

TypeOK ==
  /\ loop \in {"off", "top", "level", "batch", "wait", "done"}
  /\ maxDirs \in Caps /\ level \in 0..(Depth + 1)
  /\ visited \in 0..maxDirs /\ Cardinality(batch) =< maxDirs - visited
  /\ frontier \subseteq seen /\ seen \subseteq Dirs
  /\ batch \subseteq Dirs /\ queued \subseteq batch
  /\ asking \subseteq Dirs /\ cancelled \subseteq batch
  /\ Cardinality(asking) =< Threads
  /\ stop \in BOOLEAN /\ closed \in BOOLEAN
  /\ stopper \in {"no", "joining", "draining", "gone"}
  /\ timer \in 0..Interval
  /\ life \in [Dirs -> 0..TTL] /\ lag \in [Dirs -> 0..Slack]
  /\ old \subseteq asking /\ walk \subseteq Dirs /\ missed \subseteq Dirs
  /\ fresh \subseteq Dirs
  /\ loop = "batch" => level =< Depth
  /\ loop # "batch" => batch = {}
  /\ stopper # "no" => stop
  /\ closed => stopper # "no" /\ queued = {}

Init ==
  /\ loop = "off" /\ maxDirs \in Caps /\ level = 0 /\ visited = 0
  /\ frontier = {} /\ seen = {}
  /\ batch = {} /\ queued = {} /\ asking = {} /\ cancelled = {}
  /\ stop = FALSE /\ closed = FALSE /\ stopper = "no" /\ timer = 0
  /\ life = [d \in Dirs |-> 0] /\ lag = [d \in Dirs |-> Slack]
  /\ old = {} /\ walk = {} /\ missed = {} /\ fresh = {}

\* A visit leaves an entry for d; the entries of S go, or never came.
Leave(d) ==
  lag' = [lag EXCEPT ![d] = 0] /\ fresh' = fresh \cup {d}
Lose(S) ==
  /\ lag' = [d \in Dirs |-> IF d \in S THEN Slack ELSE lag[d]]
  /\ fresh' = fresh \ S

-----------------------------------------------------------------------------
(* The scheduler thread.                                                   *)

Start ==
  /\ loop = "off"
  /\ loop' = "top"
  /\ UNCHANGED <<maxDirs, timer, passVars, poolVars, stopVars, cacheVars>>

Pass ==
  /\ loop = "top" /\ ~stop
  /\ loop' = "level" /\ level' = 0 /\ visited' = 0
  /\ frontier' = Roots /\ seen' = Roots
  /\ walk' = {} /\ missed' = {} /\ fresh' = {}
  /\ UNCHANGED <<maxDirs, timer, poolVars, stopVars, life, old, lag>>

Finish ==
  /\ loop = "top" /\ stop
  /\ loop' = "done"
  /\ UNCHANGED <<maxDirs, timer, passVars, poolVars, stopVars, cacheVars>>

\* A batch of the frontier, as much of it as the cap leaves room for.
Submit ==
  /\ loop = "level" /\ level =< Depth /\ ~stop
  /\ frontier # {} /\ visited < maxDirs
  /\ \E b \in SUBSET frontier :
       /\ IF Cardinality(frontier) =< maxDirs - visited
            THEN b = frontier
            ELSE Cardinality(b) = maxDirs - visited
       /\ batch' = b /\ queued' = b
  /\ loop' = "batch"
  /\ UNCHANGED <<maxDirs, timer, passVars, asking, cancelled, stopVars,
                 cacheVars>>

\* The pass is over, and promises nothing for what it left no entry for.
EndPass ==
  /\ loop' = "wait" /\ timer' = Interval
  /\ batch' = {} /\ queued' = {} /\ cancelled' = {}
  /\ Lose(Dirs \ fresh)
  /\ UNCHANGED <<maxDirs, passVars, asking, stopVars, life, old, missed>>

NoLevelLeft ==
  /\ loop = "level"
  /\ frontier = {} \/ stop \/ level > Depth \/ visited = maxDirs
  /\ EndPass

\* pool.map on a pool that was shut down raises, and _loop swallows it; the
\* stop flag may have been set after the level looked at it.
SubmitRaises ==
  /\ loop = "level" /\ level =< Depth
  /\ frontier # {} /\ visited < maxDirs /\ closed
  /\ EndPass

\* All answers are in: the next frontier is what they name for the first time.
\* Mutation: no set of the directories seen.
LevelDoneAgain ==
  /\ loop = "batch" /\ queued = {} /\ cancelled = {}
  /\ batch \cap asking = {}
  /\ loop' = "level" /\ level' = level + 1
  /\ visited' = visited + Cardinality(batch) /\ walk' = walk \cup batch
  /\ frontier' = UNION {Children[d] : d \in batch \ missed}
  /\ seen' = seen \cup frontier' /\ batch' = {}
  /\ UNCHANGED <<maxDirs, timer, queued, asking, cancelled, stopVars,
                 cacheVars>>
LevelDone ==
  /\ loop = "batch" /\ queued = {} /\ cancelled = {}
  /\ batch \cap asking = {}
  /\ loop' = "level" /\ level' = level + 1
  /\ visited' = visited + Cardinality(batch) /\ walk' = walk \cup batch
  /\ frontier' = (UNION {Children[d] : d \in batch \ missed}) \ seen
  /\ seen' = seen \cup frontier'
  /\ batch' = {}
  /\ UNCHANGED <<maxDirs, timer, queued, asking, cancelled, stopVars,
                 cacheVars>>

\* A visit that was cancelled raises in run_pass.
LevelRaises ==
  /\ loop = "batch" /\ cancelled # {}
  /\ EndPass

\* Mutation: _stop.wait() without a timeout.
WakeToStop ==
  /\ loop = "wait" /\ stop
  /\ loop' = "top"
  /\ UNCHANGED <<maxDirs, timer, passVars, poolVars, stopVars, cacheVars>>
Wake ==
  /\ loop = "wait" /\ (timer = 0 \/ stop)
  /\ loop' = "top"
  /\ UNCHANGED <<maxDirs, timer, passVars, poolVars, stopVars, cacheVars>>

-----------------------------------------------------------------------------
(* The visits: warm_listing, on the workers of the pool.                   *)

\* Mutation: min_ttl without the margin.
LivesToTheNextPass(d) == life[d] > 0 /\ life[d] >= Interval
LivesLong(d) == life[d] > 0 /\ life[d] >= Interval + Margin

\* An entry with enough life left is used as it is...
Hit(d) ==
  /\ d \in queued /\ Cardinality(asking) < Threads /\ LivesLong(d)
  /\ queued' = queued \ {d}
  /\ Leave(d)
  /\ UNCHANGED <<loop, maxDirs, timer, passVars, batch, asking, cancelled,
                 stopVars, life, old, missed>>

\* ... any other is queried anew, for the epoch read here.
Ask(d) ==
  /\ d \in queued /\ Cardinality(asking) < Threads /\ ~LivesLong(d)
  /\ queued' = queued \ {d} /\ asking' = asking \cup {d}
  /\ UNCHANGED <<loop, maxDirs, timer, passVars, batch, cancelled, stopVars,
                 cacheVars>>

Asked(d) ==
  /\ d \in asking
  /\ asking' = asking \ {d} /\ old' = old \ {d}
  /\ UNCHANGED <<loop, maxDirs, timer, passVars, batch, queued, cancelled,
                 stopVars>>

\* The answer is put under the key of the epoch it was asked for.
Answer(d) ==
  /\ Asked(d)
  /\ IF d \in old
       THEN UNCHANGED <<life, fresh, lag>>
       ELSE life' = [life EXCEPT ![d] = TTL] /\ Leave(d)
  /\ UNCHANGED missed

\* A listing too large for the cache is not kept, and the entry it would
\* have replaced is gone.
AnswerTooLarge(d) ==
  /\ Asked(d) /\ d \notin old
  /\ life' = [life EXCEPT ![d] = 0]
  /\ Lose({d})
  /\ UNCHANGED missed

\* A query that fails shows no children, puts nothing, and leaves the entry
\* that it was to renew, if there is one, to the rest of its life.
Fail(d) ==
  /\ Asked(d)
  /\ missed' = missed \cup {d}
  /\ UNCHANGED <<life, fresh, lag>>

-----------------------------------------------------------------------------
(* stop(): set the flag, give the loop five seconds, shut the pool down,   *)
(* then wait for both.                                                     *)

RequestStop ==
  /\ loop # "off" /\ stopper = "no"
  /\ stopper' = "joining" /\ stop' = TRUE
  /\ UNCHANGED <<loop, maxDirs, timer, passVars, poolVars, closed, cacheVars>>

\* The first join is over, with the loop or with its five seconds.
\* Mutation: shutdown(wait=True) without cancel_futures.
ShutPoolOnly ==
  /\ stopper = "joining"
  /\ stopper' = "draining" /\ closed' = TRUE
  /\ UNCHANGED <<loop, maxDirs, timer, passVars, poolVars, stop, cacheVars>>
ShutPool ==
  /\ stopper = "joining"
  /\ stopper' = "draining" /\ closed' = TRUE
  /\ cancelled' = cancelled \cup queued /\ queued' = {}
  /\ UNCHANGED <<loop, maxDirs, timer, passVars, batch, asking, stop,
                 cacheVars>>

StopReturns ==
  /\ stopper = "draining" /\ asking = {} /\ loop = "done"
  /\ stopper' = "gone"
  /\ UNCHANGED <<loop, maxDirs, timer, passVars, poolVars, stop, closed,
                 cacheVars>>

Gone == stopper = "gone" /\ UNCHANGED vars

-----------------------------------------------------------------------------
(* The rest of the world, until the process is about to end.               *)

\* A wait that is over but has not woken the thread counts as lag.
Tick ==
  /\ ~stop
  /\ life' = [d \in Dirs |-> IF life[d] > 0 THEN life[d] - 1 ELSE 0]
  /\ IF loop = "wait" /\ timer > 0
       THEN timer' = timer - 1 /\ UNCHANGED lag
       ELSE /\ lag' = [d \in Dirs |-> IF lag[d] < Slack THEN lag[d] + 1
                                                        ELSE lag[d]]
            /\ UNCHANGED timer
  /\ UNCHANGED <<loop, maxDirs, passVars, poolVars, stopVars, old, missed,
                 fresh>>

\* A user's request puts the listing of d.
Browse(d) ==
  /\ ~stop
  /\ life' = [life EXCEPT ![d] = TTL]
  /\ UNCHANGED <<loop, maxDirs, timer, passVars, poolVars, stopVars, old,
                 missed, fresh, lag>>

\* The byte bound evicts the entry of d.
Evict(d) ==
  /\ ~stop /\ life[d] > 0
  /\ life' = [life EXCEPT ![d] = 0]
  /\ Lose({d})
  /\ UNCHANGED <<loop, maxDirs, timer, passVars, poolVars, stopVars, old,
                 missed>>

\* A new snapshot: no entry has its key.
Flip ==
  /\ ~stop
  /\ life' = [d \in Dirs |-> 0] /\ old' = asking
  /\ Lose(Dirs)
  /\ UNCHANGED <<loop, maxDirs, timer, passVars, poolVars, stopVars, missed>>

-----------------------------------------------------------------------------
Loop == \/ Start \/ Pass \/ Finish \/ Submit \/ NoLevelLeft \/ SubmitRaises
        \/ LevelDone \/ LevelRaises \/ Wake
Visit(d) == Hit(d) \/ Ask(d) \/ Answer(d) \/ AnswerTooLarge(d) \/ Fail(d)
Stopping == ShutPool \/ StopReturns

Next ==
  \/ Loop \/ RequestStop \/ Stopping \/ Gone \/ Tick \/ Flip
  \/ \E d \in Dirs : Visit(d) \/ Browse(d) \/ Evict(d)

Spec == Init /\ [][Next]_vars

\* Threads are scheduled, queries end and time goes on; nobody has to stop.
FairSpec ==
  /\ Spec
  /\ WF_vars(Loop) /\ WF_vars(Stopping) /\ WF_vars(Tick)
  /\ \A d \in Dirs : WF_vars(Visit(d))

-----------------------------------------------------------------------------
(* Properties.                                                             *)

\* An entry that the warmer left (by a visit of the last pass or of this one)
\* and that only time can take is there, as long as the passes since that
\* visit have not taken more than the slack: warmer.py:31 promises it without
\* that condition, but a pass that is slower lets entries go cold.
WarmStaysWarm == \A d \in Dirs : lag[d] < Slack => life[d] > 0

\* Directories at most n levels below the roots, through the ones that did not
\* fail: what a breadth-first walk to that depth finds.
Near(failed) ==
  LET near[n \in 0..(Depth + 1)] ==
        IF n = 0 THEN Roots
        ELSE near[n - 1] \cup UNION {Children[d] : d \in near[n - 1] \ failed}
  IN  near

\* A pass visits each directory once, nearest to the roots first, and stops at
\* the depth and the cap only: one that ended by itself has visited all that
\* it could see, or as many as it may.
PassIsBreadthFirst ==
  /\ visited = Cardinality(walk) /\ visited =< maxDirs
  /\ level = 0 => walk = {}
  /\ level > 0 => walk \subseteq Near(missed)[level - 1]
  /\ level > 1 => Near(missed)[level - 2] \subseteq walk
  /\ loop = "wait" /\ ~stop => walk = Near(missed)[Depth] \/ visited = maxDirs

\* Until it is asked to stop the warmer goes on: each pass ends, whatever fails
\* in it, and another one comes.  Then stop returns, whatever the pass and its
\* queries are at, and neither the thread nor a query of the warmer outlives
\* it: listings.close takes the listing service down next (app.py:113-118).
RunsUntilStopped ==
  /\ []<>(stop \/ loop = "level") /\ []<>(stop \/ loop = "wait")
  /\ stop ~> stopper = "gone"
  /\ [](stopper = "gone" => loop = "done" /\ queued \cup asking = {})

=============================================================================
