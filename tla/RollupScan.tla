----------------------------- MODULE RollupScan -----------------------------
(***************************************************************************)
(* One rollup: VastBackend.rollup_groups and the rest of                   *)
(* RollupService.compute in catwalk/catalog.py.                            *)
(*                                                                         *)
(* The job's thread reads batches of rows from a stream, has them          *)
(* aggregated by a pool of workers, at most max_pending at a time, merges  *)
(* the partial results as they complete, and seeds the child directories.  *)
(* Anything may fail on the way: the stream, a worker, a merge that meets  *)
(* too many groups, the query for the directories; and the progress        *)
(* callback raises when the job is cancelled.  A backend without           *)
(* rollup_groups (the mock) has its stream aggregated by the reader itself.*)
(*                                                                         *)
(* A batch is the function from groups to statistics that its rows add up  *)
(* to; a batch without rows is the empty function.  FolderStats without    *)
(* used and atime, which add up like bytes and mtime.                      *)
(***************************************************************************)
EXTENDS Integers, Sequences, FiniteSets, SequencesExt, FiniteSetsExt

CONSTANTS Groups,       \* keys of groups
          Batches,      \* batches that a stream may hold
          Streams,      \* streams of batches that a scan may return
          MaxBatches,   \* bound on the length of a stream
          DirSets,      \* sets of child directories that a path may have
          Threads,      \* rollup_threads
          MaxGroups,    \* rollup_max_groups
          ResponseChildren,  \* rollup_response_children
          NoResult      \* the rollup has not succeeded

NoTime == 0             \* None: older than any time
Stats  == [files : Nat, bytes : Nat, newest : Nat]
Zero   == [files |-> 0, bytes |-> 0, newest |-> NoTime]
MaxPending == 2 * Threads

ASSUME RollupAssumption ==
  /\ MaxBatches \in Nat /\ Threads \in Nat \ {0} /\ MaxGroups \in Nat \ {0}
  /\ ResponseChildren \in 1..MaxGroups
  /\ Streams \subseteq UNION {[1..n -> Batches] : n \in 0..MaxBatches}
  /\ IsFiniteSet(Groups) /\ DirSets \subseteq SUBSET Groups
  /\ \A b \in Batches : DOMAIN b \subseteq Groups
                        /\ \A g \in DOMAIN b : b[g] \in Stats /\ b[g].files > 0
  /\ NoResult \notin [rows : Nat, totals : Stats,
                      children : Seq([name : Groups, stats : Stats])]

VARIABLES
  stream, dirs,   \* what the catalog holds under the path
  pooled,         \* the backend has rollup_groups
  pos,            \* the next batch
  future,         \* the aggregation future of each batch
  pending,        \* the futures that the reader has not dealt with
  groups, total,  \* merged so far: statistics by group, rows
  fed,            \* rows handed to the workers: the reported progress
  pc,             \* where the reader is
  outcome,        \* how the rollup ended
  result          \* what it returned and cached

catalog == <<stream, dirs, pooled>>
vars == <<catalog, pos, future, pending, groups, total, fed, pc, outcome,
          result>>

ControlTypeOK ==
  /\ stream \in Streams /\ dirs \in DirSets /\ pooled \in BOOLEAN
  /\ pos \in 1..(Len(stream) + 1)
  /\ future \in [1..MaxBatches -> {"none", "pending", "running", "done",
                                   "wide", "failed", "cancelled"}]
  /\ pending \subseteq 1..(pos - 1)
  /\ pc \in {"read", "wait", "drain", "unwind", "seed", "report", "over"}
  /\ outcome \in {"none", "ok", "wide", "failed"}

(* The type invariant.  No more groups are kept than are allowed.          *)
TypeOK ==
  /\ ControlTypeOK
  /\ DOMAIN groups \subseteq Groups /\ Cardinality(DOMAIN groups) =< MaxGroups
  /\ \A g \in DOMAIN groups : groups[g] \in Stats
  /\ total \in Nat /\ fed \in Nat
  /\ result = NoResult <=> outcome # "ok"

Init ==
  /\ stream \in Streams /\ dirs \in DirSets /\ pooled \in BOOLEAN
  /\ pos = 1 /\ future = [i \in 1..MaxBatches |-> "none"] /\ pending = {}
  /\ groups = <<>> /\ total = 0 /\ fed = 0
  /\ pc = "read" /\ outcome = "none" /\ result = NoResult
-----------------------------------------------------------------------------
(* Statistics.                                                             *)

Rows(b) == SumFunction([g \in DOMAIN b |-> b[g].files])

Newest(s, t) == IF s > t THEN s ELSE t

Add(s, t) == [files  |-> s.files + t.files,
              bytes  |-> s.bytes + t.bytes,
              newest |-> Newest(s.newest, t.newest)]

Of(gs, g) == IF g \in DOMAIN gs THEN gs[g] ELSE Zero

(* merge_groups.  Mutation: the last partial result of a group wins.       *)
MergeReplaces(gs, partial) ==
  [g \in DOMAIN gs \cup DOMAIN partial |->
     IF g \in DOMAIN partial THEN partial[g] ELSE gs[g]]
Merge(gs, partial) ==
  [g \in DOMAIN gs \cup DOMAIN partial |-> Add(Of(gs, g), Of(partial, g))]

(* The groups after the batches of ds are merged into gs.                  *)
MergeAll(gs, ds) == FoldSet(LAMBDA i, acc : Merge(acc, stream[i]), gs, ds)

(* len(groups) after a merge that would not be allowed.  Mutation: one     *)
(* group too many is.                                                      *)
TooWideByOne(gs) == Cardinality(DOMAIN gs) > MaxGroups + 1
TooWide(gs) == Cardinality(DOMAIN gs) > MaxGroups
-----------------------------------------------------------------------------
(* The workers of the aggregation pool (external): they take batches in    *)
(* the order of submission.                                                *)
Running == {i \in 1..MaxBatches : future[i] = "running"}

Take(i) ==
  /\ future[i] = "pending" /\ Cardinality(Running) < Threads
  /\ \A j \in 1..(i - 1) : future[j] # "pending"
  /\ future' = [future EXCEPT ![i] = "running"]
  /\ UNCHANGED <<catalog, pos, pending, groups, total, fed, pc, outcome,
                 result>>

(* aggregate_batch: a batch may be too wide by itself, or Arrow may fail.  *)
(* Mutation: a batch that fails is tried again.                            *)
AggregateRetries(i) ==
  /\ future[i] = "running"
  /\ \E end \in {IF TooWide(stream[i]) THEN "pending" ELSE "done", "pending"} :
       future' = [future EXCEPT ![i] = end]
  /\ UNCHANGED <<catalog, pos, pending, groups, total, fed, pc, outcome,
                 result>>
Aggregate(i) ==
  /\ future[i] = "running"
  /\ \E end \in {IF TooWide(stream[i]) THEN "wide" ELSE "done", "failed"} :
       future' = [future EXCEPT ![i] = end]
  /\ UNCHANGED <<catalog, pos, pending, groups, total, fed, pc, outcome,
                 result>>
-----------------------------------------------------------------------------
(* The reader.                                                             *)

(* An exception: nothing further is read or merged.                        *)
Raise(end) == pc' = "unwind" /\ outcome' = end

SkipEmpty ==
  /\ pc = "read" /\ pos =< Len(stream) /\ DOMAIN stream[pos] = {}
  /\ pos' = pos + 1
  /\ UNCHANGED <<catalog, future, pending, groups, total, fed, pc, outcome,
                 result>>

(* A batch is submitted and reported; the callback may raise.              *)
(* Mutation: the reader waits one batch too late.                          *)
FullLate(ps) == Cardinality(ps) > MaxPending
Full(ps) == Cardinality(ps) >= MaxPending

Feed ==
  /\ pc = "read" /\ pooled /\ pos =< Len(stream) /\ DOMAIN stream[pos] # {}
  /\ pos' = pos + 1
  /\ future' = [future EXCEPT ![pos] = "pending"]
  /\ pending' = pending \cup {pos}
  /\ fed' = fed + Rows(stream[pos])
  /\ \/ pc' = (IF Full(pending') THEN "wait" ELSE "read") /\ UNCHANGED outcome
     \/ Raise("failed")
  /\ UNCHANGED <<catalog, groups, total, result>>

(* Without a pool: the batch goes straight into the groups.                *)
FeedInline ==
  /\ pc = "read" /\ ~pooled /\ pos =< Len(stream) /\ DOMAIN stream[pos] # {}
  /\ pos' = pos + 1
  /\ \/ /\ TooWide(Merge(groups, stream[pos]))
        /\ Raise("wide")
        /\ UNCHANGED <<groups, total, fed>>
     \/ /\ groups' = Merge(groups, stream[pos]) /\ ~TooWide(groups')
        /\ total' = total + Rows(stream[pos]) /\ fed' = total'
        /\ Raise("failed") \/ UNCHANGED <<pc, outcome>>
  /\ UNCHANGED <<catalog, future, pending, result>>

StreamFails ==
  /\ pc = "read"
  /\ Raise("failed")
  /\ UNCHANGED <<catalog, pos, future, pending, groups, total, fed, result>>

StreamEnds ==
  /\ pc = "read" /\ pos > Len(stream)
  /\ pc' = IF pooled THEN "drain" ELSE "unwind"
  /\ UNCHANGED <<catalog, pos, future, pending, groups, total, fed, outcome,
                 result>>

(* wait(FIRST_COMPLETED) returns all futures that are done by now; collect *)
(* merges them, in any order, and raises if one failed or the limit is hit.*)
Done == {i \in pending : future[i] \in {"done", "wide", "failed"}}

Collect ==
  /\ pc \in {"wait", "drain"} /\ Done # {}
  /\ pending' = pending \ Done
  /\ \/ /\ \A i \in Done : future[i] = "done"
        /\ groups' = MergeAll(groups, Done) /\ ~TooWide(groups')
        /\ total' = total + SumFunction([i \in Done |-> Rows(stream[i])])
        /\ pc' = IF pc = "wait" THEN "read" ELSE "drain"
        /\ UNCHANGED outcome
     \/ /\ \E i \in Done : future[i] # "done" /\ Raise(future[i])
        /\ UNCHANGED <<groups, total>>
     \/ /\ TooWide(MergeAll(groups, {i \in Done : future[i] = "done"}))
        /\ Raise("wide")
        /\ UNCHANGED <<groups, total>>
  /\ UNCHANGED <<catalog, pos, future, fed, result>>

Drained ==
  /\ pc = "drain" /\ pending = {}
  /\ pc' = "unwind"
  /\ UNCHANGED <<catalog, pos, future, pending, groups, total, fed, outcome,
                 result>>

(* The finally block: what has not begun is cancelled, and the shutdown of *)
(* the pool waits for the rest.                                            *)
Cancel(i) ==
  /\ pc = "unwind" /\ i \in pending
  /\ pending' = pending \ {i}
  /\ future' = IF future[i] = "pending"
               THEN [future EXCEPT ![i] = "cancelled"] ELSE future
  /\ UNCHANGED <<catalog, pos, groups, total, fed, pc, outcome,
                 result>>

(* Mutation: the shutdown does not wait.                                   *)
ShutdownAtOnce ==
  /\ pc = "unwind" /\ pending = {}
  /\ pc' = IF outcome = "none" THEN "seed" ELSE "over"
  /\ UNCHANGED <<catalog, pos, future, pending, groups, total, fed, outcome,
                 result>>
Shutdown ==
  /\ pc = "unwind" /\ pending = {} /\ Running = {}
  /\ pc' = IF outcome = "none" THEN "seed" ELSE "over"
  /\ UNCHANGED <<catalog, pos, future, pending, groups, total, fed, outcome,
                 result>>

(* The child directories that a query with limit rollup_max_groups + 1 may *)
(* return.                                                                 *)
Readable ==
  {read \in SUBSET dirs :
     \/ read = dirs /\ Cardinality(dirs) =< MaxGroups + 1
     \/ Cardinality(read) = MaxGroups + 1}

(* They become groups, if there is room.                                   *)
Seed ==
  /\ pc = "seed"
  /\ \E read \in Readable :
       LET seeded == Merge(groups, [g \in read |-> Zero])
       IN  IF TooWide(seeded)
           THEN pc' = "over" /\ outcome' = "wide" /\ UNCHANGED groups
           ELSE pc' = "report" /\ groups' = seeded /\ UNCHANGED outcome
  /\ UNCHANGED <<catalog, pos, future, pending, total, fed, result>>

SeedFails ==
  /\ pc = "seed"
  /\ pc' = "over" /\ outcome' = "failed"
  /\ UNCHANGED <<catalog, pos, future, pending, groups, total, fed, result>>
(* _fold, and the children by size: groups of one size stay in the order   *)
(* of the dictionary, which may be any.                                    *)
Fold(gs) == FoldSet(LAMBDA g, acc : Add(acc, gs[g]), Zero, DOMAIN gs)

BySize(gs) ==
  {order \in SetToSeqs(DOMAIN gs) :
     \A i, j \in DOMAIN order :
       i < j => gs[order[i]].bytes >= gs[order[j]].bytes}

(* The last report of the rows, which may raise; then the result is built, *)
(* kept in the cache and returned.                                         *)
Report ==
  /\ pc = "report"
  /\ pc' = "over" /\ outcome' = "ok"
  /\ \E order \in BySize(groups) :
       result' = [rows     |-> total,
                  totals   |-> Fold(groups),
                  children |-> [i \in DOMAIN order |->
                                  [name  |-> order[i],
                                   stats |-> groups[order[i]]]]]
  /\ UNCHANGED <<catalog, pos, future, pending, groups, total, fed>>

ReportRaises ==
  /\ pc = "report"
  /\ pc' = "over" /\ outcome' = "failed"
  /\ UNCHANGED <<catalog, pos, future, pending, groups, total, fed, result>>

(* public_result: what a response shows of result r (limit 0: none given). *)
PublicResult(r, limit) ==
  LET n == Min({IF limit = 0 THEN ResponseChildren ELSE limit, MaxGroups})
  IN  [children  |-> SubSeq(r.children, 1, Min({n, Len(r.children)})),
       total     |-> Len(r.children),
       truncated |-> Len(r.children) > n]
-----------------------------------------------------------------------------
Reader ==
  \/ SkipEmpty \/ Feed \/ FeedInline \/ StreamFails \/ StreamEnds
  \/ Collect \/ Drained \/ \E i \in pending : Cancel(i)
  \/ Shutdown \/ Seed \/ SeedFails \/ Report \/ ReportRaises

Workers == \E i \in 1..MaxBatches : Take(i) \/ Aggregate(i)

Over == pc = "over" /\ UNCHANGED vars

Next == Reader \/ Workers \/ Over

Spec == Init /\ [][Next]_vars

(* The reader goes on when it can, its queries end (client timeouts), and  *)
(* the workers of the pool work.                                           *)
FairSpec == Spec /\ WF_vars(Reader) /\ WF_vars(Workers)
-----------------------------------------------------------------------------
(* Properties.                                                             *)

(* What a single pass over the batches of ds comes to.                     *)
Reference(ds) ==
  [g \in UNION {DOMAIN stream[i] : i \in ds} |->
     [files  |-> SumFunction([i \in ds |-> Of(stream[i], g).files]),
      bytes  |-> SumFunction([i \in ds |-> Of(stream[i], g).bytes]),
      newest |-> Max({Of(stream[i], g).newest : i \in ds})]]

(* What is merged so far is the aggregate of exactly the batches read and  *)
(* not pending.                                                            *)
MergedIsReference ==
  pc \in {"read", "wait", "drain", "seed"} =>
    /\ groups = Reference(1..(pos - 1) \ pending)
    /\ total + SumFunction([i \in pending |-> Rows(stream[i])]) = fed

(* A rollup is refused as too wide exactly when it is, though the limit is *)
(* checked per batch, per merge and per directory, in any order.           *)
RefusedIfTooWide ==
  LET all == (UNION {DOMAIN stream[i] : i \in DOMAIN stream}) \cup dirs
  IN  /\ outcome = "wide" => Cardinality(all) > MaxGroups
      /\ outcome = "ok" => Cardinality(all) =< MaxGroups

(* A response shows the largest children, and tells whether there are more,*)
(* whatever limit was asked for.                                           *)
ShowsTheLargest(r, limit) ==
  LET shown  == PublicResult(r, limit)
      Size(c) == c.stats.bytes
      hidden == ToSet(r.children) \ ToSet(shown.children)
  IN  /\ shown.truncated <=> hidden # {}
      /\ shown.total = Len(shown.children) + Cardinality(hidden)
      /\ \A c \in ToSet(shown.children), h \in hidden : Size(c) >= Size(h)

(* In whatever order batches are aggregated and merged, and whenever the   *)
(* reader waits: a rollup that succeeds covers every batch of its stream   *)
(* once and every child directory, with totals of all of it, and responses *)
(* show its largest part (catalog.py:477-503, 970-1045); one that is too   *)
(* wide is refused, and no other is (catalog.py:187-191, 211-215, 974-981).*)
ResultIsReference ==
  /\ MergedIsReference /\ RefusedIfTooWide
  /\ outcome = "ok" =>
       LET all == Merge(Reference(DOMAIN stream), [g \in dirs |-> Zero])
       IN  /\ [g \in {c.name : c \in ToSet(result.children)} |->
                 (CHOOSE c \in ToSet(result.children) : c.name = g).stats] = all
           /\ Len(result.children) = Cardinality(DOMAIN all)
           /\ result.totals = Fold(all)
           /\ result.rows = fed /\ pos = Len(stream) + 1
           /\ \A limit \in 0..(MaxGroups + 1) : ShowsTheLargest(result, limit)

(* However the rollup ends, no worker and no batch outlives it, and no     *)
(* more batches than max_pending are ever in the workers' hands            *)
(* (catalog.py:493-502).                                                   *)
NothingLeftBehind ==
  LET live == {i \in 1..MaxBatches : future[i] \in {"pending", "running"}}
  IN  /\ Cardinality(live) =< MaxPending
      /\ pc \in {"seed", "report", "over"} => live = {}

(* Every rollup comes to an end: the reader never waits for a worker that  *)
(* is not there (catalog.py:477-503).                                      *)
Ends == <>(pc = "over")
=============================================================================
