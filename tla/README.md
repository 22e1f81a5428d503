# Catwalk: specification and verification

Catwalk is a web browser for a VAST catalog: a FastAPI server (`src/catwalk`)
that lists directories and computes descendant rollups with queries to a
storage cluster, and a JavaScript page that shows them. Queries take seconds to
minutes, so the program is built around caches, shared computations, background
jobs and cancellation. This directory holds TLA+ models of those parts, the TLC
runs that check them on small instances, and theorems that TLAPS checks for
every value of the constants.

## The system

| Part | State | Operations | Interacts through |
|---|---|---|---|
| Cache, `cache.py` | entries in LRU order, byte counter, flights (`_inflight`) | `get`, `expires_in`, `put`, `prune`, `invalidate`, `get_or_compute` | called by listings, rollups, warmer and handlers from any thread |
| Rollup jobs, `jobs.py` | registry, index by key, semaphore of slots, executor queue; per job: status, watchers, cancel flag, event, future | `submit`, `get`, `cancel`, `close`, `run` in a worker | `submit`, `get`, `cancel`, `close` on the event loop; workers beside it |
| Snapshot epoch, `catalog.py` `VastBackend` | `_epoch`, `_epoch_checked` | `current_epoch`, `peek_epoch`, `_drop_epoch`, pinned queries | every listing, rollup, prefetch and warm resolves it |
| Listings, `catalog.py` `ListingService` | listing cache, table of prefetch futures, prefetch pool, memoised sorts | `list_page`, `listing_table`, `warm_listing`, `prefetch_children`, `close` | cache, epoch, query gate, warmer |
| Rollups, `catalog.py` `RollupService`, `rollup_groups` | rollup cache; per rollup: pending aggregations, groups | `cached`, `compute`, `public_result` | runs inside a job; cache, epoch, query gate |
| Warmer, `warmer.py` | scheduler thread, pool, frontier of a pass | `start`, `stop`, `run_pass` | `warm_listing` |
| Application, `app.py` | `_state`: services, limiters, query gate | lifespan, request handlers | owns all of the above |
| Instances, `cli.py` | state file, server process | `start`, `stop`, `status`, `run` | the file system and signals |
| Frontend, `static/app.js` | current path, tokens, page cache, active rollup job | `navigate`, `loadPage`, `loadRollup`, tree | HTTP |
| Control plane, `vms.py`; configuration, `config.py`; `netinfo.py`; `mock.py` | next to none | | |

What is hard in it: callers that join computations of others, at any point of
their life; a cancellation that races the start, the end or a new request for
the same job; snapshots that land and age out while queries pinned to them run;
locks that are left before the slow call and taken again after it; counters kept
by hand (bytes, slots); shutdown while all of that is going on. Nothing is
persisted but the state file of the CLI, so crash recovery is a matter of the
CLI alone.

`PROJECT.json` lists these hazards at their lines, with the properties that
cover them.

## Modules

| Module | Models |
|---|---|
| `TTLCache` | `TTLCache` of `cache.py` |
| `SharedJobs` | what the job manager promises its clients: the abstract specification |
| `JobManager` | `JobManager` of `jobs.py` and the rollup handlers of `app.py`; implements `SharedJobs` |
| `CatalogEpoch` | the epoch in `VastBackend`, and how listings and rollups pin queries and cache keys to it |
| `ListingService` | `ListingService` of `catalog.py`: clicks, prefetches and the warmer on one directory, with its cache, flights and query gate |
| `ListingPages` | what `list_page` and `listing_table` make of a listing: rows in order, pages; extends `ListingService` |
| `RollupScan` | `rollup_groups` of `VastBackend`, `compute` of `RollupService` around it, the inline reader, and `public_result` |
| `CacheWarmer` | `CacheWarmer` of `warmer.py`: its scheduler, passes, pool and shutdown, with the time that entries have left |
| `Frontend` | the table, its pages and the rollup panels of `static/app.js` |
| `Instance` | `start`, `stop` and `status` of `cli.py`, and the servers of one state directory |
| `TTLCacheProofs`, `JobManagerProofs`, `CatalogEpochProofs`, `ListingServiceProofs`, `RollupScanProofs`, `CacheWarmerProofs`, `FrontendProofs`, `InstanceProofs` | theorems about them |
| `MC*` | instances for TLC |

Definitions named "Mutation" hold the code with one plausible mistake; they are
part of no specification. `PROJECT.json` names the property each one breaks.

### TTLCache

Each locked method is one step. `get_or_compute` is one step for each critical
section and each unlocked part: `LookupHit`/`LookupMiss`, `Lead`/`Follow`,
`ComputeOk`/`ComputeFail`, `Store`, `Unlink`, `Resolve`. Values are left out; an
entry has its key, its cost and its remaining life in ticks. `Client` is any
other thread that uses the cache meanwhile. The eviction loop is the least
number of entries from the old end of the list that brings the byte *counter*
(not the real cost) under the bound, as in the code.
Between a missed lookup (`cache.py:126`) and the election of a leader a whole
flight may end, and the key is then computed a second time. That costs a query
and harms nothing, so no property forbids it.

### JobManager and SharedJobs

`submit`, `get`, `cancel` and `close` are only called on the event loop, so they
do not interleave with each other, only with the workers; the handlers that call
them and `_wait_job` are part of the model (`SyncAnswer`, `SyncTimeout`, `Poll`,
`Cancel`). `cancel` is two steps, the locked part and `future.cancel()`, with the
loop busy in between (`pendingCancel`). A worker's `run` is `Start`, the scan's
end (`ScanReturns`, `ScanFails`, `ScanCancelled`), `Publish` (status), `Signal`
(event) and `Release` (the future is set, `_future_done`). The executor is
external: a FIFO of items from which a cancelled item is only removed by a
worker or by shutdown. Time is `Age` (a finished job becomes old enough to be
pruned). A client that disappears without a `DELETE` just takes no more steps.

`SharedJobs` knows computations, who watches them, and whether the service is
open: no queue, slots, registry or threads. The refinement mapping calls an
active job `live`, or `doomed` once its `cancel_requested` is set.

### CatalogEpoch

Snapshots are numbers and a result is the set of snapshots it was read from (0
for the live table). `current_epoch` is four steps, because the LIST runs
without the lock: `ResolveStale` (marks it fresh), `ListReads` or `ListFails`,
`ListWrites`; `ResolveFresh` is everybody else. A
cache put may evict entries of other epochs (`Evictable`; `MaxEntries` is the
room there is). `Catalog` is `_catalog` with its
fallback to the live table and `_drop_epoch`.

### ListingService

One directory, seen by three kinds of threads: clicks (`_base_listing` for
`list_page` and `listing_table`), prefetches (each named by the listing of the
parent that submits it, `prefetch_children`), and visits of the warmer
(`warm_listing`). All of the hand-over between a click and a prefetch is there:
the table of futures under its lock (`Peek`, `PrefetchSubmit`, `Pop`), the done
callback that is added outside of it (`AddCallback`, `Settle`), `cancel` on a
future that may start at any moment, the join with its timeout. The cache is the
abstraction of `TTLCache` that its callers see: lookup, election of a leader,
and landing (store, unlink and resolve in one step, since `TTLCache` covers
their interleavings); `Vanish` is expiry and eviction. A listing is the set of
rows it holds, the epoch they were read in, and whether it is marked truncated;
a query returns any `ListingCap` rows of a directory that has more. Each epoch
has rows of its own, so a listing that mixes two of them, or a filtered one that
is derived from a truncated one, is seen. The epoch is a number that
`NewEpoch` may raise; how it moves is `CatalogEpoch`'s subject. `Close` comes
when requests and warmer have ended, the order in which the server shuts down.

### ListingPages

Sorting and paging read an entry and keep no state, so they are operators:
`SortedTable`, `ClampPageSize`, `Pages`, `ClampPage`, `ListPage`. The order is
the code's: directories first when sorting by name, and by the column, then
directories, then name otherwise, with `descending` applied to the column only.
`PagesTile` says of every listing that a click is answered with, for every order
and page size: its table is in order, its pages put together are the table, each
row once, and a page beyond the last is the last.

### RollupScan

One rollup: the job's thread reads a stream of batches, submits each to the
aggregation pool, waits when `max_pending` futures are out, merges what is done,
drains, cancels what is left and shuts the pool down (`Feed`, `Collect`,
`Drained`, `Cancel`, `Shutdown`), then seeds the child directories (`Seed`).
Stream, worker, directory query and progress callback may each fail. A batch is
the function from groups to statistics that its rows add up to, and of the
statistics two sums (files, by which nothing is ordered, and bytes, by which
responses are) and one maximum (mtime, with `None` as 0) are kept: the others
are computed in the same two ways. The reader without a pool, which the base
backend has, is `FeedInline` (`pooled` tells which of the two reads). `Report`
builds the result: totals folded over the groups (`Fold`), and `PublicResult`
the part that responses show: the `ResponseChildren` largest, and the number of
all. The result is compared with a `Reference` that makes one pass over the
whole stream.

### CacheWarmer

The scheduler thread is `loop`: `Pass` starts a pass, `Submit` hands one level
of the frontier to the pool (`pool.map`), `LevelDone` collects it, and
`NoLevelLeft`, `SubmitRaises` and `LevelRaises` are the three ways in which a
pass ends; then it waits for the interval or the stop flag (`Wake`). A visit is
`warm_listing`: `Hit` when the entry will live until the next pass has had
`_PASS_MARGIN_SECS` of time, else `Ask` and one of `Answer`, `AnswerTooLarge`,
`Fail` (after which the entry that was there is still cached, and vouched for). `stop()` is `RequestStop`, `ShutPool` (after the first join, which five
seconds may end early) and `StopReturns`. A tick of the clock may come between
any two steps. A user's request refreshes an entry (`Browse`), the byte bound
evicts one (`Evict`), and a new snapshot makes all of them useless and the
answers of running queries with them (`Flip`).

`warmer.py:31-32` says that entries "cannot go cold between two passes". That
is so while passes are quick. `lag` counts, per directory, the time since the
visit that left its entry, the wait left out, up to `Slack`, the lesser of the
margin and of the TTL less the interval: what `WarmStaysWarm` says is that the
entry is there as long as passes have not used up the slack. A slower pass does
let entries go cold, and so does a TTL that is not above the interval, for
which the slack is zero.

### Frontend

The script runs to its next `await`, so a step is a click, a timer, or an answer
with everything that follows from the promise it settles: `PageArrives` is the
rest of `fetchPage`, `loadPage` and `navigate`, up to the request of
`loadRollup`. Several loads may wait for one promise of `pageCache`. A token is
modelled as the load that drew its present value, so that the ever growing
numbers of the code become a bounded set: a load is stale when the token is not
its own. A superseded load does nothing any more, and is dropped, unless a
navigation awaits it; that navigation goes on when the load ends (`Proceed`), as
in the code. `job` is the server's side of a rollup as far as this page caused
it: running, ended (and not yet learnt of), or none. A `DELETE` that was sent
is in `deletes` until the server serves it (`Deleted`), which it may never do:
the page swallows its failure (`.catch(() => {})`, `app.js:376-378, 482-484`) and
does not send another, so a job whose `DELETE` is lost runs on to its own end
(`JobEnds`). What the server does with a job is `JobManager`'s subject. The requests and timers of a chain of polls
are one stage. Left open, that is, chosen freely at each step, are
`forwardStreak` (it only decides how far the prefetch reaches), the text a
filter timer finds, and whether statistics of an older rollup are still known
(`rollups`; `mark` only tells dots from what is none). `wanted` is a history variable: the page asked for last. The
folder tree, the banner, the export links and the theme are not modelled.

### Instance

A terminal runs one command at a time. Every access to the state file is a step:
`ReadNothing`/`ReadRecord`, `Clear` (unlink), `Truncate` and `Write` (the two
halves of `write_text`; what lies between does not parse and reads as none). The
checks of the process (`CheckUp`, `CheckDown`), `Spawn`, `Kill` and the two waits
(`WaitOver`, `ChildDied`; `Down`, `StillUp`) are steps too; deadlines may pass at
any time. `Interrupt` ends a command anywhere. Servers come up, die, linger as
zombies and are reaped in between; when one is gone its process number may go to
another program, whose command line may or may not contain "catwalk".

Nothing locks the state directory, so starts that overlap other commands, and a
start that is interrupted while it waits, can lose a server. The history variable
`disturbed` records that; the properties say what holds until then, and
`ClearsTheDead` what holds even after. `disturbed` is set by any overlap with a
start, also by harmless ones.

## Runs

| Run | Instance | Shows |
|---|---|---|
| `cache` | 2 callers, 3 keys, costs 1 to 3 under a bound of 2, life of 2 ticks | byte accounting, eviction in LRU order and under pressure only, one scan per key, every call of `get_or_compute` ends |
| `jobs` | 3 requests, 2 of one key, 1 worker, queue of 1 | slots, sharing, cancellation, pruning, shutdown; the refinement of `SharedJobs` |
| `jobs_live` | 2 requests of one key | jobs end, and so does `close()` |
| `jobs_backlog` | as `jobs` | *violated*: more than `max_queue` items wait |
| `epoch` | 1 listing thread, 1 rollup thread, 2 snapshots, room for one entry in each cache | cached results are pinned; when the epoch goes back; that it catches up |
| `listing` | a plain and a filtered click, 1 prefetch, 1 visit of the warmer, 1 slot of the gate; 3 rows, or 4 of which 3 fit | every listing shows rows of one state of the directory, all that it asked for or it says so; pages tile the listing |
| `listing_live` | 1 click, 2 prefetches, 2 workers, 2 epochs with other rows, 1 slot | whoever waits for a prefetch, a flight or the gate, waits for work under way; no prefetch stays registered; clicks are answered |
| `listing_pinned` | 1 click, 1 prefetch | *violated*: a click that gave a prefetch up waits for it all the same |
| `rollup` | with and without the pool: all streams of up to 2 batches of 5, and 5 streams longer than the pipeline; 2 workers, 3 groups of which 2 fit, 1 child in a response | the result, its totals and what responses show of it are the reference aggregation; too wide is refused, and only that; nothing is left behind; rollups end |
| `warmer` | 3 directories, 2 roots one in the other, depth 1, caps of 2 and 3, 2 threads, TTL 4, interval 1, margin 2 | entries stay warm as long as passes keep to the slack; passes are breadth-first; passes go on until stopped, and `stop()` ends all of it |
| `frontend` | directories of 2 pages and of 1 page, 2 filter texts, 2 overlapping loads and 2 rollups, a page cache of 1 | what was asked for last is shown; panels are of this directory; a job that the page leaves is asked to be deleted, and no other; "computing" means it |
| `instance` | 2 terminals, 3 servers | one server, and a known one, per state directory; "not running" is true; only records of dead servers are cleared |

The bounds are the least at which the cases that matter happen. Cache: a leader
and a follower or late caller (the theorems about flights hold for any number);
an entry to keep, one to evict and one oversized; an expired entry that was used
after a live one.
Jobs: two clients that share a job and a third that competes for the only worker
and the only place in the queue, so that jobs run, wait, are refused, are joined
and are cancelled in each of these states. Epoch: two snapshots, so that an
older one can be written over a newer one and one can age out while another is
there, and two threads, so that LISTs overlap. Instance: a dead server whose
record is stale, a live one, and one more that should not be; two terminals, as
the races are between two commands. Listings: with one slot of the
gate everybody waits for everybody; a filtered click can derive from what a
plain one, a prefetch or the warmer cached; with two prefetches, the second can
be registered while a click still deals with the first. Four rows are one more
than a query returns; two have equal sizes, so that an order has ties
to break, and pages of 1 to 4 rows tile three rows evenly and unevenly. Warmer: a root below
another is found twice, a cap of 2 cuts the second level and one of 3 cuts
nothing; of the 4 ticks of a TTL the interval takes one, and the slack is 2, so
that an entry can be kept by one visit, refreshed by the next, and go cold.
Rollups: two workers
give a pipeline of four, so the long streams make the reader wait, and batches
complete out of order. Frontend: two loads overlap, and a third would be
superseded like the second; with a page cache of one promise, prefetches evict
the page that a load waits for; of two rollups, one may be left to run with its
`DELETE` on the way or lost while the other is polled. Of the sort orders there is one, since `Sort`
and `Filter` do the same to the view. Symmetry is used in `jobs`, over requests with the
same key, and in `instance`, over terminals, and `frontend` takes states that
differ only in the numbers of promises for one (`UpToNames`, a view); none of
these runs checks liveness. While the server still has both rollups, for lost
`DELETE`s say, a navigation of `frontend` waits to ask for a third until one
ends: the bound of two is no limit of the code.

Fairness. `cache`: a thread inside `get_or_compute` is scheduled and its
query ends (client timeouts, `query_timeout`). `jobs_live`: workers take items
and go on, scans end for the same reason, and a call on the event loop that has
begun runs to its end; nothing is assumed of clients. `epoch`: requests
keep coming, time passes, and a LIST that is tried again and again succeeds
again and again (strong fairness of `ListReads`); no snapshot need ever land.
`listing_live`: a thread that can take a step does, queries end, and the pool's
workers take items; weak fairness of the gate is enough because the requests of the instance are finitely many.
`warmer`: the scheduler and the workers of the pool are scheduled, queries end,
and time goes on; nobody has to stop it, and that a pass ends needs no fairness
of failures, snapshots or users.
`rollup`: the reader goes on, its queries end, the workers work.

Deadlock is checked everywhere. `JobManager` may stop after shutdown only
(`Terminated`), `ListingService` after `Close` (`Idle`), and `CacheWarmer` after
`stop()` has returned (`Gone`).
The page never stops: something can always be clicked. `frontend` states no
liveness: a user may click for ever, and no answer need arrive.

## What the violated runs show

1. `jobs_backlog`: `cancel()` frees the slot of a queued job at once, but the
   executor keeps its work item until a worker gets to it. With all workers busy
   on long scans, repeated submit and cancel grows the queue without bound.
2. `listing_pinned`: the join of a prefetch is bounded by 15 s, so that a prefetch
   hung on a dead address does not pin a click (`catalog.py:66-69`). But the click
   then calls `get_or_compute`, finds the flight which that prefetch leads, and
   waits for it without a timeout. The unit test for the timeout
   (`test_hung_prefetch_does_not_block_interactive_listing`) registers a hung
   future that leads no flight, so it does not meet this.

Other things that the models made plain, which no run is about. Each query of a
rollup falls back to the live table by itself (`catalog.py:365`), so its seed
query may read another state than its scan, in spite of the comment at
`catalog.py:944-946`; `CatalogEpoch` has both steps. A filtered listing that is
derived from a cached one is put with a full TTL of its own
(`catalog.py:637-651`), so it may be up to twice the TTL old; where there are
snapshots the epoch in its key says so, where there are none nothing does
(`catalog.py:355-357`). A node of the folder tree that is closed and opened
again while its listing is fetched gets its children twice (`app.js:559-597`):
`childrenUl` and the records of `treeNodes` are those of the answer that came
last, so the others stay on the page, cannot be folded away, and keep old badges.

## Proofs

Every invariant and every action property that a passing run checks is also a
theorem, for all values of the constants. All from the assumptions named in the
modules: finitely many requests, naturals for sizes and bounds, distinct model
values, names that differ within a directory. TLAPS checks every theorem and
lemma; nothing is assumed besides the constants' assumptions.

Several of the proofs are by induction over data: sizes of a list, batches of a
stream, levels of a tree. The induction theorems of the library cannot be used,
since no prover here instantiates their operator parameter. Instead the modules
prove, from the well-foundedness of `<`, that a set of numbers has a least
element (`LeastNat`), hence that a subset of `0..m` with 0 that is closed under
successor is all of it (`Induct`); a proof names the set of numbers for which its
claim holds, and cites that. `SetInduct` is the same for the subsets of a finite
set. That a function given by recursion exists, and so is what its `CHOOSE`
yields, is shown the same way (`Recursion`, `SetRecursion`).

* `TTLCacheProofs`. Two inductive invariants. `EntriesInv` is the type of the
  list and `ByteAccounting`. A `put` subtracts the entry it replaces, drops what
  has expired, appends, and evicts by the counter; that counter and the real cost
  agree after each of these rests on `CostSplit`, `CostAppend`, `CostAllBut` (the
  cost of a list without one entry) and `SelectedPlacing` (a filtered list keeps
  the order and each entry once). `AccountIsExact` follows, and, with
  `GreatestPlace` and `DropFront`, `EvictionNeedsPressure`: what a `put` drops is a
  front part of a list in the order of use, so it goes oldest first. `FlightInv` is
  `NoDeadFlight` with the types of the control state: its second part says that
  `_inflight` names exactly the leaders not yet unlinked, which is why nobody
  can find a flight that will not be resolved; no run checks it, since `Answered`
  fails when somebody waits for a dead one. `OneScanPerKey` follows from it:
  two leaders of a key would both be the one that `_inflight` names. `Types` takes
  the two together.
* `JobManagerProofs`. `Slots` needs an invariant that ties status, future, work
  queue, worker stage, event and registry of a job together, since the slot is
  released in `_future_done`, far from where it is taken. The same invariant
  gives type correctness (the semaphore's bound), `NobodyElseCancels`,
  `JoinableFound` (proved only: of the jobs that are not doomed there is one for a
  key at most, and it is found; a doomed one may scan on beside it), `FinalStatus` and, step by step, the `Refinement` of
  `SharedJobs`. `NobodyIsStranded`, the safety half of `EverythingEnds`, adds
  `HandInv`: a pending future is in the work queue, one that is over has its event
  set, and the queue stays empty once `close()` has drained it. So whoever waits
  has somebody to wake them, and after `close()` nobody waits.
* `CatalogEpochProofs`. What a thread has read so far came from its own epoch or
  the live table (`Pinned`); with this the two cache invariants are inductive.
  `Behind` (no epoch is ahead of the cluster, a LIST finds none older than the
  one it replaces) gives `GoesBackForAReason`.
* `ListingServiceProofs`. The inductive invariant is the types, the gate's
  accounting (on which the type of the gate rests), `Leaders` (who computes a
  listing leads the flight of its key, until its flight lands), `Checkers` (only
  the warmer computes outside a flight), `Starters` (who has not begun has
  nothing yet), `Derivers` (who looks for an entry to derive from has a filter),
  and what it is for: `ListingsAreExact`, that every listing in the cache, and
  every one that a thread ended with, is what one query of the key's epoch may
  return. `OneWorker` (proved only) follows from `Leaders`: two
  of the clicks and prefetches that compute one key would both lead it. So an
  unfiltered click does not race a prefetch with a duplicate scan of the same
  epoch (`TUNING.md:41-43`), found in the table or not. A filtered click has
  another key, and one that looked before the prefetch was registered, or whose
  join timed out, does query the directory beside it; so may the warmer. Two theorems are the safety halves of the
  liveness that the runs check. `WaitsAreForWork` follows the chain of waits:
  a click joins a prefetch that runs or has ended, a follower has a leader who
  computes (`FlightsAreLed`) and so joins and follows nobody, and if the gate is
  full somebody queries; there is no cycle for a request to wait in.
  `RegisteredAreAlive` says that a registered prefetch is under way and its
  callback there, or yet to be added and then run at once, so that it cannot stay
  registered once done. `PagesHold` needs of the state only its type;
  the rest is about the operators of `ListingPages`. `Before` is a strict total
  order (`StrictOrder`: here names must differ, since columns and directories may
  tie), so a row's rank, the number of rows before it, maps the rows one to one
  onto `0..n-1` (`Ranks`), and `SortedTable` has each row once, in order
  (`TableIs`, `TableInOrder`). Pages are as many as it takes and no more
  (`PagesFit`), each ends where the next begins, and by induction on the number
  of pages their concatenation is the table (`PagesTileTable`).
* `RollupScanProofs`. `Pipeline` (a live future is pending as long as the reader
  reads, a queued one until it is cancelled, and the reader stops one short of
  the bound) gives `NothingLeftBehind`. `ResultHolds`, that a rollup which ends
  well returns the aggregation of all the stream, needs `ScanInv`: while the
  reader is unharmed its groups are the reference aggregation of the batches read
  and no longer pending (`Merged`), whatever the order in which the workers end;
  after the directories are seeded they are the reference of the whole stream,
  with nothing for each other directory (`Whole`); only a rollup that meets more
  groups than the bound is refused as too wide (`Refused`), and the table never
  passes the bound (`TableOK`). A step
  that merges is `ReferenceTakes`: the reference of a set of batches and one more
  is one merge of the former. It rests on sums over a set not depending on the
  order in which they are taken (`AnyOrder`, `SumTakes`, `SumSplits`), and on the
  maximum of a set (`MaxIs`). The totals, folded over groups, are those folded
  over batches by `SumSplits` again.
* `CacheWarmerProofs`. `WarmStaysWarm` compares what an entry has left with what
  the passes have used of the slack, and is not inductive: a pass also needs the
  entry to outlast the wait that follows. `Fuelled` says so. An entry that the
  warmer vouches for has at least the rest of the slack to live, and on top of it
  the wait ahead, if the pass that left it has not had its wait yet; `OnlyFresh`
  says that during the wait the warmer vouches for nothing but what the pass just
  ended has left. That a `Hit` keeps `Fuelled` is the point of the margin in
  `min_ttl`; that an `Answer` does, of the TTL being above the interval.
  `NothingOutlivesStop` is the safety half of `RunsUntilStopped`.
  `WalkIsBreadthFirst` compares the directories a pass has visited with the balls
  of `Near`. `WalkInv` says it level by level: before level n is submitted the
  walk is the ball of radius n - 1, unless the cap cut it (`WalkIsNear`), and the
  frontier is what the next ball adds (`FrontierIsNext`, `BatchIsFrontier`). A
  pass that ends before the last level for want of a frontier has seen the ball
  of every greater radius too (`NearSettles`).
* `FrontendProofs`. `PanelIsOfThisPath`, `LeftJobsAreDeleted` and
  `InFlightIsWorkedOn` rest on three facts: the owner of `rollupToken` is at work on a rollup of the
  directory shown (`OwnerIsAtWork`), without an owner nothing is in flight
  (`NobodyElse`), and a job is the active one or has its `DELETE` sent (`JobsAreKnown`). They
  hold with the type of the rollup half alone, whatever the table does.
  `TableInv` is for the other half. The load that owns `listingToken` waits for
  the page it was asked for, under the view of now (`TokenIsAsked`); what is shown
  is what was asked (`ShownIsAsked`); and the pages cached, with what waits for
  them, are sound (`CacheInv`): no more of them than the bound, each a promise that
  was made and is still held. A new page needs a promise that nobody
  holds any more; that there is one is a pigeonhole argument (`SomeIsFree`), since
  the cache is bounded and each other load waits for one at most. `PageTypes`,
  `ShownHolds` and `DotsHold` follow.
* `InstanceProofs`. Two facts hold always: whoever is about to unlink a record
  read that of a server that is dead (`StaleIsDead`), and it stays dead, since no
  server is spawned twice (`Born`). Until a start is disturbed it is `Alone`, so
  that what a command has read is still there (`AsRead`), a start spawns when no
  server lives (`SpawnsFirst`), and waits for the only one (`OnlyChild`).

Only model-checked: liveness (`Answered`, `EverythingEnds`, `EpochCatchesUp`,
`RegistryDrains`, `Ends`, `RunsUntilStopped`), since TLAPS proves nothing about
fairness or `ENABLED`; absence of deadlock, which is a matter of `ENABLED` too;
and the two properties that the code does not have. Some of them have
their safety half among the theorems: `EverythingEnds` (`NobodyIsStranded`),
`Answered` (`FlightsAreAlive` in the cache,
`WaitsAreForWork` in the listings), `RegistryDrains` (`RegisteredAreAlive`) and
`RunsUntilStopped` (`NothingOutlivesStop`).

## Plan

1. Done: `TTLCache`, `JobManager`/`SharedJobs`, `CatalogEpoch`,
   `ListingService`, `ListingPages`, `RollupScan`, `CacheWarmer`, `Frontend`,
   `Instance`, their runs and proofs.
2. Done: the theorems above, one for each safety property, and the safety half
   of most liveness properties. To do: theorems about `FolderTree` and the
   composition, as they come.
3. `FolderTree`: nodes opened, closed and rebuilt while their children are
   fetched, with the pages of a node.
4. Composition: shutdown in `_lifespan` with the gate shared by listings,
   prefetch, warmer and rollup workers.

The runs are kept few: a later module takes the place of a run that shows the
least (`listing_pinned` may give way once it is resolved in the code), or shares
one through a composition.

## Not modelled

* Configuration (`config.py`): validation is a pure function of the environment;
  the constants of the models and the assumptions on them stand for its values.
* `vms.py` (stateless but for one replaceable client), `netinfo.py` (read once,
  for a log line) and `mock.py` (a synthetic tree without snapshots or failures;
  the way a rollup reads it is `FeedInline`).
* In `app.py`: the limiters of worker threads, the health probes (a probe that
  times out leaves its thread behind until the network times out), the cache of
  the control plane (a `TTLCache` used as any other), and CSV. How long a step
  takes is outside these models, and so is the snapshot LIST that
  `RollupService.cached` may run on the event loop (`app.py:265`).
* In the page: the folder tree (`app.js:530-640`), the banner, views, export links
  and theme. A table is drawn before its `loadRollup` starts and not again until
  it ends (`app.js:238`), so for that time its cells show a dash and not dots.
* In `catalog.py`: the memo of sorted tables, path normalisation and other pure
  string functions, the check of a rollup's depth, and the SDK inside a query.
* Ports are left out of `Instance`: when the deadline of a start passes before
  the server listens, `--port 0` is recorded as 0 (`cli.py:312`), and the health
  probe of `status` then misses the real port, but no other step depends on it.
* Logging, and the counters of the various `stats()`.
