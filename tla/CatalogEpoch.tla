---------------------------- MODULE CatalogEpoch ----------------------------
(***************************************************************************)
(* Snapshot pinning in catwalk/catalog.py: how VastBackend resolves the    *)
(* epoch (the newest catalog snapshot), how listings and rollups pin their *)
(* queries and their cache entries to it, and what they do when the        *)
(* snapshot is gone.                                                       *)
(*                                                                         *)
(* A snapshot is a number, later ones greater; 0 is the live table, and    *)
(* the epoch None.  Of a result only its sources are kept, the snapshots   *)
(* its queries read: the empty set is no result.  One directory, one       *)
(* filter, one rollup: the caches are functions of the epoch in their keys.*)
(* Time is PollDue (snapshot_poll seconds passed) and the expiry of cache  *)
(* entries.  The children list_page prefetches are left out: their threads *)
(* resolve the epoch and query as listers do.                              *)
(* A local variable that the code no longer reads is reset.                *)
(***************************************************************************)
EXTENDS Integers, FiniteSets

CONSTANTS Listers,     \* threads that serve listings
          Rollers,     \* threads that serve rollups
          MaxSnap,     \* snapshots that land while the model runs
          MaxEntries   \* entries that fit into each of the two caches

ASSUME CatalogEpochAssumption == MaxSnap \in Nat /\ MaxEntries \in Nat \ {0}

Threads == Listers \cup Rollers
Epochs  == 0..MaxSnap

VARIABLES
  newest, oldest,      \* the cluster's snapshots are oldest..newest, if any
  epoch,               \* _epoch
  fresh,               \* _epoch_checked is less than snapshot_poll ago
  listings, rollups,   \* sources of the cached entry under each epoch
  pc, next,            \* where a thread is; where current_epoch returns to
  previous, found,     \* current_epoch: the epoch it replaces; LIST's answer
  ep,                  \* the epoch a thread resolved last
  src                  \* sources of its result so far

clusterVars == <<newest, oldest>>
backendVars == <<epoch, fresh>>
cacheVars   == <<listings, rollups>>
listVars    == <<previous, found>>
threadVars  == <<pc, next, previous, found, ep, src>>
vars == <<newest, oldest, epoch, fresh, listings, rollups, pc, next, previous,
          found, ep, src>>

(* Where a caller of current_epoch goes on.                                *)
Returns == {"lookup", "answer", "check", "scan"}

TypeOK ==
  /\ newest \in Epochs /\ oldest \in 1..(MaxSnap + 1)
  /\ epoch \in Epochs /\ fresh \in BOOLEAN
  /\ listings \in [Epochs -> SUBSET Epochs]
  /\ rollups \in [Epochs -> SUBSET Epochs]
  /\ pc \in [Threads -> Returns \cup {"idle", "resolve", "list", "write",
                                      "store", "seed", "keep"}]
  /\ next \in [Threads -> Returns \cup {"idle"}]
  /\ \A t \in Threads :
       pc[t] \in {"resolve", "list", "write"} <=> next[t] # "idle"
  /\ previous \in [Threads -> Epochs] /\ found \in [Threads -> Epochs]
  /\ ep \in [Threads -> Epochs]
  /\ src \in [Threads -> SUBSET Epochs]

Init ==
  /\ newest \in {0, 1} \cap Epochs /\ oldest = 1
  /\ epoch = 0 /\ fresh = FALSE
  /\ listings = [e \in Epochs |-> {}]
  /\ rollups = [e \in Epochs |-> {}]
  /\ pc = [t \in Threads |-> "idle"] /\ next = [t \in Threads |-> "idle"]
  /\ previous = [t \in Threads |-> 0] /\ found = [t \in Threads |-> 0]
  /\ ep = [t \in Threads |-> 0] /\ src = [t \in Threads |-> {}]

Goto(t, label) == pc' = [pc EXCEPT ![t] = label]

(* TTLCache.put of result s under epoch e, which evicts entries that do not*)
(* fit (which is TTLCache's subject).                                      *)
Evictable(c, e) ==
  {out \in SUBSET (Epochs \ {e}) :
     Cardinality({e} \cup {x \in Epochs \ out : c[x] # {}}) =< MaxEntries}
Put(c, e, s, out) ==
  [x \in Epochs |-> IF x = e THEN s ELSE IF x \in out THEN {} ELSE c[x]]
-----------------------------------------------------------------------------
(* The cluster (external): snapshots land, and the oldest age out.         *)

Land ==
  /\ newest < MaxSnap
  /\ newest' = newest + 1
  /\ UNCHANGED <<oldest, backendVars, cacheVars, threadVars>>

AgeOut ==
  /\ oldest < newest
  /\ oldest' = oldest + 1
  /\ UNCHANGED <<newest, backendVars, cacheVars, threadVars>>

(* Time.                                                                   *)
PollDue ==
  /\ fresh /\ fresh' = FALSE
  /\ UNCHANGED <<epoch, clusterVars, cacheVars, threadVars>>

ListingExpires(e) ==
  /\ listings[e] # {}
  /\ listings' = [listings EXCEPT ![e] = {}]
  /\ UNCHANGED <<rollups, clusterVars, backendVars, threadVars>>

RollupExpires(e) ==
  /\ rollups[e] # {}
  /\ rollups' = [rollups EXCEPT ![e] = {}]
  /\ UNCHANGED <<listings, clusterVars, backendVars, threadVars>>
-----------------------------------------------------------------------------
(* A call of current_epoch, and its return of e to the caller.             *)

Resolve(t, ret) == Goto(t, "resolve") /\ next' = [next EXCEPT ![t] = ret]

Return(t, e) ==
  /\ Goto(t, next[t]) /\ next' = [next EXCEPT ![t] = "idle"]
  /\ ep' = [ep EXCEPT ![t] = e]
  /\ previous' = [previous EXCEPT ![t] = 0] /\ found' = [found EXCEPT ![t] = 0]
  /\ UNCHANGED src

ResolveFresh(t) ==
  /\ pc[t] = "resolve" /\ fresh
  /\ Return(t, epoch)
  /\ UNCHANGED <<clusterVars, backendVars, cacheVars>>

(* The caller that finds the epoch stale marks it fresh, then LISTs without*)
(* the lock, while the others go on with the previous epoch.               *)
ResolveStale(t) ==
  /\ pc[t] = "resolve" /\ ~fresh
  /\ fresh' = TRUE
  /\ previous' = [previous EXCEPT ![t] = epoch]
  /\ Goto(t, "list")
  /\ UNCHANGED <<epoch, next, found, ep, src, clusterVars, cacheVars>>

(* Mutation: the oldest name of the list is taken.                         *)
ListReadsOldest(t) ==
  /\ pc[t] = "list"
  /\ found' = [found EXCEPT ![t] = IF newest = 0 THEN 0 ELSE oldest]
  /\ Goto(t, "write")
  /\ UNCHANGED <<next, previous, ep, src, clusterVars, backendVars, cacheVars>>
ListReads(t) ==
  /\ pc[t] = "list"
  /\ found' = [found EXCEPT ![t] = newest]
  /\ Goto(t, "write")
  /\ UNCHANGED <<next, previous, ep, src, clusterVars, backendVars, cacheVars>>

(* Mutation: the request fails with the LIST, in the middle of the call.   *)
ListFailsRaises(t) ==
  /\ pc[t] = "list"
  /\ Goto(t, "idle")
  /\ UNCHANGED <<next, listVars, ep, src, clusterVars, backendVars, cacheVars>>
ListFails(t) ==
  /\ pc[t] = "list"
  /\ Return(t, previous[t])
  /\ UNCHANGED <<clusterVars, backendVars, cacheVars>>

(* Mutation: a changed epoch is returned, not kept.                        *)
ListWritesNothing(t) ==
  /\ pc[t] = "write"
  /\ Return(t, found[t])
  /\ UNCHANGED <<clusterVars, backendVars, cacheVars>>
ListWrites(t) ==
  /\ pc[t] = "write"
  /\ epoch' = found[t]
  /\ Return(t, found[t])
  /\ UNCHANGED <<fresh, clusterVars, cacheVars>>
-----------------------------------------------------------------------------
(* _catalog and _drop_epoch: a query pinned to epoch e reads its snapshot, *)
(* or fails to open it (always, once it aged out), forgets the epoch if it *)
(* is still the current one, and reads the live table.                     *)
(* Mutation: the epoch is forgotten, and looked for when the poll is due.  *)
CatalogLeavesFresh(e, source) ==
  \/ /\ (e = 0 /\ source = 0) \/ (e # 0 /\ oldest =< e /\ source = e)
     /\ UNCHANGED backendVars
  \/ /\ e # 0 /\ source = 0
     /\ epoch' = IF epoch = e THEN 0 ELSE epoch
     /\ UNCHANGED fresh
Catalog(e, source) ==
  \/ /\ e = 0 /\ source = 0
     /\ UNCHANGED backendVars
  \/ /\ e # 0 /\ oldest =< e /\ source = e
     /\ UNCHANGED backendVars
  \/ /\ e # 0 /\ source = 0
     /\ epoch' = IF epoch = e THEN 0 ELSE epoch
     /\ fresh' = (fresh /\ epoch # e)

(* The end of a request.                                                   *)
Done(t) ==
  /\ Goto(t, "idle")
  /\ ep' = [ep EXCEPT ![t] = 0] /\ src' = [src EXCEPT ![t] = {}]
  /\ UNCHANGED <<next, listVars>>
-----------------------------------------------------------------------------
(* list_page by thread t.                                                  *)

ListPage(t) ==
  /\ pc[t] = "idle"
  /\ Resolve(t, "lookup")
  /\ UNCHANGED <<listVars, ep, src, clusterVars, backendVars, cacheVars>>

LookupHit(t) ==
  /\ pc[t] = "lookup" /\ listings[ep[t]] # {}
  /\ src' = [src EXCEPT ![t] = listings[ep[t]]]
  /\ ep' = [ep EXCEPT ![t] = 0]
  /\ Resolve(t, "answer")
  /\ UNCHANGED <<listVars, clusterVars, backendVars, cacheVars>>

LookupMiss(t) ==
  /\ pc[t] = "lookup" /\ listings[ep[t]] = {}
  /\ \E s \in Epochs : Catalog(ep[t], s) /\ src' = [src EXCEPT ![t] = {s}]
  /\ Goto(t, "store")
  /\ UNCHANGED <<next, listVars, ep, clusterVars, cacheVars>>

Store(t) ==
  /\ pc[t] = "store"
  /\ \E out \in Evictable(listings, ep[t]) :
       listings' = Put(listings, ep[t], src[t], out)
  /\ ep' = [ep EXCEPT ![t] = 0]
  /\ Resolve(t, "answer")
  /\ UNCHANGED <<listVars, src, rollups, clusterVars, backendVars>>

(* The answer reports an epoch resolved anew.                              *)
Answer(t) ==
  /\ pc[t] = "answer"
  /\ Done(t)
  /\ UNCHANGED <<clusterVars, backendVars, cacheVars>>
-----------------------------------------------------------------------------
(* A rollup: the handler's look at the cache, then compute in a job.       *)

AskRollup(t) ==
  /\ pc[t] = "idle"
  /\ Resolve(t, "check")
  /\ UNCHANGED <<listVars, ep, src, clusterVars, backendVars, cacheVars>>

CheckHit(t) ==
  /\ pc[t] = "check" /\ rollups[ep[t]] # {}
  /\ Done(t)
  /\ UNCHANGED <<clusterVars, backendVars, cacheVars>>

CheckMiss(t) ==
  /\ pc[t] = "check" /\ rollups[ep[t]] = {}
  /\ ep' = [ep EXCEPT ![t] = 0]
  /\ Resolve(t, "scan")
  /\ UNCHANGED <<listVars, src, clusterVars, backendVars, cacheVars>>

ScanSubtree(t) ==
  /\ pc[t] = "scan"
  /\ \E s \in Epochs : Catalog(ep[t], s) /\ src' = [src EXCEPT ![t] = {s}]
  /\ Goto(t, "seed")
  /\ UNCHANGED <<next, listVars, ep, clusterVars, cacheVars>>

SeedChildren(t) ==
  /\ pc[t] = "seed"
  /\ \E s \in Epochs : Catalog(ep[t], s) /\ src' = [src EXCEPT ![t] = @ \cup {s}]
  /\ Goto(t, "keep")
  /\ UNCHANGED <<next, listVars, ep, clusterVars, cacheVars>>

(* Mutation: the key is built from the epoch at the time of the put.       *)
KeepUnderNewEpoch(t) ==
  /\ pc[t] = "keep"
  /\ \E out \in Evictable(rollups, epoch) :
       rollups' = Put(rollups, epoch, src[t], out)
  /\ Done(t)
  /\ UNCHANGED <<listings, clusterVars, backendVars>>
Keep(t) ==
  /\ pc[t] = "keep"
  /\ \E out \in Evictable(rollups, ep[t]) :
       rollups' = Put(rollups, ep[t], src[t], out)
  /\ Done(t)
  /\ UNCHANGED <<listings, clusterVars, backendVars>>

(* Any query may fail: the request fails, and nothing is cached.           *)
QueryFails(t) ==
  /\ \/ pc[t] = "lookup" /\ listings[ep[t]] = {}
     \/ pc[t] \in {"scan", "seed"}
  /\ Done(t)
  /\ UNCHANGED <<clusterVars, backendVars, cacheVars>>
-----------------------------------------------------------------------------
CurrentEpoch(t) ==
  \/ ResolveFresh(t) \/ ResolveStale(t)
  \/ ListReads(t) \/ ListFails(t) \/ ListWrites(t)

Listing(t) ==
  \/ ListPage(t) \/ LookupHit(t) \/ LookupMiss(t)
  \/ Store(t) \/ Answer(t)

Rollup(t) ==
  \/ AskRollup(t) \/ CheckHit(t) \/ CheckMiss(t)
  \/ ScanSubtree(t) \/ SeedChildren(t) \/ Keep(t)

Next ==
  \/ Land \/ AgeOut \/ PollDue
  \/ \E e \in Epochs : ListingExpires(e) \/ RollupExpires(e)
  \/ \E t \in Threads : CurrentEpoch(t) \/ QueryFails(t)
  \/ \E t \in Listers : Listing(t)
  \/ \E t \in Rollers : Rollup(t)

Spec == Init /\ [][Next]_vars

(* Requests keep coming and proceed, time passes, and LIST, tried again and*)
(* again, succeeds again and again.                                        *)
FairSpec ==
  /\ Spec /\ WF_vars(PollDue)
  /\ \A t \in Threads : /\ WF_vars(CurrentEpoch(t)) /\ SF_vars(ListReads(t))
  /\ \A t \in Listers : WF_vars(Listing(t))
  /\ \A t \in Rollers : WF_vars(Rollup(t))
-----------------------------------------------------------------------------
(* Properties.                                                             *)

(* What is cached under an epoch was read from that snapshot, or from the  *)
(* live table when the snapshot could not be opened; never from another    *)
(* snapshot, however the epoch moved meanwhile (catalog.py:597-655,        *)
(* 944-972, 1024).                                                         *)
EntriesDescribeTheirEpoch ==
  \A e \in Epochs : listings[e] \subseteq {0, e} /\ rollups[e] \subseteq {0, e}

(* The epoch goes back in two cases only: its snapshot could not be opened,*)
(* and the next request resolves it anew; or two LISTs overlapped, and one *)
(* found less than was known when it ended (catalog.py:310-350).           *)
BackForAReason ==
  [][epoch' < epoch
       => \/ epoch' = 0 /\ ~fresh'
          \/ \E t \in Threads : pc[t] = "write" /\ previous[t] # epoch]_vars

(* The epoch keeps coming back to the newest snapshot, even if overlapping *)
(* LISTs, failed LISTs or failed lookups led it astray (catalog.py:310-350)*)
EpochCatchesUp == []<>(epoch = newest)

=============================================================================
