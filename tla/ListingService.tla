--------------------------- MODULE ListingService ---------------------------
(***************************************************************************)
(* ListingService in catwalk/catalog.py: how requests for a directory,     *)
(* prefetches of it and the warmer share one cache and one query gate.     *)
(*                                                                         *)
(* One directory.  It is clicked (list_page, listing_table), prefetched by *)
(* listings of its parent (prefetch_children), and warmed (warm_listing).  *)
(* A prefetch is named by the listing of the parent that submits it.       *)
(*                                                                         *)
(* The cache is the part of TTLCache that matters to its callers, lookup,  *)
(* election of a leader, and outcome; storing a value, unlinking the flight*)
(* and resolving it are one step here.  The epoch is what current_epoch    *)
(* returns; a later one may replace it at any time (see CatalogEpoch).     *)
(* A listing is a set of rows and its mark; ListingPages has their order.  *)
(***************************************************************************)
EXTENDS Integers, Sequences, FiniteSets

CONSTANTS Clicks,        \* requests for the directory
          Filtered,      \* those of them with a type or name filter
          Parents,       \* listings of the parent; the prefetch each submits
          Warms,         \* visits of the warmer
          PoolSize,      \* workers of _prefetch_pool
          QueryThreads,  \* query_threads, the slots of the query gate
          MaxEpoch,      \* bound on the epochs that the model goes through
          Rows,          \* the rows that the directory may have
          Contents,      \* those it has in each epoch: the catalogs there are
          Wanted,        \* rows that pass the filter of filtered requests
          ListingCap,    \* listing_cap, the rows a query may keep
          NoOne,         \* no leader, no future
          NoEntry        \* no listing

Threads == Clicks \cup Parents \cup Warms
Epochs  == 0..MaxEpoch
Keys    == Epochs \X {"all", "filtered"}
Entries == [truncated : BOOLEAN, rows : SUBSET Rows]

ASSUME ListingAssumption ==
  /\ Filtered \subseteq Clicks
  /\ IsFiniteSet(Threads)
  /\ Clicks \cap Parents = {} /\ Clicks \cap Warms = {}
  /\ Parents \cap Warms = {}
  /\ PoolSize \in Nat \ {0} /\ QueryThreads \in Nat \ {0}
  /\ MaxEpoch \in Nat /\ ListingCap \in Nat
  /\ IsFiniteSet(Rows) /\ Contents \subseteq [Epochs -> SUBSET Rows]
  /\ NoOne \notin Threads /\ NoEntry \notin Entries

VARIABLES
  epoch,         \* what backend.current_epoch() returns
  content,       \* the rows of the directory in the snapshot of each epoch
  closed,        \* close() was called: the server is shutting down
  cache,         \* cached listings by key
  flight,        \* the leader of the flight of each key
  gate,          \* free slots of the query gate
  registered,    \* _prefetch_futures.get(directory)
  future,        \* state of the future of each prefetch
  callbacks,     \* futures that have their done callback
  poolq,         \* work queue of the prefetch pool
  phase,         \* where each parent is in prefetch_children
  pc, ep,        \* where each thread is in its listing, and its epoch
  found,         \* the future each click found registered
  late,          \* clicks whose join of that future timed out
  got            \* the listing each thread ended with

world        == <<epoch, content, closed>>
sharedVars   == <<cache, flight, gate>>
registryVars == <<registered, future, callbacks>>
poolVars     == <<poolq, phase>>
clickVars    == <<found, late>>
outside      == <<world, registryVars, poolVars, ep, clickVars>>
vars == <<epoch, content, closed, cache, flight, gate, registered, future, callbacks,
          poolq, phase, pc, ep, found, late, got>>

Key(t) == <<ep[t], IF t \in Filtered THEN "filtered" ELSE "all">>

TypeOK ==
  /\ epoch \in Epochs /\ content \in Contents /\ closed \in BOOLEAN
  /\ cache \in [Keys -> Entries \cup {NoEntry}]
  /\ flight \in [Keys -> Threads \cup {NoOne}]
  /\ gate \in 0..QueryThreads
  /\ registered \in Parents \cup {NoOne}
  /\ future \in [Parents -> {"none", "pending", "running", "cancelled",
                             "finished"}]
  /\ callbacks \subseteq Parents /\ poolq \in Seq(Parents)
  /\ phase \in [Parents -> {"look", "submit", "callback", "over"}]
  /\ pc \in [Threads -> {"start", "peek", "cancel", "pop", "join", "check",
                         "lookup", "flight", "wait", "compute", "gate",
                         "query", "store", "over"}]
  /\ ep \in [Threads -> Epochs]
  /\ found \in [Clicks -> Parents \cup {NoOne}] /\ late \subseteq Clicks
  /\ got \in [Threads -> Entries \cup {NoEntry}]

Init ==
  /\ epoch = 0 /\ content \in Contents /\ closed = FALSE
  /\ cache = [k \in Keys |-> NoEntry] /\ flight = [k \in Keys |-> NoOne]
  /\ gate = QueryThreads
  /\ registered = NoOne /\ future = [p \in Parents |-> "none"]
  /\ callbacks = {} /\ poolq = <<>>
  /\ phase = [p \in Parents |-> "look"]
  /\ pc = [t \in Threads |-> "start"] /\ ep = [t \in Threads |-> 0]
  /\ found = [t \in Clicks |-> NoOne] /\ late = {}
  /\ got = [t \in Threads |-> NoEntry]

Goto(t, label) == pc' = [pc EXCEPT ![t] = label]

(* The threads of ts end their listing with e.                             *)
End(ts, e) ==
  /\ pc' = [t \in Threads |-> IF t \in ts THEN "over" ELSE pc[t]]
  /\ got' = [t \in Threads |-> IF t \in ts THEN e ELSE got[t]]
-----------------------------------------------------------------------------
(* The world: a new snapshot is the epoch; entries expire or are    *)
(* evicted.                                                                *)

NewEpoch ==
  /\ epoch < MaxEpoch
  /\ epoch' = epoch + 1
  /\ UNCHANGED <<content, closed, sharedVars, registryVars, poolVars, pc, ep,
                 clickVars, got>>

Vanish(k) ==
  /\ cache[k] # NoEntry
  /\ cache' = [cache EXCEPT ![k] = NoEntry]
  /\ UNCHANGED <<outside, flight, gate, pc, got>>
-----------------------------------------------------------------------------
(* prefetch_children, in the listing of parent p.                          *)

(* The directory is cached under the current epoch, or it is not.          *)
PrefetchLook(p) ==
  /\ phase[p] = "look" /\ ~closed
  /\ phase' = [phase EXCEPT ![p] = IF cache[<<epoch, "all">>] # NoEntry
                                   THEN "over" ELSE "submit"]
  /\ UNCHANGED <<world, sharedVars, registryVars, poolq, pc, ep, clickVars,
                 got>>

(* Under the lock: submit, unless a prefetch is registered.                *)
PrefetchSubmit(p) ==
  /\ phase[p] = "submit"
  /\ IF registered # NoOne
     THEN /\ phase' = [phase EXCEPT ![p] = "over"]
          /\ UNCHANGED <<registered, future, poolq>>
     ELSE /\ phase' = [phase EXCEPT ![p] = "callback"]
          /\ registered' = p
          /\ future' = [future EXCEPT ![p] = "pending"]
          /\ poolq' = Append(poolq, p)
  /\ UNCHANGED <<world, sharedVars, callbacks, pc, ep, clickVars, got>>

(* _forget_prefetch, the done callback of the future of p.                 *)
Forget(p) == registered' = IF registered = p THEN NoOne ELSE registered

(* add_done_callback: on a future that is done, the callback runs at once. *)
(* Mutation: it is lost instead.                                           *)
AddCallbackTooLate(p) ==
  /\ phase[p] = "callback"
  /\ phase' = [phase EXCEPT ![p] = "over"]
  /\ callbacks' = callbacks \cup {p}
  /\ UNCHANGED <<world, sharedVars, registered, future, poolq, pc, ep,
                 clickVars, got>>
AddCallback(p) ==
  /\ phase[p] = "callback"
  /\ phase' = [phase EXCEPT ![p] = "over"]
  /\ IF future[p] \in {"cancelled", "finished"}
     THEN Forget(p) /\ UNCHANGED callbacks
     ELSE callbacks' = callbacks \cup {p} /\ UNCHANGED registered
  /\ UNCHANGED <<world, sharedVars, future, poolq, pc, ep, clickVars, got>>

(* The future of p ends in state s, and its callback runs if it is there.  *)
Settle(p, s) ==
  /\ future' = [future EXCEPT ![p] = s]
  /\ IF p \in callbacks THEN Forget(p) ELSE UNCHANGED registered
  /\ UNCHANGED callbacks

(* A worker of the pool (external) takes the next item: _prefetch_one, or  *)
(* nothing if the item was cancelled.                                      *)
Running == {p \in Parents : future[p] = "running"}

TakePrefetch ==
  /\ poolq # <<>> /\ Cardinality(Running) < PoolSize
  /\ poolq' = Tail(poolq)
  /\ future' = IF future[Head(poolq)] = "pending"
               THEN [future EXCEPT ![Head(poolq)] = "running"] ELSE future
  /\ UNCHANGED <<world, sharedVars, registered, callbacks, phase, pc, ep,
                 clickVars, got>>

(* _prefetch_one returns, whatever its listing came to.                    *)
PrefetchDone(p) ==
  /\ future[p] = "running" /\ pc[p] = "over"
  /\ Settle(p, "finished")
  /\ UNCHANGED <<world, sharedVars, poolVars, pc, ep, clickVars, got>>

(* close, once requests and warmer have ended: what waits in the pool is   *)
(* cancelled, what runs is waited for.                                     *)
Close ==
  /\ ~closed
  /\ \A t \in Clicks \cup Warms : pc[t] \in {"start", "over"}
  /\ \A p \in Parents : phase[p] \in {"look", "over"}
  /\ closed' = TRUE
  /\ future' = [p \in Parents |-> IF future[p] = "pending" THEN "cancelled"
                                  ELSE future[p]]
  /\ registered' = IF registered # NoOne /\ future'[registered] = "cancelled"
                   THEN NoOne ELSE registered
  /\ poolq' = <<>>
  /\ UNCHANGED <<epoch, content, sharedVars, callbacks, phase, pc, ep, clickVars, got>>
-----------------------------------------------------------------------------
(* _base_listing and warm_listing up to the cache.                         *)

(* current_epoch.  A click then looks for a prefetch to join, a prefetch   *)
(* itself does not, and warm_listing only looks at the cache.              *)
Begin(t) ==
  /\ pc[t] = "start"
  /\ IF t \in Parents THEN future[t] = "running" ELSE ~closed
  /\ ep' = [ep EXCEPT ![t] = epoch]
  /\ Goto(t, IF t \in Clicks THEN "peek"
             ELSE IF t \in Parents THEN "lookup" ELSE "check")
  /\ UNCHANGED <<world, sharedVars, registryVars, poolVars, clickVars, got>>

Peek(t) ==
  /\ pc[t] = "peek"
  /\ found' = [found EXCEPT ![t] = registered]
  /\ Goto(t, IF registered = NoOne THEN "lookup" ELSE "cancel")
  /\ UNCHANGED <<world, sharedVars, registryVars, poolVars, ep, late, got>>

(* fut.cancel(): succeeds on a pending future, and on a cancelled one.     *)
CancelPrefetch(t) ==
  /\ pc[t] = "cancel"
  /\ IF future[found[t]] = "pending"
     THEN Settle(found[t], "cancelled") ELSE UNCHANGED registryVars
  /\ Goto(t, IF future[found[t]] \in {"pending", "cancelled"}
             THEN "pop" ELSE "join")
  /\ UNCHANGED <<world, sharedVars, poolVars, ep, clickVars, got>>

(* The entry is popped whichever future it holds by now.                   *)
Pop(t) ==
  /\ pc[t] = "pop"
  /\ registered' = NoOne
  /\ Goto(t, "lookup")
  /\ UNCHANGED <<world, sharedVars, future, callbacks, poolVars, ep,
                 clickVars, got>>

JoinDone(t) ==
  /\ pc[t] = "join" /\ future[found[t]] = "finished"
  /\ Goto(t, "lookup")
  /\ UNCHANGED <<outside, sharedVars, got>>

JoinTimeout(t) ==
  /\ pc[t] = "join" /\ future[found[t]] # "finished"
  /\ late' = late \cup {t}
  /\ Goto(t, "lookup")
  /\ UNCHANGED <<world, sharedVars, registryVars, poolVars, ep, found, got>>

(* warm_listing finds an entry with enough life left, or goes to query.    *)
WarmHit(t) ==
  /\ pc[t] = "check" /\ cache[Key(t)] # NoEntry
  /\ End({t}, cache[Key(t)])
  /\ UNCHANGED <<outside, sharedVars>>

WarmMiss(t) ==
  /\ pc[t] = "check"
  /\ Goto(t, "gate")
  /\ UNCHANGED <<outside, sharedVars, got>>
-----------------------------------------------------------------------------
(* get_or_compute, and the query.                                          *)

LookupHit(t) ==
  /\ pc[t] = "lookup" /\ cache[Key(t)] # NoEntry
  /\ End({t}, cache[Key(t)])
  /\ UNCHANGED <<outside, sharedVars>>

LookupMiss(t) ==
  /\ pc[t] = "lookup" /\ cache[Key(t)] = NoEntry
  /\ Goto(t, "flight")
  /\ UNCHANGED <<outside, sharedVars, got>>

Lead(t) ==
  /\ pc[t] = "flight" /\ flight[Key(t)] = NoOne
  /\ flight' = [flight EXCEPT ![Key(t)] = t]
  /\ Goto(t, IF t \in Filtered THEN "compute" ELSE "gate")
  /\ UNCHANGED <<outside, cache, gate, got>>

Follow(t) ==
  /\ pc[t] = "flight" /\ flight[Key(t)] # NoOne
  /\ Goto(t, "wait")
  /\ UNCHANGED <<outside, sharedVars, got>>

(* The unfiltered listing that a filtered one can be derived from: cached  *)
(* under the same epoch and complete.  Mutation: complete or not.          *)
CanDeriveAny(t) == cache[<<ep[t], "all">>] # NoEntry
CanDerive(t) ==
  /\ cache[<<ep[t], "all">>] # NoEntry
  /\ ~cache[<<ep[t], "all">>].truncated

Derive(t) ==
  /\ pc[t] = "compute" /\ CanDerive(t)
  /\ LET full == cache[<<ep[t], "all">>]
     IN  got' = [got EXCEPT ![t] = [truncated |-> FALSE,
                                    rows |-> full.rows \cap Wanted]]
  /\ Goto(t, "store")
  /\ UNCHANGED <<outside, sharedVars>>

CannotDerive(t) ==
  /\ pc[t] = "compute" /\ ~CanDerive(t)
  /\ Goto(t, "gate")
  /\ UNCHANGED <<outside, sharedVars, got>>

(* Mutation: the slot is taken whether one is free or not.                 *)
AcquireAnyway(t) ==
  /\ pc[t] = "gate"
  /\ gate' = gate - 1
  /\ Goto(t, "query")
  /\ UNCHANGED <<outside, cache, flight, got>>
Acquire(t) ==
  /\ pc[t] = "gate" /\ gate > 0
  /\ gate' = gate - 1
  /\ Goto(t, "query")
  /\ UNCHANGED <<outside, cache, flight, got>>

(* What list_dir yields for a key: the rows of that epoch that pass the    *)
(* filter, whether the catalog applies it or the client, batch by batch.   *)
Matching(k) == IF k[2] = "filtered" THEN content[k[1]] \cap Wanted
                                    ELSE content[k[1]]

(* The query reads every row, or keeps the first listing_cap, which may be *)
(* any, and says so.                                                       *)
Capped(k) ==
  IF Cardinality(Matching(k)) =< ListingCap
  THEN {[truncated |-> FALSE, rows |-> Matching(k)]}
  ELSE {[truncated |-> TRUE, rows |-> kept] :
          kept \in {s \in SUBSET Matching(k) : Cardinality(s) = ListingCap}}

QueryOk(t) ==
  /\ pc[t] = "query"
  /\ gate' = gate + 1
  /\ \E e \in Capped(Key(t)) : got' = [got EXCEPT ![t] = e]
  /\ Goto(t, "store")
  /\ UNCHANGED <<outside, cache, flight>>

(* The flight of t ends: t and the followers of its key end with e.        *)
Followers(t) ==
  IF t \in Warms THEN {}
  ELSE {f \in Threads : pc[f] = "wait" /\ Key(f) = Key(t)}

(* Mutation: only t itself ends.                                           *)
LandAlone(t, e) ==
  /\ End({t}, e)
  /\ flight' = IF t \in Warms THEN flight
               ELSE [flight EXCEPT ![Key(t)] = NoOne]
Land(t, e) ==
  /\ End({t} \cup Followers(t), e)
  /\ flight' = IF t \in Warms THEN flight
               ELSE [flight EXCEPT ![Key(t)] = NoOne]

(* The query fails: so do the flight and all who wait for it.              *)
(* Mutation: it keeps its slot.                                            *)
QueryFailsWithSlot(t) ==
  /\ pc[t] = "query"
  /\ Land(t, NoEntry)
  /\ UNCHANGED <<outside, cache, gate>>
QueryFails(t) ==
  /\ pc[t] = "query"
  /\ gate' = gate + 1
  /\ Land(t, NoEntry)
  /\ UNCHANGED <<outside, cache>>

(* put, which refuses a listing larger than the whole cache.               *)
Store(t) ==
  /\ pc[t] = "store"
  /\ cache' \in {cache, [cache EXCEPT ![Key(t)] = got[t]]}
  /\ Land(t, got[t])
  /\ UNCHANGED <<outside, gate>>
-----------------------------------------------------------------------------
Click(t) ==
  Peek(t) \/ CancelPrefetch(t) \/ Pop(t) \/ JoinDone(t) \/ JoinTimeout(t)

Listing(t) ==
  \/ Begin(t) \/ WarmHit(t) \/ WarmMiss(t)
  \/ LookupHit(t) \/ LookupMiss(t) \/ Lead(t) \/ Follow(t)
  \/ Derive(t) \/ CannotDerive(t) \/ Acquire(t)
  \/ QueryOk(t) \/ QueryFails(t) \/ Store(t)

Prefetch(p) ==
  PrefetchLook(p) \/ PrefetchSubmit(p) \/ AddCallback(p) \/ PrefetchDone(p)

(* Shut down, and nothing runs any more.                                   *)
Idle == closed /\ (\A p \in Parents : future[p] # "running") /\ UNCHANGED vars

Next ==
  \/ NewEpoch \/ \E k \in Keys : Vanish(k)
  \/ \E t \in Clicks : Click(t)
  \/ \E t \in Threads : Listing(t)
  \/ \E p \in Parents : Prefetch(p)
  \/ TakePrefetch \/ Close
  \/ Idle

Spec == Init /\ [][Next]_vars

(* Threads that can go on do, queries end (client timeouts), and the finite*)
(* number of requests makes weak fairness enough for the gate.             *)
FairSpec ==
  /\ Spec
  /\ \A t \in Clicks : WF_vars(Click(t))
  /\ \A t \in Threads : WF_vars(Listing(t))
  /\ \A p \in Parents : WF_vars(Prefetch(p))
  /\ WF_vars(TakePrefetch)
-----------------------------------------------------------------------------
(* Properties.                                                             *)

(* A listing is what a query of its own for its key may show: all rows of  *)
(* one catalog state that pass the filter, or as many as the cap allows,   *)
(* marked truncated - whether it was queried, cached, shared with others   *)
(* or derived from another listing (catalog.py:603-605, 637-651, 684-691). *)
Exact(k, e) == e # NoEntry => e \in Capped(k)
ListingsAreExact ==
  /\ \A k \in Keys : Exact(k, cache[k])
  /\ \A t \in Threads : Exact(Key(t), got[t])

(* A request, a prefetch or the warmer, wherever it waits, waits for work  *)
(* that is under way: a click joins a prefetch that runs or has ended; who *)
(* follows a flight has a leader of its key, which computes, and so follows*)
(* and joins nobody; and when no slot of the gate is free, somebody queries*)
(* and will give one back, however queries end (catalog.py:611-655, 669-   *)
(* 691).  Prefetches, clicks and the warmer wait for each other in no ring.*)
Computing == {"compute", "gate", "query", "store"}
NobodyWaitsInVain ==
  /\ \A t \in Clicks :
       pc[t] = "join" => future[found[t]] \in {"running", "finished"}
  /\ \A t \in Threads : pc[t] = "wait" =>
       \E l \in Clicks \cup Parents :
         flight[Key(t)] = l /\ Key(l) = Key(t) /\ pc[l] \in Computing
  /\ gate = 0 => \E t \in Threads : pc[t] = "query"

(* A prefetch that is over does not stay registered: the directory would   *)
(* never be prefetched again (catalog.py:815-823, 832-835).                *)
RegistryDrains == \A p \in Parents : registered = p ~> registered # p

(* Every click that arrives is answered, though it may wait for a prefetch,*)
(* a flight and the gate, and they for each other (catalog.py:597-655).    *)
Answered == \A t \in Clicks : pc[t] # "start" ~> pc[t] = "over"

(* catalog.py:66-69: the join of a prefetch is "bounded: a prefetch hung on*)
(* a dead VIP must not pin a user request for minutes (a fresh query may   *)
(* reach a healthy VIP)".  It does: the click that gave the prefetch up    *)
(* waits for its flight next.                                              *)
NotPinnedByPrefetch ==
  \A t \in late : pc[t] = "wait" => flight[Key(t)] # found[t]
=============================================================================
