------------------------- MODULE CatalogEpochProofs -------------------------
(***************************************************************************)
(* Theorems about CatalogEpoch, for any number of threads and snapshots:   *)
(* its type correctness, that cached results are pinned to the epoch in    *)
(* their key, and when the epoch goes back.                                *)
(***************************************************************************)
EXTENDS CatalogEpoch, TLAPS

(* What a thread has read under its epoch, the inductive core of the       *)
(* properties of the caches.                                               *)
Pinned ==
  \A t \in Threads :
    pc[t] \in {"store", "seed", "keep"} => src[t] \subseteq {0, ep[t]}

(* No epoch is ahead of the cluster, and a LIST finds none older than the  *)
(* one it is to replace.                                                   *)
Behind ==
  /\ epoch =< newest
  /\ \A t \in Threads : /\ previous[t] =< newest
                        /\ pc[t] = "write" => previous[t] =< found[t]
                        /\ found[t] =< newest

(* The types of one action at a time: the threads' control and locals.     *)
LEMMA TypeInit == Init => TypeOK
<1> SUFFICES ASSUME Init
             PROVE  TypeOK
  OBVIOUS
<1>1. newest \in Epochs /\ oldest \in 1..(MaxSnap + 1)
  BY CatalogEpochAssumption DEF Init, Epochs
<1>2. 0 \in Epochs /\ {} \in SUBSET Epochs
  BY CatalogEpochAssumption DEF Epochs
<1> QED
  BY <1>1, <1>2 DEF Init, TypeOK, Returns

LEMMA TypeStep == TypeOK /\ [Next]_vars => TypeOK'
<1> SUFFICES ASSUME TypeOK, [Next]_vars
             PROVE  TypeOK'
  OBVIOUS
<1> USE CatalogEpochAssumption DEF TypeOK, Returns, Goto, clusterVars,
        backendVars, cacheVars, listVars, threadVars
<1>1. CASE Land
  BY <1>1 DEF Land, Epochs
<1>2. CASE AgeOut
  BY <1>2 DEF AgeOut, Epochs
<1>3. CASE PollDue
  BY <1>3 DEF PollDue
<1>4. CASE \E e \in Epochs : ListingExpires(e) \/ RollupExpires(e)
  BY <1>4 DEF ListingExpires, RollupExpires
<1>5. ASSUME NEW t \in Threads, CurrentEpoch(t)
      PROVE  TypeOK'
  <2>1. 0 \in Epochs
    BY DEF Epochs
  <2>2. CASE ResolveFresh(t)
    BY <2>1, <2>2 DEF ResolveFresh, Return
  <2>3. CASE ResolveStale(t)
    BY <2>3 DEF ResolveStale
  <2>4. CASE ListReads(t)
    BY <2>4 DEF ListReads
  <2>5. CASE ListFails(t)
    BY <2>1, <2>5 DEF ListFails, Return
  <2>6. CASE ListWrites(t)
    BY <2>1, <2>6 DEF ListWrites, Return
  <2> QED
    BY <1>5, <2>2, <2>3, <2>4, <2>5, <2>6 DEF CurrentEpoch
<1>6. ASSUME NEW t \in Threads, QueryFails(t)
      PROVE  TypeOK'
  BY <1>6 DEF QueryFails, Done, Epochs
<1>7. ASSUME NEW t \in Listers, Listing(t)
      PROVE  TypeOK'
  <2>1. t \in Threads /\ 0 \in Epochs
    BY DEF Threads, Epochs
  <2>2. CASE ListPage(t)
    BY <2>1, <2>2 DEF ListPage, Resolve
  <2>3. CASE LookupHit(t)
    BY <2>1, <2>3 DEF LookupHit, Resolve
  <2>4. CASE LookupMiss(t)
    <3>1. PICK s \in Epochs :
            Catalog(ep[t], s) /\ src' = [src EXCEPT ![t] = {s}]
      BY <2>4 DEF LookupMiss
    <3>2. epoch' \in Epochs /\ fresh' \in BOOLEAN
      BY <2>1, <3>1 DEF Catalog
    <3>3. src' \in [Threads -> SUBSET Epochs]
      BY <2>1, <3>1
    <3> QED
      BY <2>1, <2>4, <3>2, <3>3 DEF LookupMiss
  <2>5. CASE Store(t)
    <3>1. PICK out \in Evictable(listings, ep[t]) :
            listings' = Put(listings, ep[t], src[t], out)
      BY <2>5 DEF Store
    <3> QED
      BY <2>1, <2>5, <3>1 DEF Store, Resolve, Put
  <2>6. CASE Answer(t)
    BY <2>1, <2>6 DEF Answer, Done
  <2> QED
    BY <1>7, <2>2, <2>3, <2>4, <2>5, <2>6 DEF Listing
<1>8. ASSUME NEW t \in Rollers, Rollup(t)
      PROVE  TypeOK'
  <2>1. t \in Threads /\ 0 \in Epochs
    BY DEF Threads, Epochs
  <2>2. CASE AskRollup(t)
    BY <2>1, <2>2 DEF AskRollup, Resolve
  <2>3. CASE CheckHit(t)
    BY <2>1, <2>3 DEF CheckHit, Done
  <2>4. CASE CheckMiss(t)
    BY <2>1, <2>4 DEF CheckMiss, Resolve
  <2>5. CASE ScanSubtree(t)
    <3>1. PICK s \in Epochs :
            Catalog(ep[t], s) /\ src' = [src EXCEPT ![t] = {s}]
      BY <2>5 DEF ScanSubtree
    <3>2. epoch' \in Epochs /\ fresh' \in BOOLEAN
      BY <2>1, <3>1 DEF Catalog
    <3>3. src' \in [Threads -> SUBSET Epochs]
      BY <2>1, <3>1
    <3> QED
      BY <2>1, <2>5, <3>2, <3>3 DEF ScanSubtree
  <2>6. CASE SeedChildren(t)
    <3>1. PICK s \in Epochs :
            Catalog(ep[t], s) /\ src' = [src EXCEPT ![t] = @ \cup {s}]
      BY <2>6 DEF SeedChildren
    <3>2. epoch' \in Epochs /\ fresh' \in BOOLEAN
      BY <2>1, <3>1 DEF Catalog
    <3>3. src' \in [Threads -> SUBSET Epochs]
      BY <2>1, <3>1
    <3> QED
      BY <2>1, <2>6, <3>2, <3>3 DEF SeedChildren
  <2>7. CASE Keep(t)
    <3>1. PICK out \in Evictable(rollups, ep[t]) :
            rollups' = Put(rollups, ep[t], src[t], out)
      BY <2>7 DEF Keep
    <3> QED
      BY <2>1, <2>7, <3>1 DEF Keep, Done, Put
  <2> QED
    BY <1>8, <2>2, <2>3, <2>4, <2>5, <2>6, <2>7 DEF Rollup
<1>9. CASE UNCHANGED vars
  BY <1>9 DEF vars
<1> QED
  BY <1>1, <1>2, <1>3, <1>4, <1>5, <1>6, <1>7, <1>8, <1>9 DEF Next

(* Epochs, cache contents and the control of the threads keep their types. *)
THEOREM TypeCorrect == Spec => []TypeOK
<1>1. Init => TypeOK
  BY TypeInit
<1>2. TypeOK /\ [Next]_vars => TypeOK'
  BY TypeStep
<1> QED
  BY <1>1, <1>2, PTL DEF Spec
-----------------------------------------------------------------------------
(* A query pinned to e reads e or the live table.                          *)
LEMMA CatalogSource ==
  ASSUME NEW e, NEW s, Catalog(e, s)
  PROVE  s \in {0, e}
  BY DEF Catalog

LEMMA PinnedStep ==
  TypeOK /\ Pinned /\ EntriesDescribeTheirEpoch /\ [Next]_vars
    => (Pinned /\ EntriesDescribeTheirEpoch)'
<1> SUFFICES ASSUME TypeOK, Pinned, EntriesDescribeTheirEpoch, [Next]_vars
             PROVE  (Pinned /\ EntriesDescribeTheirEpoch)'
  OBVIOUS
<1> USE DEF TypeOK, Pinned, EntriesDescribeTheirEpoch, Returns, Goto,
        clusterVars, backendVars, cacheVars, listVars, threadVars
<1>1. CASE Land \/ AgeOut \/ PollDue
  BY <1>1 DEF Land, AgeOut, PollDue
<1>2. CASE \E e \in Epochs : ListingExpires(e) \/ RollupExpires(e)
  BY <1>2 DEF ListingExpires, RollupExpires
<1>3. ASSUME NEW t \in Threads, CurrentEpoch(t)
      PROVE  (Pinned /\ EntriesDescribeTheirEpoch)'
  <2>1. UNCHANGED <<listings, rollups, src>>
    BY <1>3 DEF CurrentEpoch, ResolveFresh, ResolveStale, ListReads, ListFails,
                ListWrites, Return
  <2>2. pc'[t] \notin {"store", "seed", "keep"}
    BY <1>3 DEF CurrentEpoch, ResolveFresh, ResolveStale, ListReads, ListFails,
                ListWrites, Return
  <2>3. \A u \in Threads \ {t} : pc'[u] = pc[u] /\ ep'[u] = ep[u]
    BY <1>3 DEF CurrentEpoch, ResolveFresh, ResolveStale, ListReads, ListFails,
                ListWrites, Return
  <2> QED
    BY <2>1, <2>2, <2>3
<1>4. ASSUME NEW t \in Threads, QueryFails(t)
      PROVE  (Pinned /\ EntriesDescribeTheirEpoch)'
  BY <1>4 DEF QueryFails, Done
<1>5. ASSUME NEW t \in Listers, Listing(t)
      PROVE  (Pinned /\ EntriesDescribeTheirEpoch)'
  <2>1. t \in Threads
    BY DEF Threads
  <2>2. CASE ListPage(t)
    BY <2>1, <2>2 DEF ListPage, Resolve
  <2>3. CASE LookupHit(t)
    BY <2>1, <2>3 DEF LookupHit, Resolve
  <2>4. CASE LookupMiss(t)
    <3>1. PICK s \in Epochs : Catalog(ep[t], s) /\ src' = [src EXCEPT ![t] = {s}]
      BY <2>4 DEF LookupMiss
    <3>2. s \in {0, ep[t]}
      BY <3>1, CatalogSource
    <3> QED
      BY <2>1, <2>4, <3>1, <3>2 DEF LookupMiss
  <2>5. CASE Store(t)
    <3>1. PICK out \in Evictable(listings, ep[t]) :
            listings' = Put(listings, ep[t], src[t], out)
      BY <2>5 DEF Store
    <3> QED
      BY <2>1, <2>5, <3>1 DEF Store, Resolve, Put
  <2>6. CASE Answer(t)
    BY <2>1, <2>6 DEF Answer, Done
  <2> QED
    BY <1>5, <2>2, <2>3, <2>4, <2>5, <2>6 DEF Listing
<1>6. ASSUME NEW t \in Rollers, Rollup(t)
      PROVE  (Pinned /\ EntriesDescribeTheirEpoch)'
  <2>1. t \in Threads
    BY DEF Threads
  <2>2. CASE AskRollup(t)
    BY <2>1, <2>2 DEF AskRollup, Resolve
  <2>3. CASE CheckHit(t)
    BY <2>1, <2>3 DEF CheckHit, Done
  <2>4. CASE CheckMiss(t)
    BY <2>1, <2>4 DEF CheckMiss, Resolve
  <2>5. CASE ScanSubtree(t)
    <3>1. PICK s \in Epochs : Catalog(ep[t], s) /\ src' = [src EXCEPT ![t] = {s}]
      BY <2>5 DEF ScanSubtree
    <3>2. s \in {0, ep[t]}
      BY <3>1, CatalogSource
    <3> QED
      BY <2>1, <2>5, <3>1, <3>2 DEF ScanSubtree
  <2>6. CASE SeedChildren(t)
    <3>1. PICK s \in Epochs :
            Catalog(ep[t], s) /\ src' = [src EXCEPT ![t] = @ \cup {s}]
      BY <2>6 DEF SeedChildren
    <3>2. s \in {0, ep[t]}
      BY <3>1, CatalogSource
    <3> QED
      BY <2>1, <2>6, <3>1, <3>2 DEF SeedChildren
  <2>7. CASE Keep(t)
    <3>1. PICK out \in Evictable(rollups, ep[t]) :
            rollups' = Put(rollups, ep[t], src[t], out)
      BY <2>7 DEF Keep
    <3> QED
      BY <2>1, <2>7, <3>1 DEF Keep, Done, Put
  <2> QED
    BY <1>6, <2>2, <2>3, <2>4, <2>5, <2>6, <2>7 DEF Rollup
<1>7. CASE UNCHANGED vars
  BY <1>7 DEF vars
<1> QED
  BY <1>1, <1>2, <1>3, <1>4, <1>5, <1>6, <1>7 DEF Next

LEMMA CachesArePinned == Spec => [](Pinned /\ EntriesDescribeTheirEpoch)
<1>1. Init => Pinned /\ EntriesDescribeTheirEpoch
  BY DEF Init, Pinned, EntriesDescribeTheirEpoch
<1>2. TypeOK /\ (Pinned /\ EntriesDescribeTheirEpoch) /\ [Next]_vars
        => (Pinned /\ EntriesDescribeTheirEpoch)'
  BY PinnedStep
<1> QED
  BY <1>1, <1>2, TypeCorrect, PTL DEF Spec

(* Whatever the epoch does during a query, a cached listing or rollup holds*)
(* what was read from the snapshot in its key or from the live table.      *)
THEOREM EntriesPinned == Spec => []EntriesDescribeTheirEpoch
<1>1. Pinned /\ EntriesDescribeTheirEpoch => EntriesDescribeTheirEpoch
  OBVIOUS
<1> QED
  BY <1>1, CachesArePinned, PTL
-----------------------------------------------------------------------------
LEMMA BehindStep == TypeOK /\ Behind /\ [Next]_vars => Behind'
<1> SUFFICES ASSUME TypeOK, Behind, [Next]_vars
             PROVE  Behind'
  OBVIOUS
<1> USE CatalogEpochAssumption DEF TypeOK, Behind, Epochs, Returns, Goto,
        clusterVars, backendVars, cacheVars, listVars, threadVars
<1>1. CASE Land \/ AgeOut \/ PollDue
  BY <1>1 DEF Land, AgeOut, PollDue
<1>2. CASE \E e \in Epochs : ListingExpires(e) \/ RollupExpires(e)
  BY <1>2 DEF ListingExpires, RollupExpires
<1>3. ASSUME NEW t \in Threads, CurrentEpoch(t)
      PROVE  Behind'
  <2>1. CASE ResolveFresh(t)
    BY <2>1 DEF ResolveFresh, Return
  <2>2. CASE ResolveStale(t)
    BY <2>2 DEF ResolveStale
  <2>3. CASE ListReads(t)
    BY <2>3 DEF ListReads
  <2>4. CASE ListFails(t)
    BY <2>4 DEF ListFails, Return
  <2>5. CASE ListWrites(t)
    BY <2>5 DEF ListWrites, Return
  <2> QED
    BY <1>3, <2>1, <2>2, <2>3, <2>4, <2>5 DEF CurrentEpoch
<1>4. ASSUME NEW t \in Threads, QueryFails(t)
      PROVE  Behind'
  BY <1>4 DEF QueryFails, Done
<1>5. ASSUME NEW t \in Listers, Listing(t)
      PROVE  Behind'
  BY <1>5 DEF Listing, ListPage, LookupHit, LookupMiss, Store, Answer, Resolve,
              Done, Catalog, Threads
<1>6. ASSUME NEW t \in Rollers, Rollup(t)
      PROVE  Behind'
  BY <1>6 DEF Rollup, AskRollup, CheckHit, CheckMiss, ScanSubtree, SeedChildren,
              Keep, Resolve, Done, Catalog, Threads
<1>7. CASE UNCHANGED vars
  BY <1>7 DEF vars
<1> QED
  BY <1>1, <1>2, <1>3, <1>4, <1>5, <1>6, <1>7 DEF Next

(* The action formula of BackForAReason, of one step.                      *)
LEMMA BackStep ==
  TypeOK /\ Behind /\ [Next]_vars =>
    [epoch' < epoch
       => \/ epoch' = 0 /\ ~fresh'
          \/ \E t \in Threads : pc[t] = "write" /\ previous[t] # epoch]_vars
<1> SUFFICES ASSUME TypeOK, Behind, [Next]_vars, epoch' < epoch
             PROVE  \/ epoch' = 0 /\ ~fresh'
                    \/ \E t \in Threads : pc[t] = "write" /\ previous[t] # epoch
  OBVIOUS
<1> USE CatalogEpochAssumption DEF TypeOK, Behind, Epochs, clusterVars,
        backendVars, cacheVars, listVars, threadVars
<1>1. ~UNCHANGED epoch
  OBVIOUS
<1>2. CASE \E t \in Threads : ListWrites(t)
  BY <1>2 DEF ListWrites
<1>3. CASE \E e, s \in Epochs : Catalog(e, s)
  BY <1>1, <1>3 DEF Catalog
<1> QED
  BY <1>1, <1>2, <1>3
     DEF Next, vars, Land, AgeOut, PollDue, ListingExpires, RollupExpires,
         CurrentEpoch, ResolveFresh, ResolveStale, ListReads, ListFails,
         QueryFails, Listing, ListPage, LookupHit, LookupMiss, Store, Answer,
         Rollup, AskRollup, CheckHit, CheckMiss, ScanSubtree, SeedChildren,
         Keep, Threads

(* The epoch goes back only when its snapshot could not be opened, or when *)
(* LISTs overlapped: current_epoch by itself never moves it back.          *)
THEOREM GoesBackForAReason == Spec => BackForAReason
<1>1. Init => Behind
  BY CatalogEpochAssumption DEF Init, Behind, Epochs
<1>2. TypeOK /\ Behind /\ [Next]_vars => Behind'
  BY BehindStep
<1>3. TypeOK /\ Behind /\ [Next]_vars =>
        [epoch' < epoch
           => \/ epoch' = 0 /\ ~fresh'
              \/ \E t \in Threads : pc[t] = "write" /\ previous[t] # epoch]_vars
  BY BackStep
<1> QED
  BY <1>1, <1>2, <1>3, TypeCorrect, PTL DEF Spec, BackForAReason
=============================================================================
