------------------------ MODULE ListingServiceProofs ------------------------
(***************************************************************************)
(* Theorems about ListingService, for any number of requests, prefetches,  *)
(* workers, slots and rows: types, the accounting of the gate, that one    *)
(* thread at most works on a key, that listings show one catalog state, and*)
(* that whoever waits does so for work under way; and about ListingPages:  *)
(* the pages of a listing, whatever its rows, tile it.                     *)
(***************************************************************************)
EXTENDS ListingPages, FiniteSetTheorems, SequenceTheorems,
        WellFoundedInduction, TLAPS

Querying == {t \in Threads : pc[t] = "query"}

(* Slots of the gate and queries add up: whatever way a query ends, it     *)
(* gives its slot back (catalog.py:669-691).                               *)
GateAccounting == gate + Cardinality(Querying) = QueryThreads

(* Whoever computes a listing of the cache leads the flight of its key.    *)
Leaders ==
  \A t \in Clicks \cup Parents : pc[t] \in Computing => flight[Key(t)] = t

LEMMA KeyType ==
  ASSUME TypeOK, NEW t \in Threads
  PROVE  Key(t) \in Keys
  BY DEF TypeOK, Key, Keys

(* A query keeps rows of the directory, no more than the cap.              *)
LEMMA Catalog ==
  ASSUME TypeOK, NEW k \in Keys
  PROVE  /\ content[k[1]] \subseteq Rows /\ IsFiniteSet(content[k[1]])
         /\ Matching(k) \subseteq content[k[1]]
<1>1. k[1] \in Epochs /\ content \in [Epochs -> SUBSET Rows]
  BY ListingAssumption DEF TypeOK, Keys
<1>2. content[k[1]] \in SUBSET Rows
  BY <1>1
<1> QED
  BY <1>2, FS_Subset, ListingAssumption DEF Matching

LEMMA CappedType ==
  ASSUME TypeOK, NEW k \in Keys
  PROVE  Capped(k) \subseteq Entries
<1>1. Matching(k) \subseteq Rows
  BY Catalog
<1>2. \A s \in SUBSET Matching(k), b \in BOOLEAN :
        [truncated |-> b, rows |-> s] \in Entries
  BY <1>1 DEF Entries
<1>3. \A e \in Capped(k) : \E s \in SUBSET Matching(k), b \in BOOLEAN :
        e = [truncated |-> b, rows |-> s]
  BY DEF Capped
<1> QED
  BY <1>2, <1>3

LEMMA TypeInit == Init => TypeOK
<1> SUFFICES ASSUME Init
             PROVE  TypeOK
  OBVIOUS
<1>1. 0 \in Epochs /\ QueryThreads \in 0..QueryThreads
  BY ListingAssumption DEF Epochs
<1>2. <<>> \in Seq(Parents) /\ {} \in SUBSET Parents
  OBVIOUS
<1>3. /\ epoch \in Epochs /\ content \in Contents /\ closed \in BOOLEAN /\ gate \in 0..QueryThreads
      /\ callbacks \subseteq Parents /\ poolq \in Seq(Parents)
  BY <1>1, <1>2 DEF Init
<1> QED
  BY <1>1, <1>3 DEF Init, TypeOK

LEMMA TypeStep ==
  ASSUME TypeOK, GateAccounting, [Next]_vars
  PROVE  TypeOK'
<1> USE ListingAssumption DEF TypeOK, Goto, world, sharedVars, registryVars,
        poolVars, clickVars, outside
<1>1. CASE NewEpoch
  BY <1>1 DEF NewEpoch, Epochs
<1>2. ASSUME NEW k \in Keys, Vanish(k)
      PROVE  TypeOK'
  BY <1>2 DEF Vanish
<1>3. ASSUME NEW t \in Clicks, Click(t)
      PROVE  TypeOK'
  <2>1. t \in Threads
    BY DEF Threads
  <2>2. CASE Peek(t)
    BY <2>1, <2>2 DEF Peek
  <2>3. CASE CancelPrefetch(t)
    BY <2>1, <2>3 DEF CancelPrefetch, Settle, Forget
  <2>4. CASE Pop(t)
    BY <2>1, <2>4 DEF Pop
  <2>5. CASE JoinDone(t)
    BY <2>1, <2>5 DEF JoinDone
  <2>6. CASE JoinTimeout(t)
    BY <2>1, <2>6 DEF JoinTimeout
  <2> QED
    BY <1>3, <2>2, <2>3, <2>4, <2>5, <2>6 DEF Click
<1>4. ASSUME NEW t \in Threads, Listing(t)
      PROVE  TypeOK'
  <2>1. Key(t) \in Keys
    BY KeyType
  <2>2. CASE Begin(t)
    BY <2>2 DEF Begin
  <2>3. CASE WarmHit(t)
    BY <2>1, <2>3 DEF WarmHit, End
  <2>4. CASE WarmMiss(t)
    BY <2>4 DEF WarmMiss
  <2>5. CASE LookupHit(t)
    BY <2>1, <2>5 DEF LookupHit, End
  <2>6. CASE LookupMiss(t)
    BY <2>6 DEF LookupMiss
  <2>7. CASE Lead(t)
    BY <2>1, <2>7 DEF Lead
  <2>8. CASE Follow(t)
    BY <2>8 DEF Follow
  <2>9. CASE Derive(t)
    <3>1. <<ep[t], "all">> \in Keys
      BY DEF Keys
    <3>2. cache[<<ep[t], "all">>].rows \subseteq Rows
      BY <2>9, <3>1 DEF Derive, CanDerive, Entries
    <3> QED
      BY <2>9, <3>2 DEF Derive, Entries
  <2>10. CASE CannotDerive(t)
    BY <2>10 DEF CannotDerive
  <2>11. CASE Acquire(t)
    BY <2>11 DEF Acquire
  <2>12. CASE pc[t] = "query"
    <3>1. IsFiniteSet(Querying) /\ Querying # {}
      BY <2>12, FS_Subset DEF Querying
    <3>2. gate + 1 \in 0..QueryThreads
      BY <3>1, FS_EmptySet, FS_CardinalityType DEF GateAccounting
    <3>3. CASE QueryOk(t)
      <4>1. Capped(Key(t)) \subseteq Entries
        BY <2>1, CappedType
      <4> QED
        BY <3>2, <3>3, <4>1 DEF QueryOk
    <3>4. CASE QueryFails(t)
      BY <2>1, <3>2, <3>4 DEF QueryFails, Land, End, Followers
    <3> QED
      BY <1>4, <2>12, <3>3, <3>4
      DEF Listing, Begin, WarmHit, WarmMiss, LookupHit, LookupMiss, Lead, Follow,
          Derive, CannotDerive, Acquire, Store
  <2>13. CASE Store(t)
    BY <2>1, <2>13 DEF Store, Land, End, Followers
  <2> QED
    BY <1>4, <2>2, <2>3, <2>4, <2>5, <2>6, <2>7, <2>8, <2>9, <2>10, <2>11,
       <2>12, <2>13 DEF Listing, QueryOk, QueryFails
<1>5. ASSUME NEW p \in Parents, Prefetch(p)
      PROVE  TypeOK'
  <2>1. CASE PrefetchLook(p)
    BY <2>1 DEF PrefetchLook
  <2>2. CASE PrefetchSubmit(p)
    <3>1. poolq \in Seq(Parents)
      OBVIOUS
    <3>2. Append(poolq, p) \in Seq(Parents)
      BY <3>1
    <3>3. poolq' = poolq \/ poolq' = Append(poolq, p)
      BY <2>2 DEF PrefetchSubmit
    <3>4. poolq' \in Seq(Parents)
      BY <3>1, <3>2, <3>3
    <3> QED
      BY <2>2, <3>4 DEF PrefetchSubmit
  <2>3. CASE AddCallback(p)
    BY <2>3 DEF AddCallback, Forget
  <2>4. CASE PrefetchDone(p)
    BY <2>4 DEF PrefetchDone, Settle, Forget
  <2> QED
    BY <1>5, <2>1, <2>2, <2>3, <2>4 DEF Prefetch
<1>6. CASE TakePrefetch
  <2>1. poolq' \in Seq(Parents)
    BY <1>6 DEF TakePrefetch
  <2> QED
    BY <1>6, <2>1 DEF TakePrefetch
<1>7. CASE Close
  <2>1. poolq' \in Seq(Parents)
    BY <1>7 DEF Close
  <2> QED
    BY <1>7, <2>1 DEF Close
<1>8. CASE UNCHANGED vars
  BY <1>8 DEF vars
<1> QED
  BY <1>1, <1>2, <1>3, <1>4, <1>5, <1>6, <1>7, <1>8 DEF Next, Idle

(* Only Acquire, QueryOk and QueryFails take a thread into or out of its   *)
(* query, and each moves the gate with it.                                 *)
LEMMA GateStep ==
  ASSUME TypeOK, GateAccounting, [Next]_vars
  PROVE  GateAccounting'
<1> USE ListingAssumption DEF TypeOK
<1>1. IsFiniteSet(Querying) /\ Cardinality(Querying) \in Nat
  BY FS_Subset, FS_CardinalityType DEF Querying
<1>2. ASSUME NEW t \in Threads, pc[t] = "gate", pc'[t] = "query",
             \A u \in Threads \ {t} : pc'[u] = pc[u], gate' = gate - 1
      PROVE  GateAccounting'
  <2>1. Querying' = Querying \cup {t} /\ t \notin Querying
    BY <1>2 DEF Querying
  <2>2. Cardinality(Querying') = Cardinality(Querying) + 1
    BY <1>1, <2>1, FS_AddElement
  <2> QED
    BY <1>1, <1>2, <2>2 DEF GateAccounting
<1>3. ASSUME NEW t \in Threads, pc[t] = "query", gate' = gate + 1,
             Querying' = Querying \ {t}
      PROVE  GateAccounting'
  <2>1. t \in Querying
    BY <1>3 DEF Querying
  <2>2. Cardinality(Querying') = Cardinality(Querying) - 1
    BY <1>1, <1>3, <2>1, FS_RemoveElement
  <2> QED
    BY <1>1, <1>3, <2>2 DEF GateAccounting
<1>4. ASSUME gate' = gate, Querying' = Querying
      PROVE  GateAccounting'
  BY <1>4 DEF GateAccounting
<1>5. CASE NewEpoch \/ (\E k \in Keys : Vanish(k)) \/ TakePrefetch \/ Close
           \/ UNCHANGED vars \/ \E p \in Parents : Prefetch(p)
  BY <1>4, <1>5
  DEF NewEpoch, Vanish, TakePrefetch, Close, vars, Prefetch, PrefetchLook,
      PrefetchSubmit, AddCallback, PrefetchDone, Querying, sharedVars
<1>6. ASSUME NEW t \in Clicks, Click(t)
      PROVE  GateAccounting'
  BY <1>4, <1>6
  DEF Click, Peek, CancelPrefetch, Pop, JoinDone, JoinTimeout, Goto, Querying,
      Threads, sharedVars
<1>7. ASSUME NEW t \in Threads, Listing(t)
      PROVE  GateAccounting'
  <2>1. CASE Acquire(t)
    BY <1>2, <2>1 DEF Acquire, Goto
  <2>2. CASE QueryOk(t)
    <3>1. Querying' = Querying \ {t}
      BY <2>2 DEF QueryOk, Goto, Querying
    <3> QED
      BY <1>3, <2>2, <3>1 DEF QueryOk
  <2>3. CASE QueryFails(t)
    <3>1. Querying' = Querying \ {t}
      BY <2>3 DEF QueryFails, Land, End, Followers, Querying
    <3> QED
      BY <1>3, <2>3, <3>1 DEF QueryFails
  <2>4. CASE Store(t)
    <3>1. Querying' = Querying
      BY <2>4 DEF Store, Land, End, Followers, Querying
    <3> QED
      BY <1>4, <2>4, <3>1 DEF Store
  <2>5. CASE WarmHit(t) \/ LookupHit(t)
    BY <1>4, <2>5 DEF WarmHit, LookupHit, End, Querying, sharedVars
  <2>6. CASE Begin(t) \/ WarmMiss(t) \/ LookupMiss(t) \/ Lead(t) \/ Follow(t)
             \/ Derive(t) \/ CannotDerive(t)
    BY <1>4, <2>6
    DEF Begin, WarmMiss, LookupMiss, Lead, Follow, Derive, CannotDerive, Goto,
        Querying, sharedVars
  <2> QED
    BY <1>7, <2>1, <2>2, <2>3, <2>4, <2>5, <2>6 DEF Listing
<1> QED
  BY <1>5, <1>6, <1>7 DEF Next, Idle

(* Only the warmer looks at the cache before it queries.                   *)
Checkers == \A t \in Threads : pc[t] = "check" => t \in Warms

LEMMA CheckersStep ==
  ASSUME TypeOK, Checkers, [Next]_vars
  PROVE  Checkers'
<1> USE ListingAssumption DEF TypeOK, Checkers
<1>1. ASSUME pc' = pc
      PROVE  Checkers'
  BY <1>1
<1>2. ASSUME NEW t \in Threads, NEW label, Goto(t, label),
             label = "check" => t \in Warms
      PROVE  Checkers'
  BY <1>2 DEF Goto
<1>3. ASSUME NEW S \in SUBSET Threads, NEW e, End(S, e)
      PROVE  Checkers'
  BY <1>3 DEF End
<1>4. CASE NewEpoch \/ (\E k \in Keys : Vanish(k)) \/ TakePrefetch \/ Close
           \/ UNCHANGED vars \/ \E p \in Parents : Prefetch(p)
  BY <1>1, <1>4
  DEF NewEpoch, Vanish, TakePrefetch, Close, vars, Prefetch, PrefetchLook,
      PrefetchSubmit, AddCallback, PrefetchDone
<1>5. ASSUME NEW t \in Clicks, Click(t)
      PROVE  Checkers'
  <2>1. t \in Threads
    BY DEF Threads
  <2> QED
    BY <1>2, <1>5, <2>1
    DEF Click, Peek, CancelPrefetch, Pop, JoinDone, JoinTimeout
<1>6. ASSUME NEW t \in Threads, Listing(t)
      PROVE  Checkers'
  <2>1. CASE QueryFails(t) \/ Store(t)
    <3>1. {t} \cup Followers(t) \in SUBSET Threads
      BY DEF Followers
    <3> QED
      BY <1>3, <2>1, <3>1 DEF QueryFails, Store, Land
  <2>2. CASE WarmHit(t) \/ LookupHit(t)
    BY <1>3, <2>2 DEF WarmHit, LookupHit
  <2>3. CASE Begin(t)
    BY <1>2, <2>3 DEF Begin, Threads
  <2>4. CASE WarmMiss(t) \/ LookupMiss(t) \/ Lead(t) \/ Follow(t) \/ Derive(t)
             \/ CannotDerive(t) \/ Acquire(t) \/ QueryOk(t)
    BY <1>2, <2>4
    DEF WarmMiss, LookupMiss, Lead, Follow, Derive, CannotDerive, Acquire,
        QueryOk
  <2> QED
    BY <1>6, <2>1, <2>2, <2>3, <2>4 DEF Listing
<1> QED
  BY <1>4, <1>5, <1>6 DEF Next, Idle

(* A thread starts to compute when it finds no flight, and its own stays   *)
(* until it is over.                                                       *)
LEMMA LeadersStep ==
  ASSUME TypeOK, Checkers, Leaders, [Next]_vars
  PROVE  Leaders'
<1> USE ListingAssumption DEF TypeOK, Computing
<1> SUFFICES ASSUME NEW u \in Clicks \cup Parents, pc'[u] \in Computing
             PROVE  flight'[Key(u)'] = u
  BY DEF Leaders
<1>1. u \in Threads /\ u \notin Warms /\ Key(u) \in Keys
  BY KeyType DEF Threads
<1>2. ASSUME pc[u] \in Computing, ep' = ep, flight' = flight
      PROVE  flight'[Key(u)'] = u
  BY <1>2 DEF Leaders, Key
<1>3. CASE NewEpoch \/ (\E k \in Keys : Vanish(k)) \/ TakePrefetch \/ Close
           \/ UNCHANGED vars \/ \E p \in Parents : Prefetch(p)
  <2>1. pc' = pc /\ ep' = ep /\ flight' = flight
    BY <1>3
    DEF NewEpoch, Vanish, TakePrefetch, Close, vars, Prefetch, PrefetchLook,
        PrefetchSubmit, AddCallback, PrefetchDone, outside, sharedVars
  <2> QED
    BY <1>2, <2>1
<1>4. ASSUME NEW t \in Clicks, Click(t)
      PROVE  flight'[Key(u)'] = u
  <2>1. /\ \E label \in {"lookup", "cancel", "pop", "join"} : Goto(t, label)
        /\ ep' = ep /\ flight' = flight
    BY <1>4
    DEF Click, Peek, CancelPrefetch, Pop, JoinDone, JoinTimeout, outside,
        sharedVars
  <2>2. pc[u] \in Computing
    BY <1>1, <2>1 DEF Goto
  <2> QED
    BY <1>2, <2>1, <2>2
<1>5. ASSUME NEW t \in Threads, Listing(t)
      PROVE  flight'[Key(u)'] = u
  <2>1. CASE Lead(t)
    BY <1>1, <2>1 DEF Lead, Goto, Leaders, Key, outside
  <2>2. CASE QueryFails(t) \/ Store(t)
    <3>1. /\ pc[u] = pc'[u] /\ u # t /\ ep' = ep
          /\ pc[t] \in Computing
          /\ flight' = IF t \in Warms THEN flight
                       ELSE [flight EXCEPT ![Key(t)] = NoOne]
      BY <1>1, <2>2 DEF QueryFails, Store, Land, End, Followers, outside
    <3>2. t \notin Warms => flight[Key(t)] = t
      BY <3>1 DEF Leaders, Threads
    <3> QED
      BY <1>1, <3>1, <3>2 DEF Leaders, Key
  <2>3. CASE WarmHit(t) \/ LookupHit(t)
    BY <1>1, <1>2, <2>3 DEF WarmHit, LookupHit, End, outside, sharedVars
  <2>4. CASE Begin(t)
    BY <1>1, <2>4 DEF Begin, Goto, Leaders, Key, sharedVars
  <2>5. CASE WarmMiss(t) \/ LookupMiss(t) \/ Follow(t) \/ Derive(t)
             \/ CannotDerive(t) \/ Acquire(t) \/ QueryOk(t)
    <3>1. u # t => pc'[u] = pc[u]
      BY <1>1, <2>5
      DEF WarmMiss, LookupMiss, Follow, Derive, CannotDerive, Acquire, QueryOk,
          Goto
    <3>2. u = t => pc[u] \in Computing
      BY <1>1, <2>5
      DEF Checkers, WarmMiss, LookupMiss, Follow, Derive, CannotDerive, Acquire, QueryOk,
          Goto
    <3> QED
      BY <1>1, <1>2, <2>5, <3>1, <3>2
      DEF WarmMiss, LookupMiss, Follow, Derive, CannotDerive, Acquire, QueryOk,
          outside, sharedVars
  <2> QED
    BY <1>5, <2>1, <2>2, <2>3, <2>4, <2>5 DEF Listing
<1> QED
  BY <1>3, <1>4, <1>5 DEF Next, Idle

(* A thread that has not started has no listing.                          *)
Starters == \A t \in Threads : pc[t] = "start" => got[t] = NoEntry

(* Rows derived from all rows are those that a query with the filter would *)
(* have read, for these are no more than the cap allows either.            *)
LEMMA DerivedIsExact ==
  ASSUME TypeOK, NEW e \in Epochs, NEW full \in Capped(<<e, "all">>),
         ~full.truncated
  PROVE  [truncated |-> FALSE, rows |-> full.rows \cap Wanted]
           \in Capped(<<e, "filtered">>)
<1> DEFINE all  == <<e, "all">>
           some == <<e, "filtered">>
<1>1. all \in Keys /\ some \in Keys
  BY DEF Keys
<1>2. Matching(all) = content[e] /\ Matching(some) = content[e] \cap Wanted
  BY DEF Matching
<1>3. Cardinality(Matching(all)) =< ListingCap /\ full.rows = Matching(all)
  BY DEF Capped
<1>4. IsFiniteSet(content[e])
  BY <1>1, Catalog
<1>5. /\ Cardinality(content[e] \cap Wanted) =< Cardinality(content[e])
      /\ Cardinality(content[e] \cap Wanted) \in Nat
      /\ Cardinality(content[e]) \in Nat
  BY <1>4, FS_Subset, FS_CardinalityType
<1>6. Cardinality(content[e]) =< ListingCap
  BY <1>2, <1>3
<1>7. Cardinality(content[e] \cap Wanted) =< ListingCap
  BY <1>5, <1>6, ListingAssumption
<1>8. Cardinality(Matching(some)) =< ListingCap
  BY <1>2, <1>7
<1> QED
  BY <1>2, <1>3, <1>8 DEF Capped

(* Only filtered requests derive.                                          *)
Derivers == \A t \in Threads : pc[t] = "compute" => t \in Filtered

(* Where each step leaves the catalog and the labels that matter here.     *)
LEMMA OriginStep ==
  ASSUME TypeOK, Starters, Derivers, [Next]_vars
  PROVE  content' = content /\ Starters' /\ Derivers'
<1> USE ListingAssumption DEF TypeOK, Starters, Derivers, world, outside
<1>1. ASSUME content' = content, pc' = pc, got' = got
      PROVE  content' = content /\ Starters' /\ Derivers'
  BY <1>1
<1>2. ASSUME content' = content, NEW t \in Threads, NEW label, Goto(t, label),
             label # "start", label = "compute" => t \in Filtered,
             \A u \in Threads \ {t} : got'[u] = got[u]
      PROVE  content' = content /\ Starters' /\ Derivers'
  BY <1>2 DEF Goto
<1>3. ASSUME content' = content, NEW S \in SUBSET Threads, NEW e, End(S, e)
      PROVE  content' = content /\ Starters' /\ Derivers'
  BY <1>3 DEF End
<1>4. CASE NewEpoch \/ (\E k \in Keys : Vanish(k)) \/ TakePrefetch \/ Close
           \/ UNCHANGED vars \/ \E p \in Parents : Prefetch(p)
  BY <1>1, <1>4
  DEF NewEpoch, Vanish, TakePrefetch, Close, vars, Prefetch, PrefetchLook,
      PrefetchSubmit, AddCallback, PrefetchDone
<1>5. ASSUME NEW t \in Clicks, Click(t)
      PROVE  content' = content /\ Starters' /\ Derivers'
  <2>1. t \in Threads
    BY DEF Threads
  <2> QED
    BY <1>2, <1>5, <2>1
    DEF Click, Peek, CancelPrefetch, Pop, JoinDone, JoinTimeout
<1>6. ASSUME NEW t \in Threads, Listing(t)
      PROVE  content' = content /\ Starters' /\ Derivers'
  <2>1. CASE QueryFails(t) \/ Store(t)
    <3>1. {t} \cup Followers(t) \in SUBSET Threads
      BY DEF Followers
    <3> QED
      BY <1>3, <2>1, <3>1 DEF QueryFails, Store, Land
  <2>2. CASE WarmHit(t) \/ LookupHit(t)
    BY <1>3, <2>2 DEF WarmHit, LookupHit
  <2>3. CASE Begin(t) \/ WarmMiss(t) \/ LookupMiss(t) \/ Lead(t) \/ Follow(t)
    BY <1>2, <2>3 DEF Begin, WarmMiss, LookupMiss, Lead, Follow
  <2>4. CASE Derive(t) \/ CannotDerive(t) \/ Acquire(t) \/ QueryOk(t)
    BY <1>2, <2>4 DEF Derive, CannotDerive, Acquire, QueryOk
  <2> QED
    BY <1>6, <2>1, <2>2, <2>3, <2>4 DEF Listing
<1> QED
  BY <1>4, <1>5, <1>6 DEF Next, Idle

(* A listing comes from a query, or from another listing of its key or, if *)
(* that is complete, of the unfiltered one.                                *)
LEMMA ExactStep ==
  ASSUME TypeOK, TypeOK', ListingsAreExact, Starters, Derivers, [Next]_vars
  PROVE  ListingsAreExact'
<1> USE ListingAssumption DEF TypeOK
<1> DEFINE Good(k, e) == e # NoEntry => e \in Capped(k)
<1>1. content' = content
  BY OriginStep
<1>2. \A t \in Threads : Key(t) \in Keys /\ Key(t)' \in Keys
  BY DEF Key, Keys
<1>3. /\ \A k \in Keys : Good(k, cache[k])
      /\ \A t \in Threads : Good(Key(t), got[t])
  BY DEF ListingsAreExact, Exact
<1>4. ASSUME \A k \in Keys : Good(k, cache'[k]),
             \A t \in Threads : Good(Key(t)', got'[t])
      PROVE  ListingsAreExact'
  <2>1. \A k \in Keys : Capped(k)' = Capped(k)
    BY <1>1 DEF Capped, Matching
  <2>2. \A t \in Threads : Capped(Key(t)') = Capped(Key(t))'
    BY <1>1 DEF Capped, Matching
  <2> QED
    BY <1>4, <2>1, <2>2 DEF ListingsAreExact, Exact
<1> HIDE DEF Good
<1>5. ASSUME ep' = ep, cache' = cache, got' = got
      PROVE  ListingsAreExact'
  BY <1>3, <1>4, <1>5 DEF Key
<1>6. ASSUME ep' = ep, NEW t \in Threads, NEW e, Good(Key(t), e),
             cache' \in {cache, [cache EXCEPT ![Key(t)] = e]},
             \A u \in Threads : \/ got'[u] = got[u]
                                \/ got'[u] = e /\ Key(u) = Key(t)
      PROVE  ListingsAreExact'
  <2>1. \A u \in Threads : Key(u)' = Key(u)
    BY <1>6 DEF Key
  <2>2. \A k \in Keys : Good(k, cache'[k])
    BY <1>2, <1>3, <1>6
  <2>3. \A u \in Threads : Good(Key(u), got'[u])
    BY <1>3, <1>6
  <2> QED
    BY <1>4, <2>1, <2>2, <2>3
<1>7. CASE NewEpoch \/ TakePrefetch \/ Close \/ UNCHANGED vars
           \/ \E p \in Parents : Prefetch(p)
  BY <1>5, <1>7
  DEF NewEpoch, TakePrefetch, Close, vars, Prefetch, PrefetchLook,
      PrefetchSubmit, AddCallback, PrefetchDone, sharedVars
<1>8. ASSUME NEW k \in Keys, Vanish(k)
      PROVE  ListingsAreExact'
  <2>1. Good(k, NoEntry)
    BY DEF Good
  <2>2. \A j \in Keys : Good(j, cache'[j])
    BY <1>3, <1>8, <2>1 DEF Vanish
  <2>3. \A t \in Threads : Good(Key(t)', got'[t])
    BY <1>3, <1>8 DEF Vanish, outside, Key
  <2> QED
    BY <1>4, <2>2, <2>3
<1>9. ASSUME NEW t \in Clicks, Click(t)
      PROVE  ListingsAreExact'
  BY <1>5, <1>9
  DEF Click, Peek, CancelPrefetch, Pop, JoinDone, JoinTimeout, outside,
      sharedVars
<1>10. ASSUME NEW t \in Threads, Listing(t)
       PROVE  ListingsAreExact'
  <2>1. CASE Begin(t)
    <3>1. got[t] = NoEntry
      BY <2>1 DEF Begin, Starters
    <3>2. \A u \in Threads : u = t \/ Key(u)' = Key(u)
      BY <2>1 DEF Begin, Key
    <3>3. \A u \in Threads : Good(Key(u)', got'[u])
      BY <1>3, <2>1, <3>1, <3>2 DEF Begin, Good
    <3> QED
      BY <1>3, <1>4, <2>1, <3>3 DEF Begin, sharedVars
  <2>2. CASE WarmHit(t) \/ LookupHit(t)
    BY <1>2, <1>3, <1>6, <2>2 DEF WarmHit, LookupHit, End, outside, sharedVars
  <2>3. CASE WarmMiss(t) \/ LookupMiss(t) \/ Lead(t) \/ Follow(t)
             \/ CannotDerive(t) \/ Acquire(t)
    BY <1>5, <2>3
    DEF WarmMiss, LookupMiss, Lead, Follow, CannotDerive, Acquire, outside,
        sharedVars
  <2>4. CASE Derive(t)
    <3> DEFINE full == cache[<<ep[t], "all">>]
               some == [truncated |-> FALSE, rows |-> full.rows \cap Wanted]
    <3>1. t \in Filtered /\ ep[t] \in Epochs /\ <<ep[t], "all">> \in Keys
      BY <2>4 DEF Derive, Derivers, Keys
    <3>2. full # NoEntry /\ ~full.truncated
      BY <2>4 DEF Derive, CanDerive
    <3>3. full \in Capped(<<ep[t], "all">>)
      BY <1>3, <3>1, <3>2 DEF Good
    <3>4. some \in Capped(<<ep[t], "filtered">>)
      BY <3>1, <3>2, <3>3, DerivedIsExact
    <3>5. Good(Key(t), some)
      BY <3>1, <3>4 DEF Good, Key
    <3> QED
      BY <1>6, <2>4, <3>5 DEF Derive, outside, sharedVars
  <2>5. CASE QueryOk(t)
    <3>1. PICK e \in Capped(Key(t)) : got' = [got EXCEPT ![t] = e]
      BY <2>5 DEF QueryOk
    <3>2. Good(Key(t), e)
      BY <3>1 DEF Good
    <3> QED
      BY <1>6, <2>5, <3>1, <3>2 DEF QueryOk, outside
  <2>6. CASE QueryFails(t)
    <3>1. Good(Key(t), NoEntry)
      BY DEF Good
    <3> QED
      BY <1>6, <2>6, <3>1 DEF QueryFails, Land, End, Followers, outside
  <2>7. CASE Store(t)
    BY <1>3, <1>6, <2>7 DEF Store, Land, End, Followers, outside
  <2> QED
    BY <1>10, <2>1, <2>2, <2>3, <2>4, <2>5, <2>6, <2>7 DEF Listing
<1> QED
  BY <1>7, <1>8, <1>9, <1>10 DEF Next, Idle

(* The inductive invariant.                                                *)
IInv ==
  /\ TypeOK /\ GateAccounting /\ Checkers /\ Leaders
  /\ Starters /\ Derivers /\ ListingsAreExact

LEMMA Invariance == Spec => []IInv
<1>1. Init => IInv
  <2> SUFFICES ASSUME Init
               PROVE  IInv
    OBVIOUS
  <2>1. Querying = {}
    BY DEF Init, Querying
  <2>2. GateAccounting
    BY <2>1, FS_EmptySet, ListingAssumption DEF Init, GateAccounting
  <2>3. Checkers /\ Leaders /\ Starters /\ Derivers
    BY DEF Init, Checkers, Leaders, Computing, Threads, Starters, Derivers
  <2>4. ListingsAreExact
    BY KeyType, TypeInit DEF Init, ListingsAreExact, Exact
  <2> QED
    BY TypeInit, <2>2, <2>3, <2>4 DEF IInv
<1>2. IInv /\ [Next]_vars => IInv'
  BY TypeStep, GateStep, CheckersStep, LeadersStep, OriginStep, ExactStep
  DEF IInv
<1> QED
  BY <1>1, <1>2, PTL DEF Spec

(* The registry, the pool, the cache and the threads keep their types, and *)
(* the gate stays within its bound (catalog.py:571-835).                   *)
THEOREM TypeCorrect == Spec => []TypeOK
BY Invariance, PTL DEF IInv

(* However queries end, slots and queries add up (catalog.py:669-691).     *)
THEOREM GateAddsUp == Spec => []GateAccounting
BY Invariance, PTL DEF IInv

(* What a reader gets, on whatever way, is what a query of its own under   *)
(* its epoch might have read (catalog.py:603-605, 637-651, 684-691).       *)
THEOREM ListingsShowOneState == Spec => []ListingsAreExact
BY Invariance, PTL DEF IInv

(* Of the clicks and prefetches one at most works on a key, which is an    *)
(* epoch and a filter: an unfiltered click and a prefetch never query the  *)
(* directory side by side under one epoch (TUNING.md:41-43), whether the   *)
(* click found the prefetch registered or not.  A filtered click has a key *)
(* of its own and may, and so may the warmer (catalog.py:608-609, 655).    *)
OneWorkerPerKey ==
  \A s, t \in Clicks \cup Parents :
    s # t /\ {pc[s], pc[t]} \subseteq Computing => Key(s) # Key(t)

THEOREM OneWorker == Spec => []OneWorkerPerKey
<1>1. IInv => OneWorkerPerKey
  BY DEF IInv, Leaders, OneWorkerPerKey
<1> QED
  BY <1>1, Invariance, PTL

-----------------------------------------------------------------------------
(* Nobody waits in vain: who is waited for is at work.                     *)

\* Where the warmer may be: it has to do with no flight.
Alone == {"start", "check", "gate", "query", "store", "over"}

(* Every flight has a leader that computes, and every follower a flight.   *)
FlightsAreLed ==
  /\ \A t \in Warms : pc[t] \in Alone
  /\ \A k \in Keys : flight[k] # NoOne =>
       \E l \in Clicks \cup Parents :
         flight[k] = l /\ pc[l] \in Computing /\ Key(l) = k
  /\ \A t \in Threads : pc[t] = "wait" => flight[Key(t)] # NoOne

LEMMA GotoIs ==
  ASSUME TypeOK, NEW t \in Threads, NEW label, Goto(t, label)
  PROVE  pc'[t] = label /\ \A u \in Threads \ {t} : pc'[u] = pc[u]
BY DEF TypeOK, Goto

LEMMA FlightsStep ==
  ASSUME TypeOK, FlightsAreLed, [Next]_vars
  PROVE  FlightsAreLed'
<1> USE DEF Computing, Alone
<1>1. /\ \A t \in Threads : Key(t) \in Keys
      /\ \A t \in Clicks \cup Parents : t \in Threads /\ t \notin Warms
      /\ \A t \in Warms : t \in Threads /\ t \notin Clicks \cup Parents
      /\ \A t \in Threads : t \in Clicks \cup Parents \/ t \in Warms
      /\ NoOne \notin Threads
  BY KeyType, ListingAssumption DEF Threads
<1>2. /\ \A t \in Warms : pc[t] \in Alone
      /\ \A k \in Keys : flight[k] # NoOne =>
           \E l \in Clicks \cup Parents :
             flight[k] = l /\ pc[l] \in Computing /\ Key(l) = k
      /\ \A t \in Threads : pc[t] = "wait" => flight[Key(t)] # NoOne
  BY DEF FlightsAreLed
<1>3. ASSUME pc' = pc, ep' = ep, flight' = flight
      PROVE  FlightsAreLed'
  BY <1>2, <1>3 DEF Key, FlightsAreLed
<1>4. CASE NewEpoch \/ (\E k \in Keys : Vanish(k)) \/ TakePrefetch \/ Close
           \/ UNCHANGED vars \/ \E p \in Parents : Prefetch(p)
  <2>1. pc' = pc /\ ep' = ep /\ flight' = flight
    BY <1>4
    DEF NewEpoch, Vanish, TakePrefetch, Close, vars, Prefetch, PrefetchLook,
        PrefetchSubmit, AddCallback, PrefetchDone, outside, sharedVars
  <2> QED
    BY <1>3, <2>1
\* A thread goes from one place outside the flights to another.
<1>5. ASSUME NEW t \in Threads, pc[t] \notin Computing, pc'[t] # "wait",
             t \in Warms => pc'[t] \in Alone, flight' = flight,
             \A u \in Threads \ {t} : pc'[u] = pc[u] /\ ep'[u] = ep[u]
      PROVE  FlightsAreLed'
  <2>1. \A u \in Threads \ {t} : Key(u)' = Key(u)
    BY <1>5 DEF Key
  <2>2. \A u \in Warms : pc'[u] \in Alone
    BY <1>1, <1>2, <1>5
  <2>3. ASSUME NEW k \in Keys, flight'[k] # NoOne
        PROVE  \E l \in Clicks \cup Parents :
                 flight'[k] = l /\ pc'[l] \in Computing /\ Key(l)' = k
    BY <1>1, <1>2, <1>5, <2>1, <2>3
  <2>4. ASSUME NEW u \in Threads, pc'[u] = "wait"
        PROVE  flight'[Key(u)'] # NoOne
    BY <1>1, <1>2, <1>5, <2>1, <2>4
  <2> QED
    BY <2>2, <2>3, <2>4 DEF FlightsAreLed
\* A thread goes on to compute.
<1>6. ASSUME NEW t \in Threads, NEW label \in Computing, pc[t] \in Computing,
             t \in Warms => label \in Alone, pc'[t] = label,
             \A u \in Threads \ {t} : pc'[u] = pc[u], flight' = flight, ep' = ep
      PROVE  FlightsAreLed'
  <2>1. \A u \in Threads : Key(u)' = Key(u)
    BY <1>6 DEF Key
  <2>2. \A u \in Warms : pc'[u] \in Alone
    BY <1>1, <1>2, <1>6
  <2>3. ASSUME NEW k \in Keys, flight'[k] # NoOne
        PROVE  \E l \in Clicks \cup Parents :
                 flight'[k] = l /\ pc'[l] \in Computing /\ Key(l)' = k
    BY <1>1, <1>2, <1>6, <2>1, <2>3
  <2>4. ASSUME NEW u \in Threads, pc'[u] = "wait"
        PROVE  flight'[Key(u)'] # NoOne
    BY <1>1, <1>2, <1>6, <2>1, <2>4
  <2> QED
    BY <2>2, <2>3, <2>4 DEF FlightsAreLed
<1>7. ASSUME NEW t \in Clicks, Click(t)
      PROVE  FlightsAreLed'
  <2>1. /\ \E label \in {"lookup", "cancel", "pop", "join"} : Goto(t, label)
        /\ ep' = ep /\ flight' = flight
        /\ pc[t] \in {"peek", "cancel", "pop", "join"}
    BY <1>7
    DEF Click, Peek, CancelPrefetch, Pop, JoinDone, JoinTimeout, outside,
        sharedVars
  <2> QED
    BY <1>1, <1>5, <2>1, GotoIs
<1>8. ASSUME NEW t \in Threads, Listing(t)
      PROVE  FlightsAreLed'
  <2>1. CASE Begin(t)
    <3>1. /\ pc[t] = "start" /\ flight' = flight
          /\ \E label \in {"peek", "lookup", "check"} :
               Goto(t, label) /\ (t \in Warms => label = "check")
      BY <1>1, <2>1 DEF Begin, sharedVars
    <3>2. \A u \in Threads \ {t} : ep'[u] = ep[u]
      BY <2>1 DEF Begin, TypeOK
    <3> QED
      BY <1>5, <3>1, <3>2, GotoIs
  <2>2. CASE WarmMiss(t) \/ LookupMiss(t)
    <3>1. /\ pc[t] \in {"check", "lookup"} /\ flight' = flight /\ ep' = ep
          /\ \E label \in {"gate", "flight"} :
               Goto(t, label) /\ (t \in Warms => label = "gate")
      BY <1>1, <1>2, <2>2 DEF WarmMiss, LookupMiss, outside, sharedVars
    <3> QED
      BY <1>5, <3>1, GotoIs
  <2>3. CASE WarmHit(t) \/ LookupHit(t)
    <3>1. /\ pc[t] \in {"check", "lookup"} /\ flight' = flight /\ ep' = ep
          /\ pc' = [u \in Threads |-> IF u \in {t} THEN "over" ELSE pc[u]]
      BY <2>3 DEF WarmHit, LookupHit, End, outside, sharedVars
    <3> QED
      BY <1>5, <3>1
  <2>4. CASE Lead(t)
    <3>1. /\ pc[t] = "flight" /\ flight[Key(t)] = NoOne /\ ep' = ep
          /\ flight' = [flight EXCEPT ![Key(t)] = t]
          /\ \E label \in {"compute", "gate"} : Goto(t, label)
      BY <2>4 DEF Lead, outside
    <3>2. /\ pc'[t] \in Computing /\ \A u \in Threads \ {t} : pc'[u] = pc[u]
          /\ t \in Clicks \cup Parents
      BY <1>1, <1>2, <3>1, GotoIs
    <3>3. /\ \A u \in Threads : Key(u)' = Key(u)
          /\ \A k \in Keys : flight'[k] = IF k = Key(t) THEN t ELSE flight[k]
      BY <3>1 DEF Key, TypeOK
    <3>4. \A u \in Warms : pc'[u] \in Alone
      BY <1>1, <1>2, <3>2
    <3>5. ASSUME NEW k \in Keys, flight'[k] # NoOne
          PROVE  \E l \in Clicks \cup Parents :
                   flight'[k] = l /\ pc'[l] \in Computing /\ Key(l)' = k
      <4>1. CASE k = Key(t)
        BY <1>1, <3>2, <3>3, <4>1
      <4>2. CASE k # Key(t)
        BY <1>1, <1>2, <3>1, <3>2, <3>3, <3>5, <4>2
      <4> QED
        BY <4>1, <4>2
    <3>6. ASSUME NEW u \in Threads, pc'[u] = "wait"
          PROVE  flight'[Key(u)'] # NoOne
      BY <1>1, <1>2, <3>2, <3>3, <3>6
    <3> QED
      BY <3>4, <3>5, <3>6 DEF FlightsAreLed
  <2>5. CASE Follow(t)
    <3>1. /\ pc[t] = "flight" /\ flight[Key(t)] # NoOne /\ ep' = ep
          /\ flight' = flight /\ Goto(t, "wait")
      BY <2>5 DEF Follow, outside, sharedVars
    <3>2. /\ pc'[t] = "wait" /\ \A u \in Threads \ {t} : pc'[u] = pc[u]
          /\ t \in Clicks \cup Parents
      BY <1>1, <1>2, <3>1, GotoIs
    <3>3. \A u \in Threads : Key(u)' = Key(u)
      BY <3>1 DEF Key
    <3>4. \A u \in Warms : pc'[u] \in Alone
      BY <1>1, <1>2, <3>2
    <3>5. ASSUME NEW k \in Keys, flight'[k] # NoOne
          PROVE  \E l \in Clicks \cup Parents :
                   flight'[k] = l /\ pc'[l] \in Computing /\ Key(l)' = k
      BY <1>1, <1>2, <3>1, <3>2, <3>3, <3>5
    <3>6. ASSUME NEW u \in Threads, pc'[u] = "wait"
          PROVE  flight'[Key(u)'] # NoOne
      BY <1>2, <3>1, <3>2, <3>3, <3>6
    <3> QED
      BY <3>4, <3>5, <3>6 DEF FlightsAreLed
  <2>6. CASE Derive(t) \/ CannotDerive(t) \/ Acquire(t) \/ QueryOk(t)
    <3>1. /\ pc[t] \in Computing /\ flight' = flight /\ ep' = ep
          /\ \E label \in Computing : Goto(t, label) /\ label \in Alone
      BY <2>6
      DEF Derive, CannotDerive, Acquire, QueryOk, outside, sharedVars
    <3> QED
      BY <1>6, <3>1, GotoIs
  <2>7. CASE QueryFails(t) \/ Store(t)
    <3>1. /\ pc[t] \in {"query", "store"} /\ ep' = ep
          /\ pc' = [u \in Threads |-> IF u \in {t} \cup Followers(t)
                                      THEN "over" ELSE pc[u]]
          /\ flight' = IF t \in Warms THEN flight
                       ELSE [flight EXCEPT ![Key(t)] = NoOne]
      BY <2>7 DEF QueryFails, Store, Land, End, outside
    <3>2. /\ \A u \in Threads : Key(u)' = Key(u)
          /\ \A k \in Keys :
               flight'[k] = IF t \notin Warms /\ k = Key(t) THEN NoOne
                                                            ELSE flight[k]
      BY <3>1 DEF Key, TypeOK
    <3>3. \A u \in Followers(t) :
            u \in Threads /\ pc[u] = "wait" /\ Key(u) = Key(t)
      BY DEF Followers
    <3>4. \A u \in Warms : pc'[u] \in Alone
      BY <1>1, <1>2, <3>1
    <3>5. ASSUME NEW k \in Keys, flight'[k] # NoOne
          PROVE  \E l \in Clicks \cup Parents :
                   flight'[k] = l /\ pc'[l] \in Computing /\ Key(l)' = k
      <4>1. flight'[k] = flight[k] /\ (t \notin Warms => k # Key(t))
        BY <3>2, <3>5
      <4>2. PICK l \in Clicks \cup Parents :
              flight[k] = l /\ pc[l] \in Computing /\ Key(l) = k
        BY <1>2, <3>5, <4>1
      <4>3. l # t /\ l \notin Followers(t) /\ l \in Threads
        BY <1>1, <3>3, <4>1, <4>2
      <4> QED
        BY <3>1, <3>2, <4>1, <4>2, <4>3
    <3>6. ASSUME NEW u \in Threads, pc'[u] = "wait"
          PROVE  flight'[Key(u)'] # NoOne
      <4>1. pc[u] = "wait" /\ u \notin Followers(t)
        BY <3>1, <3>6
      <4>2. t \notin Warms => Key(u) # Key(t)
        BY <4>1 DEF Followers
      <4> QED
        BY <1>1, <1>2, <3>2, <4>1, <4>2
    <3> QED
      BY <3>4, <3>5, <3>6 DEF FlightsAreLed
  <2> QED
    BY <1>8, <2>1, <2>2, <2>3, <2>4, <2>5, <2>6, <2>7 DEF Listing
<1> QED
  BY <1>4, <1>7, <1>8 DEF Next, Idle

Queued == {p \in Parents : \E i \in 1..Len(poolq) : poolq[i] = p}

\* Whoever is registered has been submitted, and will be forgotten when it is
\* done; what is pending waits in the pool.
RegisteredIsAlive ==
  /\ \A p \in Parents : phase[p] \in {"look", "submit"} => future[p] = "none"
  /\ \A p \in Parents : phase[p] = "callback" => future[p] # "none"
  /\ \A p \in Parents : p \in callbacks => phase[p] = "over"
  /\ \A p \in Parents : registered = p =>
       \/ phase[p] = "callback"
       \/ p \in callbacks /\ future[p] \in {"pending", "running"}
  /\ \A p \in Parents : future[p] = "pending" => p \in Queued

\* A click that deals with a prefetch found one, and joins it if it runs.
Finders ==
  \A t \in Clicks : pc[t] \in {"cancel", "pop", "join"} =>
    /\ found[t] \in Parents /\ future[found[t]] # "none"
    /\ pc[t] = "join" => future[found[t]] \in {"running", "finished"}

RegistryInv == RegisteredIsAlive /\ Finders

\* A step that leaves the registry alone.
LEMMA RegistrySame ==
  ASSUME RegisteredIsAlive, UNCHANGED <<registered, future, callbacks, phase, poolq>>
  PROVE  RegisteredIsAlive'
BY DEF RegisteredIsAlive, Queued

\* Futures only go forward, and clicks stay where they are.
LEMMA FindersStay ==
  ASSUME TypeOK, Finders, found' = found,
         \A t \in Clicks : pc'[t] \in {"cancel", "pop", "join"} => pc'[t] = pc[t],
         \A p \in Parents :
           /\ future[p] # "none" => future'[p] # "none"
           /\ future[p] \in {"running", "finished"}
                => future'[p] \in {"running", "finished"}
  PROVE  Finders'
BY DEF Finders

\* The future of p ends, and p is forgotten if its callback is there.
LEMMA SettleIsSound ==
  ASSUME TypeOK, RegisteredIsAlive, NEW p \in Parents,
         NEW s \in {"cancelled", "finished"}, future[p] \in {"pending", "running"},
         Settle(p, s), UNCHANGED <<phase, poolq>>
  PROVE  /\ RegisteredIsAlive'
         /\ \A q \in Parents : future'[q] = IF q = p THEN s ELSE future[q]
<1>1. /\ \A q \in Parents : future'[q] = IF q = p THEN s ELSE future[q]
      /\ callbacks' = callbacks /\ NoOne \notin Parents
      /\ p \in callbacks => registered' = IF registered = p THEN NoOne ELSE registered
      /\ p \notin callbacks => registered' = registered
  BY ListingAssumption DEF TypeOK, Settle, Forget, Threads
<1>2. Queued' = Queued
  BY DEF Queued
<1>3. QED
  BY <1>1, <1>2 DEF RegisteredIsAlive

LEMMA RegistryStep ==
  ASSUME TypeOK, TypeOK', RegistryInv, [Next]_vars
  PROVE  RegistryInv'
<1>1. RegisteredIsAlive /\ Finders /\ NoOne \notin Parents
  BY ListingAssumption DEF RegistryInv, Threads
<1>2. ASSUME UNCHANGED <<registryVars, poolVars, found>>,
             \A t \in Clicks : pc'[t] \in {"cancel", "pop", "join"} => pc'[t] = pc[t]
      PROVE  RegistryInv'
  BY <1>1, <1>2, RegistrySame, FindersStay DEF RegistryInv, registryVars, poolVars
<1>3. ASSUME RegisteredIsAlive', UNCHANGED <<pc, found>>,
             \A p \in Parents :
               /\ future[p] # "none" => future'[p] # "none"
               /\ future[p] \in {"running", "finished"}
                    => future'[p] \in {"running", "finished"}
      PROVE  RegistryInv'
  BY <1>1, <1>3, FindersStay DEF RegistryInv
<1>4. CASE NewEpoch \/ (\E k \in Keys : Vanish(k)) \/ UNCHANGED vars
  <2>1. UNCHANGED <<registryVars, poolVars, found, pc>>
    BY <1>4
    DEF NewEpoch, Vanish, vars, outside, clickVars, registryVars, poolVars
  <2> QED
    BY <1>2, <2>1
<1>5. ASSUME NEW p \in Parents, Prefetch(p)
      PROVE  RegistryInv'
  <2>1. CASE PrefetchLook(p)
    <3>1. /\ phase[p] = "look" /\ UNCHANGED <<registered, future, callbacks, poolq, pc, found>>
          /\ phase'[p] \in {"submit", "over"}
          /\ \A q \in Parents : q # p => phase'[q] = phase[q]
      BY <2>1 DEF PrefetchLook, TypeOK, registryVars, clickVars
    <3>2. RegisteredIsAlive'
      <4>1. Queued' = Queued
        BY <3>1 DEF Queued
      <4> QED
        BY <1>1, <3>1, <4>1 DEF RegisteredIsAlive
    <3> QED
      BY <1>3, <3>1, <3>2
  <2>2. CASE PrefetchSubmit(p)
    <3>1. /\ phase[p] = "submit" /\ UNCHANGED <<callbacks, pc, found>>
          /\ \A q \in Parents : q # p => phase'[q] = phase[q]
          /\ future[p] = "none"
      BY <1>1, <2>2 DEF PrefetchSubmit, TypeOK, clickVars, RegisteredIsAlive
    <3>2. CASE registered # NoOne
      <4>1. phase'[p] = "over" /\ UNCHANGED <<registered, future, poolq>>
        BY <2>2, <3>2 DEF PrefetchSubmit, TypeOK
      <4>2. RegisteredIsAlive'
        <5>1. Queued' = Queued
          BY <4>1 DEF Queued
        <5> QED
          BY <1>1, <3>1, <4>1, <5>1 DEF RegisteredIsAlive
      <4> QED
        BY <1>3, <3>1, <4>1, <4>2
    <3>3. CASE registered = NoOne
      <4>1. /\ phase'[p] = "callback" /\ registered' = p
            /\ \A q \in Parents : future'[q] = IF q = p THEN "pending" ELSE future[q]
            /\ poolq' = Append(poolq, p)
        BY <2>2, <3>3 DEF PrefetchSubmit, TypeOK
      <4>2. \A q \in Parents : future'[q] = "pending" => q \in Queued'
        <5>1. poolq \in Seq(Parents)
          BY DEF TypeOK
        <5>2. /\ Len(poolq) \in Nat /\ Len(poolq') = Len(poolq) + 1
              /\ poolq'[Len(poolq) + 1] = p
              /\ \A i \in 1..Len(poolq) : poolq'[i] = poolq[i]
          BY <4>1, <5>1
        <5>3. ASSUME NEW q \in Parents, q # p, future'[q] = "pending"
              PROVE  q \in Queued'
          <6>0. q \in Queued
            BY <1>1, <4>1, <5>3 DEF RegisteredIsAlive
          <6>1. PICK i \in 1..Len(poolq) : poolq[i] = q
            BY <6>0 DEF Queued
          <6> QED
            BY <5>2, <6>1 DEF Queued
        <5>4. Len(poolq) + 1 \in 1..Len(poolq')
          BY <5>2
        <5> QED
          BY <5>2, <5>3, <5>4 DEF Queued
      <4>3. RegisteredIsAlive'
        BY <1>1, <3>1, <4>1, <4>2 DEF RegisteredIsAlive
      <4>4. \A q \in Parents :
              /\ future[q] # "none" => future'[q] # "none"
              /\ future[q] \in {"running", "finished"}
                   => future'[q] \in {"running", "finished"}
        BY <3>1, <4>1
      <4> QED
        BY <1>3, <3>1, <4>3, <4>4
    <3> QED
      BY <3>2, <3>3
  <2>3. CASE AddCallback(p)
    <3>1. /\ phase[p] = "callback" /\ phase'[p] = "over"
          /\ \A q \in Parents : q # p => phase'[q] = phase[q]
          /\ UNCHANGED <<future, poolq, pc, found>> /\ Queued' = Queued
      BY <2>3 DEF AddCallback, TypeOK, clickVars, Queued
    <3>2. CASE future[p] \in {"cancelled", "finished"}
      <4>1. /\ callbacks' = callbacks
            /\ registered' = IF registered = p THEN NoOne ELSE registered
        BY <2>3, <3>2 DEF AddCallback, Forget
      <4>2. RegisteredIsAlive'
        BY <1>1, <3>1, <4>1 DEF RegisteredIsAlive
      <4> QED
        BY <1>3, <3>1, <4>2
    <3>3. CASE future[p] \notin {"cancelled", "finished"}
      <4>1. callbacks' = callbacks \cup {p} /\ registered' = registered
        BY <2>3, <3>3 DEF AddCallback
      <4>2. future[p] \in {"pending", "running"}
        BY <1>1, <3>1, <3>3 DEF TypeOK, RegisteredIsAlive
      <4>3. RegisteredIsAlive'
        BY <1>1, <3>1, <4>1, <4>2 DEF RegisteredIsAlive
      <4> QED
        BY <1>3, <3>1, <4>3
    <3> QED
      BY <3>2, <3>3
  <2>4. CASE PrefetchDone(p)
    <3>1. /\ future[p] = "running" /\ Settle(p, "finished")
          /\ UNCHANGED <<phase, poolq, pc, found>>
      BY <2>4 DEF PrefetchDone, poolVars, clickVars
    <3>2. /\ RegisteredIsAlive'
          /\ \A q \in Parents : future'[q] = IF q = p THEN "finished" ELSE future[q]
      BY <1>1, <3>1, SettleIsSound
    <3>3. \A q \in Parents :
              /\ future[q] # "none" => future'[q] # "none"
              /\ future[q] \in {"running", "finished"}
                   => future'[q] \in {"running", "finished"}
      BY <3>2
    <3> QED
      BY <1>3, <3>1, <3>2, <3>3
  <2> QED
    BY <1>5, <2>1, <2>2, <2>3, <2>4 DEF Prefetch
<1>6. CASE TakePrefetch
  <2> DEFINE h == Head(poolq)
  <2>1. /\ poolq # <<>> /\ poolq \in Seq(Parents) /\ poolq' = Tail(poolq)
        /\ UNCHANGED <<registered, callbacks, phase, pc, found>>
        /\ future' = IF future[h] = "pending"
                     THEN [future EXCEPT ![h] = "running"] ELSE future
    BY <1>6 DEF TakePrefetch, TypeOK, clickVars
  <2>2. h \in Parents /\ h = poolq[1]
    BY <2>1
  <2>3. \A q \in Parents :
          future'[q] = IF q = h /\ future[h] = "pending" THEN "running" ELSE future[q]
    BY <2>1, <2>2 DEF TypeOK
  <2> HIDE DEF h
  <2>4. ASSUME NEW q \in Parents, future'[q] = "pending"
        PROVE  q \in Queued'
    <3>1. q # h /\ future[q] = "pending"
      BY <2>3, <2>4
    <3>0. q \in Queued
      BY <1>1, <3>1 DEF RegisteredIsAlive
    <3>2. PICK i \in 1..Len(poolq) : poolq[i] = q
      BY <3>0 DEF Queued
    <3>3. i # 1
      BY <2>2, <3>1, <3>2
    <3>4. /\ i - 1 \in 1..Len(poolq') /\ poolq'[i - 1] = poolq[i]
      BY <2>1, <3>2, <3>3
    <3> QED
      BY <3>2, <3>4 DEF Queued
  <2>5. RegisteredIsAlive'
    BY <1>1, <2>1, <2>3, <2>4 DEF RegisteredIsAlive
  <2> QED
    BY <1>3, <2>1, <2>3, <2>5
<1>7. CASE Close
  <2>1. /\ \A p \in Parents : phase[p] \in {"look", "over"}
        /\ \A p \in Parents : future'[p] = IF future[p] = "pending"
                                           THEN "cancelled" ELSE future[p]
        /\ registered' = IF registered # NoOne /\ future'[registered] = "cancelled"
                         THEN NoOne ELSE registered
        /\ UNCHANGED <<callbacks, phase, pc, found>>
    BY <1>7 DEF Close, clickVars
  <2>2. RegisteredIsAlive'
    BY <1>1, <2>1 DEF RegisteredIsAlive
  <2> QED
    BY <1>3, <2>1, <2>2
<1>8. ASSUME NEW t \in Clicks, Click(t)
      PROVE  RegistryInv'
  <2>0. t \in Threads /\ \A u \in Clicks : u \in Threads
    BY DEF Threads
  <2>1. CASE Peek(t)
    <3>1. /\ \E label \in {"lookup", "cancel"} :
               Goto(t, label) /\ (label = "cancel" => registered # NoOne)
          /\ found'[t] = registered /\ \A u \in Clicks : u # t => found'[u] = found[u]
          /\ UNCHANGED <<registered, future, callbacks, phase, poolq>>
      BY <2>1 DEF Peek, TypeOK, registryVars, poolVars
    <3>2. RegisteredIsAlive'
      BY <1>1, <3>1, RegistrySame
    <3>3. \E label \in {"lookup", "cancel"} :
            /\ pc'[t] = label /\ (label = "cancel" => registered # NoOne)
            /\ \A u \in Threads \ {t} : pc'[u] = pc[u]
      BY <2>0, <3>1, GotoIs
    <3>4. registered # NoOne => registered \in Parents /\ future[registered] # "none"
      BY <1>1 DEF TypeOK, RegisteredIsAlive
    <3>5. Finders'
      BY <1>1, <2>0, <3>1, <3>3, <3>4 DEF Finders
    <3> QED
      BY <3>2, <3>5 DEF RegistryInv
  <2>2. CASE CancelPrefetch(t)
    <3> DEFINE p == found[t]
    <3>1. /\ pc[t] = "cancel" /\ UNCHANGED <<phase, poolq, found>>
          /\ Goto(t, IF future[p] \in {"pending", "cancelled"} THEN "pop" ELSE "join")
          /\ IF future[p] = "pending"
             THEN Settle(p, "cancelled")
             ELSE UNCHANGED <<registered, future, callbacks>>
      BY <2>2 DEF CancelPrefetch, registryVars, poolVars, clickVars
    <3>2. p \in Parents /\ future[p] # "none"
      BY <1>1, <3>1 DEF Finders
    <3>3. pc'[t] = (IF future[p] \in {"pending", "cancelled"} THEN "pop" ELSE "join")
          /\ \A u \in Threads \ {t} : pc'[u] = pc[u]
      BY <2>0, <3>1, GotoIs
    <3> HIDE DEF p
    <3>4. /\ RegisteredIsAlive'
          /\ \A q \in Parents : future'[q] = IF q = p /\ future[p] = "pending"
                                             THEN "cancelled" ELSE future[q]
      <4>1. CASE future[p] = "pending"
        BY <1>1, <3>1, <3>2, <4>1, SettleIsSound
      <4>2. CASE future[p] # "pending"
        BY <1>1, <3>1, <4>2, RegistrySame
      <4> QED
        BY <4>1, <4>2
    <3>5. future[p] \in {"pending", "running", "cancelled", "finished"}
      BY <3>2 DEF TypeOK
    <3>6. ASSUME NEW u \in Clicks, pc'[u] \in {"cancel", "pop", "join"}
          PROVE  /\ found'[u] \in Parents /\ future'[found'[u]] # "none"
                 /\ pc'[u] = "join" => future'[found'[u]] \in {"running", "finished"}
      <4>1. CASE u = t
        BY <3>1, <3>2, <3>3, <3>4, <3>5, <4>1 DEF p
      <4>2. CASE u # t
        <5>1. pc'[u] = pc[u] /\ found'[u] = found[u]
          BY <2>0, <3>1, <3>3, <4>2
        <5>2. /\ found[u] \in Parents /\ future[found[u]] # "none"
              /\ pc[u] = "join" => future[found[u]] \in {"running", "finished"}
          BY <1>1, <3>6, <5>1 DEF Finders
        <5> QED
          BY <3>4, <5>1, <5>2
      <4> QED
        BY <4>1, <4>2
    <3> QED
      BY <3>4, <3>6 DEF RegistryInv, Finders
  <2>3. CASE Pop(t)
    <3>1. /\ Goto(t, "lookup") /\ registered' = NoOne
          /\ UNCHANGED <<future, callbacks, phase, poolq, found>>
      BY <2>3 DEF Pop, poolVars, clickVars
    <3>2. pc'[t] = "lookup" /\ \A u \in Threads \ {t} : pc'[u] = pc[u]
      BY <2>0, <3>1, GotoIs
    <3>3. RegisteredIsAlive'
      <4>1. Queued' = Queued
        BY <3>1 DEF Queued
      <4> QED
        BY <1>1, <3>1, <4>1 DEF RegisteredIsAlive
    <3>4. Finders'
      BY <1>1, <2>0, <3>1, <3>2, FindersStay
    <3> QED
      BY <3>3, <3>4 DEF RegistryInv
  <2>4. CASE JoinDone(t) \/ JoinTimeout(t)
    <3>1. Goto(t, "lookup") /\ UNCHANGED <<registryVars, poolVars, found>>
      BY <2>4 DEF JoinDone, JoinTimeout, outside, clickVars
    <3>2. pc'[t] = "lookup" /\ \A u \in Threads \ {t} : pc'[u] = pc[u]
      BY <2>0, <3>1, GotoIs
    <3> QED
      BY <1>2, <2>0, <3>1, <3>2
  <2> QED
    BY <1>8, <2>1, <2>2, <2>3, <2>4 DEF Click
<1>9. ASSUME NEW t \in Threads, Listing(t)
      PROVE  RegistryInv'
  <2>0. \A u \in Clicks : u \in Threads
    BY DEF Threads
  <2>1. UNCHANGED <<registryVars, poolVars, found>>
    BY <1>9
    DEF Listing, Begin, WarmHit, WarmMiss, LookupHit, LookupMiss, Lead, Follow,
        Derive, CannotDerive, Acquire, QueryOk, QueryFails, Store, outside, clickVars
  <2>2. \A u \in Clicks : pc'[u] \in {"cancel", "pop", "join"} => pc'[u] = pc[u]
    <3>1. CASE \E S \in SUBSET Threads, e \in Entries \cup {NoEntry} : End(S, e)
      BY <2>0, <3>1 DEF End
    <3>2. ASSUME NEW label \in {"peek", "lookup", "check", "gate", "flight",
                                "compute", "wait", "query", "store"}, Goto(t, label)
          PROVE  \A u \in Clicks : pc'[u] \in {"cancel", "pop", "join"} => pc'[u] = pc[u]
      BY <2>0, <3>2, GotoIs
    <3>3. CASE WarmHit(t) \/ LookupHit(t)
      BY <2>0, <3>3 DEF WarmHit, LookupHit, End
    <3>4. CASE QueryFails(t) \/ Store(t)
      BY <2>0, <3>4 DEF QueryFails, Store, Land, End
    <3>5. CASE Begin(t) \/ WarmMiss(t) \/ LookupMiss(t) \/ Lead(t) \/ Follow(t)
      BY <3>2, <3>5 DEF Begin, WarmMiss, LookupMiss, Lead, Follow
    <3>6. CASE Derive(t) \/ CannotDerive(t) \/ Acquire(t) \/ QueryOk(t)
      BY <3>2, <3>6 DEF Derive, CannotDerive, Acquire, QueryOk
    <3> QED
      BY <1>9, <3>3, <3>4, <3>5, <3>6 DEF Listing
  <2> QED
    BY <1>2, <2>1, <2>2
<1> QED
  BY <1>4, <1>5, <1>6, <1>7, <1>8, <1>9 DEF Next, Idle

LEMMA WaitsInvariance == Spec => [](FlightsAreLed /\ RegistryInv)
<1>1. Init => FlightsAreLed /\ RegistryInv
  <2> SUFFICES ASSUME Init
               PROVE  FlightsAreLed /\ RegistryInv
    OBVIOUS
  <2>1. /\ \A t \in Threads : pc[t] = "start"
        /\ \A k \in Keys : flight[k] = NoOne
        /\ \A t \in Clicks \cup Warms : t \in Threads
    BY DEF Init, Threads
  <2>2. FlightsAreLed
    BY <2>1 DEF FlightsAreLed, Alone
  <2>3. RegisteredIsAlive
    BY ListingAssumption DEF Init, RegisteredIsAlive, Threads
  <2>4. Finders
    BY <2>1 DEF Finders
  <2> QED
    BY <2>2, <2>3, <2>4 DEF RegistryInv
<1>2. IInv /\ IInv' /\ FlightsAreLed /\ RegistryInv /\ [Next]_vars
        => (FlightsAreLed /\ RegistryInv)'
  BY FlightsStep, RegistryStep DEF IInv
<1> QED
  BY <1>1, <1>2, Invariance, PTL DEF Spec

(* A request, wherever it waits, waits for work that is under way: the     *)
(* safety half of Answered (catalog.py:597-655, cache.py:121-160).         *)
THEOREM WaitsAreForWork == Spec => []NobodyWaitsInVain
<1>1. IInv /\ FlightsAreLed /\ RegistryInv => NobodyWaitsInVain
  <2> SUFFICES ASSUME IInv, FlightsAreLed, RegistryInv
               PROVE  NobodyWaitsInVain
    OBVIOUS
  <2>1. \A t \in Clicks : pc[t] = "join" => future[found[t]] \in {"running", "finished"}
    BY DEF RegistryInv, Finders
  <2>2. ASSUME NEW t \in Threads, pc[t] = "wait"
        PROVE  \E l \in Clicks \cup Parents :
                 flight[Key(t)] = l /\ Key(l) = Key(t) /\ pc[l] \in Computing
    <3>1. Key(t) \in Keys
      BY KeyType DEF IInv
    <3> QED
      BY <2>2, <3>1 DEF FlightsAreLed
  <2>3. ASSUME gate = 0
        PROVE  \E t \in Threads : pc[t] = "query"
    <3>1. Cardinality(Querying) # 0
      BY <2>3, ListingAssumption DEF IInv, GateAccounting
    <3>2. Querying # {}
      BY <3>1, FS_EmptySet
    <3> QED
      BY <3>2 DEF Querying
  <2> QED
    BY <2>1, <2>2, <2>3 DEF NobodyWaitsInVain
<1> QED
  BY <1>1, Invariance, WaitsInvariance, PTL

(* A directory is registered as long as its prefetch is under way or its   *)
(* callback yet to be added, which then forgets it; and what is pending is *)
(* in the pool's queue: the safety half of RegistryDrains                  *)
(* (catalog.py:801-835).                                                   *)
THEOREM RegisteredAreAlive == Spec => []RegisteredIsAlive
BY WaitsInvariance, PTL DEF RegistryInv

-----------------------------------------------------------------------------
(* Induction, as the least element of a set of numbers.                    *)

LEMMA LeastNat ==
  ASSUME NEW T \in SUBSET Nat, T # {}
  PROVE  \E x \in T : \A y \in T : x =< y
<1> DEFINE R == {ss \in Nat \X Nat : ss[1] < ss[2]}
<1>1. IsWellFoundedOn(R, Nat)
  BY NatLessThanWellFounded DEF OpToRel
<1>2. \E x \in T : \A y \in T : ~ (<<y, x>> \in R)
  <2> HIDE DEF R
  <2> QED
  BY <1>1, WFMin
<1>3. ASSUME NEW x \in T, NEW y \in T, ~ (<<y, x>> \in R) PROVE x =< y
  BY <1>3
<1> QED
  BY <1>2, <1>3

LEMMA Induct ==
  ASSUME NEW m \in Nat, NEW T \in SUBSET (0..m), 0 \in T,
         \A n \in T : n < m => n + 1 \in T
  PROVE  T = 0..m
<1>1. SUFFICES ASSUME (0..m) \ T # {} PROVE FALSE
  OBVIOUS
<1>2. PICK x \in (0..m) \ T : \A y \in (0..m) \ T : x =< y
  <2>1. (0..m) \ T \in SUBSET Nat
    OBVIOUS
  <2>2. QED
    BY <2>1, <1>1, LeastNat
<1>3. x - 1 \in T /\ x - 1 < m
  BY <1>2
<1>4. QED
  BY <1>2, <1>3

-----------------------------------------------------------------------------
(* Listings in order, and their pages.                                     *)

LEMMA StrictOrder ==
  ASSUME NEW sort \in SortKeys, NEW order \in {"ascending", "descending"}
  PROVE  /\ \A a \in Rows : ~Before(sort, order, a, a)
         /\ \A a, b \in Rows :
              a # b => Before(sort, order, a, b) \/ Before(sort, order, b, a)
         /\ \A a, b, c \in Rows :
              Before(sort, order, a, b) /\ Before(sort, order, b, c)
                => Before(sort, order, a, c)
<1>1. /\ \A a \in Rows : a.name \in Int /\ a.size \in Int /\ a["size"] = a.size
      /\ \A a, b \in Rows : a.name = b.name => a = b
  BY PagesAssumption
<1>2. \A a \in Rows : IsFile(a) \in {0, 1}
  BY DEF IsFile
<1>3. CASE sort = "name" /\ order = "ascending"
  BY <1>1, <1>2, <1>3 DEF Before
<1>4. CASE sort = "name" /\ order = "descending"
  BY <1>1, <1>2, <1>4 DEF Before
<1>5. CASE sort = "size" /\ order = "ascending"
  BY <1>1, <1>2, <1>5 DEF Before
<1>6. CASE sort = "size" /\ order = "descending"
  BY <1>1, <1>2, <1>6 DEF Before
<1>7. QED
  BY <1>3, <1>4, <1>5, <1>6 DEF SortKeys

\* A row stands where as many rows come before it.
Rank(rows, sort, order, row) ==
  Cardinality({b \in rows : Before(sort, order, b, row)})

LEMMA Ranks ==
  ASSUME NEW rows \in SUBSET Rows,
         NEW sort \in SortKeys, NEW order \in {"ascending", "descending"}
  PROVE  /\ Cardinality(rows) \in Nat /\ IsFiniteSet(rows)
         /\ \A a \in rows :
              Rank(rows, sort, order, a) \in 0..(Cardinality(rows) - 1)
         /\ \A a, b \in rows : Before(sort, order, a, b) =>
              Rank(rows, sort, order, a) < Rank(rows, sort, order, b)
         /\ \A i \in 0..(Cardinality(rows) - 1) : \E a \in rows :
              Rank(rows, sort, order, a) = i
<1> DEFINE n == Cardinality(rows)
           Ahead(a) == {b \in rows : Before(sort, order, b, a)}
           rank == [a \in rows |-> Rank(rows, sort, order, a)]
<1>1. IsFiniteSet(rows) /\ n \in Nat
  BY FS_Subset, FS_CardinalityType, ListingAssumption
<1>2. ASSUME NEW a \in rows
      PROVE  /\ IsFiniteSet(Ahead(a)) /\ Cardinality(Ahead(a)) \in 0..(n - 1)
  <2>1. Ahead(a) \subseteq rows \ {a}
    BY StrictOrder
  <2> HIDE DEF Ahead
  <2>2. IsFiniteSet(rows \ {a}) /\ Cardinality(rows \ {a}) = n - 1
    BY <1>1, FS_RemoveElement
  <2>3. /\ IsFiniteSet(Ahead(a)) /\ Cardinality(Ahead(a)) =< n - 1
        /\ Cardinality(Ahead(a)) \in Nat
    BY <2>1, <2>2, FS_Subset, FS_CardinalityType
  <2>4. QED
    BY <1>1, <2>3
<1>3. ASSUME NEW a \in rows, NEW b \in rows, Before(sort, order, a, b)
      PROVE  Cardinality(Ahead(a)) < Cardinality(Ahead(b))
  <2>1. a \notin Ahead(a) /\ Ahead(a) \cup {a} \subseteq Ahead(b)
    BY <1>3, StrictOrder
  <2>2. IsFiniteSet(Ahead(a)) /\ IsFiniteSet(Ahead(b))
    BY <1>2
  <2> HIDE DEF Ahead
  <2>3. Cardinality(Ahead(a) \cup {a}) = Cardinality(Ahead(a)) + 1
    BY <2>1, <2>2, FS_AddElement
  <2>4. Cardinality(Ahead(a) \cup {a}) =< Cardinality(Ahead(b))
    BY <2>1, <2>2, FS_Subset
  <2>5. Cardinality(Ahead(a)) \in Nat /\ Cardinality(Ahead(b)) \in Nat
    BY <2>2, FS_CardinalityType
  <2>6. QED
    BY <2>3, <2>4, <2>5
<1>4. \A a \in rows : rank[a] = Cardinality(Ahead(a))
  BY DEF Rank
<1> HIDE DEF Ahead, rank
<1>5. rank \in Injection(rows, 0..(n - 1))
  <2>1. rank \in [rows -> 0..(n - 1)]
    BY <1>2, <1>4 DEF rank
  <2>2. ASSUME NEW a \in rows, NEW b \in rows, a # b
        PROVE  rank[a] # rank[b]
    <3>1. Before(sort, order, a, b) \/ Before(sort, order, b, a)
      BY <2>2, StrictOrder
    <3>2. rank[a] \in Nat /\ rank[b] \in Nat
      BY <2>1
    <3>3. rank[a] < rank[b] \/ rank[b] < rank[a]
      BY <1>3, <1>4, <3>1
    <3>4. QED
      BY <3>2, <3>3
  <2>3. QED
    BY <2>1, <2>2 DEF Injection, IsInjective
<1>6. rank \in Surjection(rows, 0..(n - 1))
  <2>1. IsFiniteSet(0..(n - 1)) /\ Cardinality(0..(n - 1)) = n
    BY <1>1, FS_Interval
  <2> HIDE DEF n
  <2>2. QED
    BY <1>1, <1>5, <2>1, FS_Injection DEF n
<1>7. \A a \in rows : rank[a] = Rank(rows, sort, order, a)
  BY DEF rank
<1>8. QED
  BY <1>1, <1>2, <1>3, <1>4, <1>6, <1>7 DEF Surjection

LEMMA TableIs ==
  ASSUME NEW rows \in SUBSET Rows,
         NEW sort \in SortKeys, NEW order \in {"ascending", "descending"}
  PROVE  LET table == SortedTable(rows, sort, order)
         IN  /\ table \in Seq(Rows) /\ ToSet(table) = rows
             /\ \A i \in 1..(Len(table) - 1) :
                  Before(sort, order, table[i], table[i + 1])
<1> DEFINE n == Cardinality(rows)
           table == SortedTable(rows, sort, order)
           Rk(a) == Rank(rows, sort, order, a)
<1>1. n \in Nat
  BY Ranks
<1>2. \A a \in rows : Rk(a) \in 0..(n - 1)
  BY Ranks
<1>3. \A a, b \in rows : Before(sort, order, a, b) => Rk(a) < Rk(b)
  BY Ranks
<1>4. \A i \in 0..(n - 1) : \E a \in rows : Rk(a) = i
  BY Ranks
<1>5. table = [i \in 1..n |-> CHOOSE row \in rows : Rk(row) = i - 1]
  BY DEF SortedTable, Rank
<1> HIDE DEF n, table, Rk
<1>6. \A i \in 1..n : table[i] \in rows /\ Rk(table[i]) = i - 1
  BY <1>1, <1>4, <1>5
<1>7. table \in [1..n -> rows] /\ table \in Seq(Rows) /\ Len(table) = n
  BY <1>1, <1>5, <1>6
<1>8. ToSet(table) = rows
  <2>1. ASSUME NEW a \in rows
        PROVE  \E i \in 1..n : table[i] = a
    <3> DEFINE i == Rk(a) + 1
    <3>1. i \in 1..n
      BY <1>1, <1>2
    <3>2. table[i] \in rows /\ Rk(table[i]) = Rk(a)
      BY <1>2, <1>6, <3>1
    <3> HIDE DEF i
    <3>3. table[i] = a
      <4>1. ~Before(sort, order, table[i], a) /\ ~Before(sort, order, a, table[i])
        BY <1>2, <1>3, <3>2
      <4>2. QED
        BY <3>2, <4>1, StrictOrder
    <3>4. QED
      BY <3>1, <3>3
  <2>2. QED
    BY <1>7, <2>1 DEF ToSet
<1>9. ASSUME NEW i \in 1..(n - 1)
      PROVE  Before(sort, order, table[i], table[i + 1])
  <2>1. /\ i \in 1..n /\ i + 1 \in 1..n
        /\ Rk(table[i]) = i - 1 /\ Rk(table[i + 1]) = i
        /\ table[i] \in rows /\ table[i + 1] \in rows
    <3>1. i \in 1..n /\ i + 1 \in 1..n /\ (i + 1) - 1 = i
      BY <1>1
    <3>2. QED
      BY <1>6, <3>1
  <2>2. table[i] # table[i + 1]
    BY <2>1
  <2>3. ~Before(sort, order, table[i + 1], table[i])
    <3>1. Before(sort, order, table[i + 1], table[i]) => i < i - 1
      BY <1>3, <2>1
    <3>2. QED
      BY <3>1
  <2>4. QED
    BY <2>1, <2>2, <2>3, StrictOrder
<1>10. QED
  BY <1>7, <1>8, <1>9 DEF table

LEMMA TableInOrder ==
  ASSUME NEW rows \in SUBSET Rows,
         NEW sort \in SortKeys, NEW order \in {"ascending", "descending"}
  PROVE  InOrder(SortedTable(rows, sort, order), sort, order)
<1> DEFINE table == SortedTable(rows, sort, order)
<1>1. /\ table \in Seq(Rows)
      /\ \A i \in 1..(Len(table) - 1) :
           Before(sort, order, table[i], table[i + 1])
  BY TableIs
<1> HIDE DEF table
<1>2. ASSUME NEW a \in Rows, NEW b \in Rows, Before(sort, order, a, b)
      PROVE  IF sort = "name"
             THEN /\ b.element_type = "DIR" => a.element_type = "DIR"
                  /\ IsFile(a) = IsFile(b)
                       => (a.name < b.name <=> order = "ascending")
             ELSE IF order = "ascending" THEN a[sort] =< b[sort]
                                         ELSE a[sort] >= b[sort]
  <2>1. /\ a.name \in Int /\ b.name \in Int /\ a["size"] \in Int /\ b["size"] \in Int
        /\ sort = "name" \/ sort = "size"
    BY PagesAssumption DEF SortKeys
  <2>2. CASE sort = "name" /\ order = "ascending"
    BY <1>2, <2>1, <2>2 DEF Before, IsFile
  <2>3. CASE sort = "name" /\ order = "descending"
    BY <1>2, <2>1, <2>3 DEF Before, IsFile
  <2>4. CASE sort = "size"
    BY <1>2, <2>1, <2>4 DEF Before
  <2>5. QED
    BY <2>1, <2>2, <2>3, <2>4
<1>3. \A i \in 1..(Len(table) - 1) : table[i] \in Rows /\ table[i + 1] \in Rows
  BY <1>1
<1>4. QED
  BY <1>1, <1>2, <1>3 DEF InOrder, table

LEMMA Times ==
  ASSUME NEW i \in Nat, NEW j \in Nat, NEW s \in Nat, i =< j
  PROVE  i * s =< j * s /\ i * s \in Nat /\ (i + 1) * s = i * s + s
OBVIOUS

\* As many pages as it takes, and no more.
LEMMA PagesFit ==
  ASSUME NEW total \in Nat, NEW s \in Nat \ {0}
  PROVE  LET pages == Pages(total, s)
         IN  /\ pages \in Nat \ {0} /\ total =< pages * s
             /\ total = 0 => pages = 1
             /\ total # 0 => (pages - 1) * s < total
<1>1. CASE total = 0
  BY <1>1 DEF Pages
<1>2. CASE total # 0
  <2> DEFINE q == (total + s - 1) \div s
  <2>1. q \in Int /\ s * q =< total + s - 1 /\ total + s - 1 < s * q + s
    OBVIOUS
  <2> HIDE DEF q
  <2>2. q > 0
    <3>1. SUFFICES ASSUME q =< 0 PROVE FALSE
      BY <2>1
    <3>2. s * q =< 0
      BY <2>1, <3>1
    <3>3. QED
      BY <1>2, <2>1, <3>2
  <2>3. s * q = q * s /\ (q - 1) * s = q * s - s /\ q * s \in Int
    BY <2>1
  <2>4. QED
    BY <1>2, <2>1, <2>2, <2>3 DEF Pages, q
<1>3. QED
  BY <1>1, <1>2

\* Two pages that meet.
LEMMA Meet ==
  ASSUME NEW X, NEW t \in Seq(X), NEW a \in Nat, NEW b \in Nat,
         a =< b, b =< Len(t)
  PROVE  /\ SubSeq(t, 1, a) \o SubSeq(t, a + 1, b) = SubSeq(t, 1, b)
         /\ Len(SubSeq(t, a + 1, b)) = b - a
         /\ SubSeq(t, 1, Len(t)) = t
OBVIOUS

LEMMA PagesTileTable ==
  ASSUME NEW X, NEW table \in Seq(X), NEW size \in Nat
  PROVE  Tiles(table, size)
<1> DEFINE s == ClampPageSize(size)
           total == Len(table)
           pages == Pages(total, s)
           Show(page) == ListPage(table, page, size)
           E(i) == IF i * s < total THEN i * s ELSE total
           Clamp(p) == IF p < 1 THEN 1 ELSE IF p > pages THEN pages ELSE p
<1>1. s \in Nat \ {0} /\ total \in Nat
  BY PagesAssumption DEF ClampPageSize
<1>2. /\ pages \in Nat \ {0} /\ total =< pages * s
      /\ total = 0 => pages = 1
      /\ total # 0 => (pages - 1) * s < total
  <2> HIDE DEF s, total
  <2>1. QED
    BY <1>1, PagesFit
<1> HIDE DEF s, total, pages
<1>3. ASSUME NEW page \in Int
      PROVE  /\ Clamp(page) \in 1..pages
             /\ ClampPage(page, pages) = Clamp(page)
             /\ ClampPage(Clamp(page), pages) = Clamp(page)
  BY <1>2 DEF ClampPage
<1>4. ASSUME NEW page \in Int
      PROVE  Show(page) = [pages |-> pages, page |-> Clamp(page), size |-> s,
                           entries |-> SubSeq(table, (Clamp(page) - 1) * s + 1,
                                              E(Clamp(page)))]
  <2> HIDE DEF Clamp
  <2>1. ClampPage(page, pages) = Clamp(page)
    BY <1>3
  <2>2. QED
    BY <2>1 DEF ListPage, s, total, pages
<1> HIDE DEF Show
<1>5. ASSUME NEW page \in 1..pages
      PROVE  /\ Clamp(page) = page
             /\ (page - 1) * s \in Nat /\ (page - 1) * s =< E(page)
             /\ E(page) \in Nat /\ E(page) =< total
             /\ page # pages => E(page) = page * s
             /\ page # 1 => (page - 1) * s = E(page - 1)
             /\ page * s = (page - 1) * s + s
  <2>1. /\ page - 1 \in Nat /\ page \in Nat /\ pages - 1 \in Nat
        /\ page - 1 =< pages - 1
        /\ page # pages => page =< pages - 1
    BY <1>2
  <2>2. /\ (page - 1) * s \in Nat /\ (page - 1) * s =< (pages - 1) * s
        /\ page * s = (page - 1) * s + s /\ page * s \in Nat
        /\ page # pages => page * s =< (pages - 1) * s
        /\ (pages - 1) * s \in Nat
    <3>1. /\ (page - 1) * s \in Nat /\ (page - 1) * s =< (pages - 1) * s
          /\ ((page - 1) + 1) * s = (page - 1) * s + s
      BY <1>1, <2>1, Times
    <3>2. page # pages => page * s =< (pages - 1) * s
      BY <1>1, <2>1, Times
    <3>3. page * s \in Nat /\ (pages - 1) * s \in Nat
      BY <1>1, <2>1, Times
    <3>4. (page - 1) + 1 = page
      BY <2>1
    <3>5. QED
      BY <3>1, <3>2, <3>3, <3>4
  <2>3. Clamp(page) = page
    BY <1>2
  <2>4. CASE total = 0
    <3>1. page = 1 /\ pages = 1
      BY <1>2, <2>4
    <3>2. (page - 1) * s = 0
      BY <1>1, <3>1
    <3>3. QED
      BY <1>1, <2>2, <2>3, <2>4, <3>1, <3>2
  <2>5. CASE total # 0
    BY <1>1, <1>2, <2>2, <2>3, <2>5
  <2>6. QED
    BY <2>4, <2>5
<1> HIDE DEF Clamp, E
<1> DEFINE seqs == [page \in 1..pages |-> Show(page).entries]
<1>6. /\ seqs \in Seq(Seq(X)) /\ Len(seqs) = pages
      /\ \A page \in 1..pages :
           seqs[page] = SubSeq(table, (page - 1) * s + 1, E(page))
  <2>1. \A page \in 1..pages :
          Show(page).entries = SubSeq(table, (page - 1) * s + 1, E(page))
    BY <1>4, <1>5
  <2>2. ASSUME NEW page \in 1..pages
        PROVE  SubSeq(table, (page - 1) * s + 1, E(page)) \in Seq(X)
    <3>1. /\ (page - 1) * s \in Nat /\ E(page) \in Nat /\ E(page) =< Len(table)
      BY <1>5 DEF total
    <3>2. QED
      BY <3>1
  <2>3. seqs \in [1..pages -> Seq(X)]
    BY <2>1, <2>2
  <2>4. \A page \in 1..pages : seqs[page] = Show(page).entries
    OBVIOUS
  <2> HIDE DEF seqs
  <2>5. seqs \in Seq(Seq(X)) /\ Len(seqs) = pages
    <3> DEFINE Y == Seq(X)
    <3>1. pages \in Nat /\ seqs \in [1..pages -> Y]
      BY <1>2, <2>3
    <3> HIDE DEF Y
    <3>2. seqs \in Seq(Y) /\ Len(seqs) = pages
      BY <3>1
    <3>3. QED
      BY <3>2 DEF Y
  <2>6. QED
    BY <2>1, <2>4, <2>5
<1> HIDE DEF seqs
<1>7. FlattenSeq(seqs) = table
  <2> DEFINE Eq(f) == f = [i \in 1..Len(seqs) |->
                             IF i = 1 THEN seqs[i] ELSE f[i - 1] \o seqs[i]]
             c == CHOOSE f : Eq(f)
             g == [i \in 1..pages |-> SubSeq(table, 1, E(i))]
  <2>1. ASSUME NEW i \in 1..pages
        PROVE  g[i] = IF i = 1 THEN seqs[i] ELSE g[i - 1] \o seqs[i]
    <3>1. /\ (i - 1) * s \in Nat /\ E(i) \in Nat /\ (i - 1) * s =< E(i)
          /\ E(i) =< Len(table)
          /\ i # 1 => (i - 1) * s = E(i - 1)
          /\ seqs[i] = SubSeq(table, (i - 1) * s + 1, E(i))
      BY <1>5, <1>6 DEF total
    <3>2. CASE i = 1
      <4>1. (i - 1) * s + 1 = 1
        BY <1>1, <3>2
      <4>2. QED
        BY <3>1, <3>2, <4>1
    <3>3. CASE i # 1
      <4>1. i - 1 \in 1..pages
        BY <1>2, <3>3
      <4>2. g[i - 1] = SubSeq(table, 1, (i - 1) * s)
        BY <3>1, <3>3, <4>1
      <4> DEFINE a == (i - 1) * s
      <4>3. a \in Nat /\ a =< E(i) /\ seqs[i] = SubSeq(table, a + 1, E(i))
        BY <3>1
      <4> HIDE DEF a
      <4>4. SubSeq(table, 1, a) \o SubSeq(table, a + 1, E(i))
              = SubSeq(table, 1, E(i))
        <5> DEFINE e == E(i)
        <5>1. e \in Nat /\ a =< e /\ e =< Len(table)
          BY <3>1, <4>3
        <5> HIDE DEF e
        <5>2. SubSeq(table, 1, a) \o SubSeq(table, a + 1, e) = SubSeq(table, 1, e)
          BY <4>3, <5>1, Meet
        <5>3. QED
          BY <5>2 DEF e
      <4>5. QED
        BY <3>3, <4>2, <4>3, <4>4 DEF a
    <3>4. QED
      BY <3>2, <3>3
  <2>2. Eq(g)
    <3>1. g = [i \in 1..pages |-> g[i]]
      OBVIOUS
    <3> HIDE DEF g
    <3>2. QED
      BY <1>6, <2>1, <3>1
  <2>3. Eq(c)
    <3> HIDE DEF Eq
    <3>1. QED
      BY <2>2
  <2>4. \A i \in 1..pages :
          c[i] = IF i = 1 THEN seqs[i] ELSE c[i - 1] \o seqs[i]
    <3> HIDE DEF c
    <3>1. QED
      BY <1>6, <2>3
  <2>5. FlattenSeq(seqs) = c[pages]
    BY <1>2, <1>6 DEF FlattenSeq
  <2> HIDE DEF c, g, Eq
  <2> DEFINE T == {n \in 0..pages : n = 0 \/ c[n] = g[n]}
  <2>6. T = 0..pages
    <3>1. T \in SUBSET (0..pages) /\ 0 \in T
      BY <1>2
    <3>2. ASSUME NEW n \in T, n < pages PROVE n + 1 \in T
      <4>1. n + 1 \in 1..pages /\ n + 1 \in 0..pages /\ (n + 1) - 1 = n
        BY <1>2, <3>2
      <4>2. n # 0 => c[n] = g[n]
        OBVIOUS
      <4>3. c[n + 1] = g[n + 1]
        <5>1. CASE n = 0
          BY <2>1, <2>4, <4>1, <5>1
        <5>2. CASE n # 0
          <6>1. n + 1 # 1
            BY <4>1, <5>2
          <6>2. QED
            BY <2>1, <2>4, <4>1, <4>2, <5>2, <6>1
        <5>3. QED
          BY <5>1, <5>2
      <4>4. QED
        BY <4>1, <4>3
    <3> HIDE DEF T
    <3>3. QED
      BY <1>2, <3>1, <3>2, Induct
  <2>7. pages \in 1..pages /\ E(pages) = total
    <3>1. pages * s \in Nat /\ pages \in 1..pages
      BY <1>1, <1>2, Times
    <3>2. ~(pages * s < total)
      BY <1>1, <1>2, <3>1
    <3>3. QED
      BY <3>1, <3>2 DEF E
  <2>8. c[pages] = g[pages]
    BY <1>2, <2>6
  <2>9. g[pages] = SubSeq(table, 1, Len(table))
    BY <2>7 DEF g, total
  <2>10. QED
    BY <2>5, <2>8, <2>9, Meet
<1>8. ASSUME NEW page \in 1..pages, page # pages
      PROVE  Len(Show(page).entries) = Show(page).size
  <2> DEFINE a == (page - 1) * s
  <2>1. /\ a \in Nat /\ a =< E(page) /\ E(page) \in Nat /\ E(page) =< Len(table)
        /\ E(page) = a + s
    BY <1>5, <1>8 DEF total
  <2>2. /\ Show(page).entries = SubSeq(table, a + 1, E(page))
        /\ Show(page).size = s
    BY <1>4, <1>5
  <2> HIDE DEF a
  <2>3. Len(SubSeq(table, a + 1, E(page))) = E(page) - a
    BY <2>1, Meet
  <2>4. QED
    BY <1>1, <2>1, <2>2, <2>3
<1>9. ASSUME NEW page \in Int
      PROVE  Show(page) = Show(IF page < 1 THEN 1
                               ELSE IF page > pages THEN pages ELSE page)
  <2>1. Clamp(page) \in Int /\ Clamp(Clamp(page)) = Clamp(page)
    BY <1>2 DEF Clamp
  <2>2. Show(page) = Show(Clamp(page))
    BY <1>4, <2>1
  <2>3. QED
    BY <2>2 DEF Clamp
<1>10. Show(1).pages = pages
  BY <1>4
<1>11. Tiles(table, size)
         = /\ FlattenSeq([page \in 1..Show(1).pages |-> Show(page).entries])
                = table
           /\ \A page \in 1..Show(1).pages :
                Len(Show(page).entries) = Show(page).size \/ page = Show(1).pages
           /\ \A page \in -1..(Show(1).pages + 2) :
                Show(page) = Show(IF page < 1 THEN 1
                                  ELSE IF page > Show(1).pages
                                  THEN Show(1).pages ELSE page)
  BY DEF Tiles, Show
<1>12. FlattenSeq([page \in 1..Show(1).pages |-> Show(page).entries]) = table
  BY <1>7, <1>10 DEF seqs
<1>13. \A page \in -1..(pages + 2) : page \in Int
  BY <1>2
<1>14. QED
  BY <1>8, <1>9, <1>10, <1>11, <1>12, <1>13

\* However many rows a listing has, it is shown well.
LEMMA EveryListingIsShownWell ==
  ASSUME NEW rows \in SUBSET Rows
  PROVE  rows \in ShownWell
<1>1. rows = Rows \ (Rows \ rows) /\ Rows \ rows \in SUBSET Rows
  OBVIOUS
<1>2. ASSUME NEW o \in Orders
      PROVE  /\ ToSet(SortedTable(rows, o[1], o[2])) = rows
             /\ InOrder(SortedTable(rows, o[1], o[2]), o[1], o[2])
  <2>1. o[1] \in SortKeys /\ o[2] \in {"ascending", "descending"}
    BY DEF Orders
  <2>2. QED
    BY <2>1, TableIs, TableInOrder
<1>3. ASSUME NEW size \in 0..(PageMax + 1)
      PROVE  Tiles(SortedTable(rows, "name", "ascending"), size)
  <2>1. "name" \in SortKeys /\ "ascending" \in {"ascending", "descending"}
    BY DEF SortKeys
  <2>2. SortedTable(rows, "name", "ascending") \in Seq(Rows)
    BY <2>1, TableIs
  <2>3. size \in Nat
    BY PagesAssumption
  <2>4. QED
    BY <2>2, <2>3, PagesTileTable
<1>4. QED
  BY <1>1, <1>2, <1>3 DEF ShownWell

(* Whatever a click is answered with is shown in the order asked for, each *)
(* row once, and its pages put together are the listing, whatever the size *)
(* of a page; a number out of range shows the last page or the first       *)
(* (catalog.py:590-592, 735-800).                                          *)
THEOREM PagesHold == Spec => []PagesTile
<1>1. TypeOK => PagesTile
  <2> SUFFICES ASSUME TypeOK, NEW t \in Clicks, got[t] # NoEntry
               PROVE  got[t].rows \in ShownWell
    BY DEF PagesTile
  <2>1. got[t] \in Entries
    BY DEF TypeOK, Threads
  <2>2. got[t].rows \in SUBSET Rows
    BY <2>1 DEF Entries
  <2>3. QED
    BY <2>2, EveryListingIsShownWell
<1>2. QED
  BY <1>1, TypeCorrect, PTL
=============================================================================
