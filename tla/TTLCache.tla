------------------------------ MODULE TTLCache ------------------------------
(***************************************************************************)
(* catwalk/cache.py: a cache with a time to live, a byte bound enforced in *)
(* LRU order, and single-flight computation of misses.                     *)
(*                                                                         *)
(* Every operation is one critical section of self._lock, except           *)
(* get_or_compute, whose critical sections are separate actions here: the  *)
(* lookup (LookupHit, LookupMiss), the choice of a leader (Lead, Follow),  *)
(* the unlocked compute (ComputeOk, ComputeFail), put (Store), the removal *)
(* of the flight (Unlink) and the resolution of its Future (Resolve).      *)
(*                                                                         *)
(* Values are left out: what matters is which caller computes and which    *)
(* callers share its outcome.  A flight's Future is named by the thread    *)
(* that created it, since a thread leads at most one unresolved flight.    *)
(* Time is the remaining life of an entry, in ticks, expired at 0.         *)
(***************************************************************************)
EXTENDS Integers, Sequences, FiniteSets, SequencesExt

CONSTANTS Threads,     \* threads of the executors that use the cache
          Keys,        \* cache keys
          TTL,         \* self.ttl in ticks
          MaxBytes,    \* self.max_bytes, 0 for unbounded
          Sizes,       \* byte costs that callers may supply
          NoThread,    \* "no leader"
          NoKey        \* "no call in progress"

ASSUME TTLCacheAssumption ==
  /\ TTL \in Nat /\ MaxBytes \in Nat /\ Sizes \subseteq Nat
  /\ NoThread \notin Threads /\ NoKey \notin Keys

VARIABLES d,           \* _d: entries, least recently used first
          bytes,       \* _bytes
          inflight,    \* _inflight: the leader of the flight of each key
          pc, key,     \* where each thread is in get_or_compute, and for what
          leader       \* the leader whose Future a follower waits on

entryVars == <<d, bytes>>
callVars  == <<inflight, pc, key, leader>>
vars      == <<d, bytes, inflight, pc, key, leader>>

Entry == [key : Keys, nbytes : Sizes, life : 0..TTL]

Init ==
  /\ d = <<>> /\ bytes = 0
  /\ inflight = [k \in Keys |-> NoThread]
  /\ pc = [t \in Threads |-> "idle"]
  /\ key = [t \in Threads |-> NoKey]
  /\ leader = [t \in Threads |-> NoThread]
-----------------------------------------------------------------------------
(* The entries.                                                            *)

Cost(s) ==
  LET upto[n \in 0..Len(s)] == IF n = 0 THEN 0 ELSE upto[n - 1] + s[n].nbytes
  IN  upto[Len(s)]
Has(s, k) == \E i \in DOMAIN s : s[i].key = k
The(s, k) == CHOOSE e \in ToSet(s) : e.key = k
Live(k) == Has(d, k) /\ The(d, k).life > 0

(* The entries of s at the places in `kept', in their order.               *)
Selected(s, kept) ==
  LET upto[n \in 0..Len(s)] ==
        IF n = 0 THEN <<>>
        ELSE IF n \in kept THEN Append(upto[n - 1], s[n]) ELSE upto[n - 1]
  IN  upto[Len(s)]
Without(s, k) == Selected(s, {i \in DOMAIN s : s[i].key # k})

(* Mutation: put forgets to prune.                                         *)
UnexpiredKeepsAll(s) == s
Unexpired(s) == Selected(s, {i \in DOMAIN s : s[i].life > 0})

(* _bytes after s shrank to rest.  Mutation: the counter is left alone.    *)
ReleaseForgotten(b, s, rest) == b
Release(b, s, rest) == b - (Cost(s) - Cost(rest))

(* The while loop of put: how many entries it drops from the front of s    *)
(* when the byte counter stands at b.  Mutation: the bound is not reached. *)
EvictedEarlyStop(s, b) ==
  IF MaxBytes > 0 /\ b > MaxBytes THEN 1 ELSE 0
Evicted(s, b) ==
  LET enough == {n \in 0..Len(s) : b - Cost(SubSeq(s, 1, n)) =< MaxBytes}
  IN  IF MaxBytes = 0 THEN 0
      ELSE CHOOSE n \in enough \cup {Len(s)} : \A m \in enough : n =< m

Fits(n) == MaxBytes = 0 \/ n =< MaxBytes

(* get: drop an expired entry, move a live one to the recently used end.   *)
Get(k) ==
  IF Live(k)
  THEN /\ d' = Append(Without(d, k), The(d, k))
       /\ bytes' = bytes
  ELSE /\ d' = Without(d, k)
       /\ bytes' = Release(bytes, d, d')

(* expires_in: drop an expired entry, leave the LRU order alone.           *)
ExpiresIn(k) ==
  /\ d' = IF Live(k) THEN d ELSE Without(d, k)
  /\ bytes' = Release(bytes, d, d')

(* put: prune, pop the old entry, refuse an oversized value, insert, evict.*)
Put(k, n) ==
  LET rest  == Without(Unexpired(d), k)
      added == Append(rest, [key |-> k, nbytes |-> n, life |-> TTL])
      freed == Release(bytes, d, rest)
      drop  == Evicted(added, freed + n)
  IN  IF Fits(n)
      THEN /\ d' = SubSeq(added, drop + 1, Len(added))
           /\ bytes' = Release(freed + n, added, d')
      ELSE d' = rest /\ bytes' = freed

Prune == d' = Unexpired(d) /\ bytes' = Release(bytes, d, d')

Invalidate(k) == d' = Without(d, k) /\ bytes' = Release(bytes, d, d')

(* Mutation: the counter is reset, the entries stay.                       *)
InvalidateCounterOnly == UNCHANGED d /\ bytes' = 0
InvalidateAll == d' = <<>> /\ bytes' = 0

(* Time passes: every entry has one tick less to live.                     *)
Tick ==
  /\ \E i \in DOMAIN d : d[i].life > 0
  /\ d' = [i \in DOMAIN d |->
             [d[i] EXCEPT !.life = IF @ > 0 THEN @ - 1 ELSE 0]]
  /\ UNCHANGED bytes

(* Any other caller of the cache, while get_or_compute calls are under way.*)
Client ==
  /\ UNCHANGED callVars
  /\ \/ \E k \in Keys : Get(k)
     \/ \E k \in Keys : ExpiresIn(k)
     \/ \E k \in Keys, n \in Sizes : Put(k, n)
     \/ Prune
     \/ \E k \in Keys : Invalidate(k)
     \/ InvalidateAll
     \/ Tick
-----------------------------------------------------------------------------
(* get_or_compute by thread t.                                             *)

Goto(t, label) == pc' = [pc EXCEPT ![t] = label]

(* The call returns or raises: nothing of it is left.                      *)
Return(ts) ==
  /\ pc' = [t \in Threads |-> IF t \in ts THEN "idle" ELSE pc[t]]
  /\ key' = [t \in Threads |-> IF t \in ts THEN NoKey ELSE key[t]]
  /\ leader' = [t \in Threads |-> IF t \in ts THEN NoThread ELSE leader[t]]

LookupHit(t, k) ==
  /\ pc[t] = "idle" /\ Live(k)
  /\ Get(k)
  /\ UNCHANGED callVars

LookupMiss(t, k) ==
  /\ pc[t] = "idle" /\ ~Live(k)
  /\ Get(k)
  /\ Goto(t, "join")
  /\ key' = [key EXCEPT ![t] = k]
  /\ UNCHANGED <<inflight, leader>>

(* Mutation: a caller leads without looking for a flight to join.          *)
LeadBlindly(t) ==
  /\ pc[t] = "join"
  /\ inflight' = [inflight EXCEPT ![key[t]] = t]
  /\ Goto(t, "compute")
  /\ UNCHANGED <<d, bytes, key, leader>>
Lead(t) ==
  /\ pc[t] = "join" /\ inflight[key[t]] = NoThread
  /\ inflight' = [inflight EXCEPT ![key[t]] = t]
  /\ Goto(t, "compute")
  /\ UNCHANGED <<d, bytes, key, leader>>

Follow(t) ==
  /\ pc[t] = "join" /\ inflight[key[t]] # NoThread
  /\ leader' = [leader EXCEPT ![t] = inflight[key[t]]]
  /\ Goto(t, "wait")
  /\ UNCHANGED <<d, bytes, key, inflight>>

ComputeOk(t) ==
  /\ pc[t] = "compute"
  /\ Goto(t, "store")
  /\ UNCHANGED <<d, bytes, key, inflight, leader>>

ComputeFail(t) ==
  /\ pc[t] = "compute"
  /\ Goto(t, "unlink")
  /\ UNCHANGED <<d, bytes, key, inflight, leader>>

Store(t) ==
  /\ pc[t] = "store"
  /\ \E n \in Sizes : Put(key[t], n)
  /\ Goto(t, "unlink")
  /\ UNCHANGED <<key, inflight, leader>>

Unlink(t) ==
  /\ pc[t] = "unlink"
  /\ inflight' = [inflight EXCEPT ![key[t]] = NoThread]
  /\ Goto(t, "resolve")
  /\ UNCHANGED <<d, bytes, key, leader>>

(* set_result or set_exception: the leader and every follower return.      *)
(* Mutation: only the leader does.                                         *)
ResolveLeaderOnly(t) ==
  /\ pc[t] = "resolve"
  /\ Return({t})
  /\ UNCHANGED <<d, bytes, inflight>>
Resolve(t) ==
  /\ pc[t] = "resolve"
  /\ Return({t} \cup {f \in Threads : pc[f] = "wait" /\ leader[f] = t})
  /\ UNCHANGED <<d, bytes, inflight>>

(* The steps a call takes by itself once its lookup has missed.            *)
Proceed(t) ==
  \/ Lead(t) \/ Follow(t)
  \/ ComputeOk(t) \/ ComputeFail(t)
  \/ Store(t) \/ Unlink(t) \/ Resolve(t)

Calls ==
  \/ \E t \in Threads, k \in Keys : LookupHit(t, k) \/ LookupMiss(t, k)
  \/ \E t \in Threads : Proceed(t)

Next == Client \/ Calls

Spec == Init /\ [][Next]_vars

(* A thread that runs is scheduled again, and compute() ends: every backend*)
(* query is bounded by the client's timeouts.                              *)
FairSpec == Spec /\ \A t \in Threads : WF_vars(Proceed(t))
-----------------------------------------------------------------------------
(* Properties.                                                             *)

Leading(t) == pc[t] \in {"compute", "store", "unlink"}

FlightTypeOK ==
  /\ inflight \in [Keys -> Threads \cup {NoThread}]
  /\ pc \in [Threads -> {"idle", "join", "wait", "compute", "store", "unlink",
                         "resolve"}]
  /\ key \in [Threads -> Keys \cup {NoKey}]
  /\ leader \in [Threads -> Threads \cup {NoThread}]
  /\ \A t \in Threads : key[t] = NoKey <=> pc[t] = "idle"

(* The type invariant.                                                     *)
TypeOK ==
  /\ d \in Seq(Entry) /\ bytes \in Nat
  /\ FlightTypeOK

(* _bytes is the cost of what _d holds, never above a configured bound,    *)
(* and _d holds a key once, whatever mix of put, get, expiry, eviction and *)
(* invalidation came before (cache.py:43-114).                             *)
ByteAccounting ==
  /\ bytes = Cost(d)
  /\ MaxBytes > 0 => bytes =< MaxBytes
  /\ \A i, j \in DOMAIN d : d[i].key = d[j].key => i = j

(* At no time do two callers compute, or store, the same key: the point of *)
(* single-flight (cache.py:132-150).                                       *)
OneScanPerKey ==
  \A s, t \in Threads : s # t /\ Leading(s) /\ Leading(t) => key[s] # key[t]

(* put evicts live entries of other keys, the least recently used first    *)
(* (with an entry it loses every older one, in the order that get and put  *)
(* keep), and stops as soon as the rest fits: the last one evicted would   *)
(* break the byte bound with what stays, so an expired entry never costs a *)
(* live one its place.  And what put stored is still there afterwards      *)
(* (cache.py:43-60, 82-99).                                                *)
PutEvictsUnderPressure ==
  [][ \A k \in Keys, n \in Sizes : Put(k, n) =>
        LET lost == {i \in DOMAIN d : d[i].life > 0 /\ d[i].key # k
                                      /\ ~Has(d', d[i].key)}
            live == Selected(d', {i \in DOMAIN d' : d'[i].life > 0})
        IN  /\ Fits(n) => Has(d', k)
            /\ lost # {} => /\ MaxBytes > 0
                            /\ Cost(live) + d[Max(lost)].nbytes > MaxBytes
            /\ \A i \in lost, j \in DOMAIN d :
                 j < i /\ d[j].life > 0 /\ d[j].key # k => j \in lost ]_vars

(* Every caller of get_or_compute returns or raises in the end, leader and *)
(* follower alike, even when computes fail.                                *)
Answered == \A t \in Threads : pc[t] # "idle" ~> pc[t] = "idle"
=============================================================================
