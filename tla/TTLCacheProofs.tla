--------------------------- MODULE TTLCacheProofs ---------------------------
(***************************************************************************)
(* The cache is sound for any number of threads and keys, any sizes and    *)
(* bounds: its byte counter is exact and bounded, put evicts only under    *)
(* pressure, at most one caller computes a key at a time, and nobody waits *)
(* on a dead flight.                                                       *)
(*                                                                         *)
(* Flights and entries have an inductive invariant each.                   *)
(* FlightInv is NoDeadFlight with the types of the flight variables.  Its  *)
(* second conjunct, that _inflight names exactly the leaders, is what      *)
(* makes it inductive; OneScanPerKey follows from it, and d and bytes do   *)
(* not occur in it.                                                        *)
(* EntriesInv is ByteAccounting with the type of d.  It is inductive, but  *)
(* only with an account of what Cost and Selected compute, and those are   *)
(* recursive functions.  So the first half of this module is about them:   *)
(* induction (Induct, from the least counterexample), the existence of a   *)
(* function given by recursion (Recursion), the running total behind Cost  *)
(* (IsTotal), and the places that Selected keeps (Placing).                *)
(***************************************************************************)
EXTENDS TTLCache, SequenceTheorems, WellFoundedInduction, TLAPS

(* Induction and recursion.                                                *)

LEMMA LeastNat ==
  ASSUME NEW T \in SUBSET Nat, T # {}
  PROVE  \E x \in T : \A y \in T : x =< y
<1> DEFINE R == {ss \in Nat \X Nat : ss[1] < ss[2]}
<1>1. IsWellFoundedOn(R, Nat)
  BY NatLessThanWellFounded DEF OpToRel
<1>2. \E x \in T : \A y \in T : ~ (<<y, x>> \in R)
  <2> HIDE DEF R
  <2> QED
  BY <1>1, WFMin
<1>3. ASSUME NEW x \in T, NEW y \in T, ~ (<<y, x>> \in R) PROVE x =< y
  BY <1>3
<1> QED
  BY <1>2, <1>3

LEMMA Induct ==
  ASSUME NEW m \in Nat, NEW T \in SUBSET (0..m), 0 \in T,
         \A n \in T : n < m => n + 1 \in T
  PROVE  T = 0..m
<1>1. SUFFICES ASSUME (0..m) \ T # {} PROVE FALSE
  OBVIOUS
<1>2. PICK x \in (0..m) \ T : \A y \in (0..m) \ T : x =< y
  <2>1. (0..m) \ T \in SUBSET Nat
    OBVIOUS
  <2>2. QED
    BY <2>1, <1>1, LeastNat
<1>3. x - 1 \in T /\ x - 1 < m
  BY <1>2
<1>4. QED
  BY <1>2, <1>3

Runs(m, V, b, st) ==
  {g \in [0..m -> V] : g[0] = b /\ \A n \in 1..m : g[n] = st[n][g[n - 1]]}
LEMMA Recursion ==
  ASSUME NEW m \in Nat, NEW V, NEW b \in V, NEW st \in [1..m -> [V -> V]]
  PROVE  Runs(m, V, b, st) # {}
<1> DEFINE Good(g, k) == g[0] = b /\ \A n \in 1..k : g[n] = st[n][g[n - 1]]
           T == {k \in 0..m : \E g \in [0..k -> V] : Good(g, k)}
<1>1. 0 \in T
  <2> DEFINE h == [i \in 0..0 |-> b]
  <2>1. h \in [0..0 -> V] /\ Good(h, 0)
    OBVIOUS
  <2>2. \E g \in [0..0 -> V] : Good(g, 0)
    BY <2>1
  <2> HIDE DEF Good
  <2>3. QED
    BY <2>2
<1>2. ASSUME NEW k \in T, k < m PROVE k + 1 \in T
  <2>1. PICK g \in [0..k -> V] : Good(g, k)
    OBVIOUS
  <2> DEFINE new == st[k + 1][g[k]]
             h == [i \in 0..(k + 1) |-> IF i = k + 1 THEN new ELSE g[i]]
  <2>2. k \in 0..m /\ k + 1 \in 1..m /\ k \in 0..k /\ new \in V
    <3>1. k \in 0..m /\ k + 1 \in 1..m /\ k \in 0..k
      BY <1>2
    <3>2. g[k] \in V /\ st[k + 1] \in [V -> V]
      BY <3>1
    <3>3. QED
      BY <3>1, <3>2
  <2>3. h \in [0..(k + 1) -> V]
    <3> HIDE DEF new
    <3>1. QED
      BY <2>2
  <2>4. Good(h, k + 1)
    <3>1. h[0] = b
      BY <2>1, <2>2
    <3>2. ASSUME NEW n \in 1..(k + 1) PROVE h[n] = st[n][h[n - 1]]
      <4>1. CASE n = k + 1
        BY <4>1, <2>2
      <4>2. CASE n # k + 1
        BY <4>2, <2>1, <2>2
      <4>3. QED
        BY <4>1, <4>2
    <3>3. QED
      BY <3>1, <3>2
  <2>5. \E g2 \in [0..(k + 1) -> V] : Good(g2, k + 1)
    <3> HIDE DEF Good, h
    <3>1. QED
      BY <2>3, <2>4
  <2>6. k + 1 \in 0..m
    BY <2>2
  <2> HIDE DEF Good
  <2>7. QED
    BY <2>5, <2>6
<1>3. T = 0..m
  <2>1. T \subseteq 0..m
    OBVIOUS
  <2> HIDE DEF T
  <2>2. QED
    BY <1>1, <1>2, <2>1, Induct
<1>4. \E g \in [0..m -> V] : Good(g, m)
  <2>1. m \in T
    <3> HIDE DEF T
    <3>1. QED
      BY <1>3
  <2> HIDE DEF Good
  <2>2. QED
    BY <2>1
<1>5. QED
  BY <1>4 DEF Runs


LEMMA Stays ==
  ASSUME NEW m \in Nat, NEW V, NEW c, c[0] \in V,
         \A n \in 1..m : c[n - 1] \in V => c[n] \in V
  PROVE  \A n \in 0..m : c[n] \in V
<1> DEFINE T == {n \in 0..m : c[n] \in V}
<1>1. T \in SUBSET (0..m) /\ 0 \in T
  OBVIOUS
<1>2. \A n \in T : n < m => n + 1 \in T
  OBVIOUS
<1>3. T = 0..m
  <2> HIDE DEF T
  <2>1. QED
    BY <1>1, <1>2, Induct
<1>4. QED
  BY <1>3
-----------------------------------------------------------------------------
(* What Cost and Selected compute.                                         *)

LEMMA EntryTypes ==
  \A e \in Entry : /\ e.key \in Keys /\ e.nbytes \in Nat /\ e.nbytes \in Sizes
                    /\ e.life \in 0..TTL
  BY TTLCacheAssumption DEF Entry

LEMMA Places ==
  ASSUME NEW s \in Seq(Entry)
  PROVE  /\ Len(s) \in Nat /\ DOMAIN s = 1..Len(s)
         /\ \A n \in 1..Len(s) : s[n] \in Entry /\ s[n].nbytes \in Nat
  BY LenProperties, ElementOfSeq, EntryTypes

(* The function behind Cost(s): the running total.                         *)
IsTotal(f, s) ==
  /\ f \in [0..Len(s) -> Nat] /\ f[0] = 0
  /\ \A n \in 1..Len(s) : f[n] = f[n - 1] + s[n].nbytes

(* A step of the total.                                                    *)
LEMMA TotalStep ==
  ASSUME NEW s \in Seq(Entry), NEW f, IsTotal(f, s), NEW n \in 0..Len(s)
  PROVE  /\ f[n] \in Nat
         /\ n < Len(s) => /\ s[n + 1] \in Entry /\ s[n + 1].nbytes \in Nat
                          /\ f[n + 1] = f[n] + s[n + 1].nbytes
<1>1. Len(s) \in Nat /\ f[n] \in Nat
  BY Places DEF IsTotal
<1>2. ASSUME n < Len(s)
      PROVE  /\ s[n + 1] \in Entry /\ s[n + 1].nbytes \in Nat
             /\ f[n + 1] = f[n] + s[n + 1].nbytes
  <2>1. n + 1 \in 1..Len(s) /\ n + 1 - 1 = n
    BY <1>1, <1>2
  <2> DEFINE k == n + 1
  <2>2. k \in 1..Len(s) /\ k - 1 = n
    BY <2>1
  <2> HIDE DEF k
  <2>3. s[k] \in Entry /\ s[k].nbytes \in Nat /\ f[k] = f[n] + s[k].nbytes
    BY <2>2, Places DEF IsTotal
  <2>4. QED
    BY <2>3 DEF k
<1>3. QED
  BY <1>1, <1>2

LEMMA CostTotal ==
  ASSUME NEW s \in Seq(Entry)
  PROVE  \E f : IsTotal(f, s) /\ Cost(s) = f[Len(s)]
<1> DEFINE m == Len(s)
           st == [n \in 1..m |-> [v \in Nat |-> v + s[n].nbytes]]
           Eq(f) == f = [n \in 0..m |->
                           IF n = 0 THEN 0 ELSE f[n - 1] + s[n].nbytes]
           c == CHOOSE h : Eq(h)
<1>1. m \in Nat /\ 0 \in Nat /\ \A n \in 1..m : s[n].nbytes \in Nat
  BY Places
<1>2. st \in [1..m -> [Nat -> Nat]]
  BY <1>1
<1>3. \E f : f \in Runs(m, Nat, 0, st)
  <2> HIDE DEF st, m
  <2>1. QED
    BY <1>1, <1>2, Recursion
<1>4. PICK f : f \in Runs(m, Nat, 0, st)
  BY <1>3
<1>5. f \in [0..m -> Nat] /\ f[0] = 0
  BY <1>4 DEF Runs
<1>6. ASSUME NEW n \in 1..m PROVE f[n] = f[n - 1] + s[n].nbytes
  <2>1. f[n - 1] \in Nat
    BY <1>1, <1>5
  <2>2. f[n] = st[n][f[n - 1]]
    BY <1>4 DEF Runs
  <2>3. QED
    BY <2>1, <2>2
<1>7. Eq(f)
  <2> DEFINE g == [n \in 0..m |-> IF n = 0 THEN 0 ELSE f[n - 1] + s[n].nbytes]
  <2>1. \A n \in 0..m : f[n] = g[n]
    BY <1>1, <1>5, <1>6
  <2>2. QED
    BY <2>1, <1>5
<1>8. Eq(c)
  <2> HIDE DEF Eq
  <2>1. QED
    BY <1>7
<1>9. /\ c = [n \in 0..m |-> c[n]]
      /\ \A n \in 0..m : c[n] = IF n = 0 THEN 0 ELSE c[n - 1] + s[n].nbytes
  <2> HIDE DEF c
  <2>1. QED
    BY <1>8
<1>10. IsTotal(c, s)
  <2> HIDE DEF c, st, Eq
  <2>1. c[0] = 0 /\ \A n \in 1..m : c[n] = c[n - 1] + s[n].nbytes
    BY <1>1, <1>9
  <2>2. \A n \in 1..m : c[n - 1] \in Nat => c[n] \in Nat
    BY <1>1, <2>1
  <2>3. \A n \in 0..m : c[n] \in Nat
    <3> HIDE DEF m
    <3>1. QED
      BY <1>1, <2>1, <2>2, Stays
  <2>4. QED
    BY <1>9, <2>1, <2>3 DEF IsTotal
<1>11. Cost(s) = c[m]
  BY DEF Cost
<1> HIDE DEF c
<1>12. QED
  BY <1>10, <1>11

(* The function behind Selected(s, I): what is kept of the first n entries.*)
IsChoice(f, s, I) ==
  /\ f \in [0..Len(s) -> Seq(Entry)] /\ f[0] = <<>>
  /\ \A n \in 1..Len(s) :
       f[n] = IF n \in I THEN Append(f[n - 1], s[n]) ELSE f[n - 1]

LEMMA SelectedChoice ==
  ASSUME NEW s \in Seq(Entry), NEW I
  PROVE  \E f : IsChoice(f, s, I) /\ Selected(s, I) = f[Len(s)]
<1> DEFINE m == Len(s)
           V == Seq(Entry)
           st == [n \in 1..m |-> [v \in V |->
                    IF n \in I THEN Append(v, s[n]) ELSE v]]
           Eq(f) == f = [n \in 0..m |->
                           IF n = 0 THEN <<>>
                           ELSE IF n \in I THEN Append(f[n - 1], s[n])
                                ELSE f[n - 1]]
           c == CHOOSE h : Eq(h)
<1>1. m \in Nat /\ <<>> \in V /\ \A n \in 1..m : s[n] \in Entry
  BY Places
<1>2. st \in [1..m -> [V -> V]]
  BY <1>1, AppendProperties
<1>3. \E f : f \in Runs(m, V, <<>>, st)
  <2> HIDE DEF st, m, V
  <2>1. QED
    BY <1>1, <1>2, Recursion
<1>4. PICK f : f \in Runs(m, V, <<>>, st)
  BY <1>3
<1>5. f \in [0..m -> V] /\ f[0] = <<>>
  BY <1>4 DEF Runs
<1>6. ASSUME NEW n \in 1..m
      PROVE  f[n] = IF n \in I THEN Append(f[n - 1], s[n]) ELSE f[n - 1]
  <2>1. f[n - 1] \in V
    BY <1>1, <1>5
  <2>2. f[n] = st[n][f[n - 1]]
    BY <1>4 DEF Runs
  <2>3. QED
    BY <2>1, <2>2
<1>7. Eq(f)
  <2> DEFINE g == [n \in 0..m |->
                     IF n = 0 THEN <<>>
                     ELSE IF n \in I THEN Append(f[n - 1], s[n]) ELSE f[n - 1]]
  <2>1. ASSUME NEW n \in 0..m PROVE f[n] = g[n]
    <3> HIDE DEF st, Eq, c
    <3>1. CASE n = 0
      BY <3>1, <1>5
    <3>2. CASE n # 0
      <4>1. n \in 1..m
        BY <1>1, <3>2
      <4>2. QED
        BY <4>1, <3>2, <1>6
    <3>3. QED
      BY <3>1, <3>2
  <2>2. QED
    BY <2>1, <1>5
<1>8. Eq(c)
  <2> HIDE DEF Eq
  <2>1. QED
    BY <1>7
<1>9. /\ c = [n \in 0..m |-> c[n]]
      /\ \A n \in 0..m : c[n] = IF n = 0 THEN <<>>
                               ELSE IF n \in I THEN Append(c[n - 1], s[n])
                                    ELSE c[n - 1]
  <2> HIDE DEF c
  <2>1. QED
    BY <1>8
<1>10. IsChoice(c, s, I)
  <2> HIDE DEF c, st, Eq
  <2>1. /\ c[0] = <<>>
        /\ \A n \in 1..m :
             c[n] = IF n \in I THEN Append(c[n - 1], s[n]) ELSE c[n - 1]
    BY <1>1, <1>9
  <2>2. ASSUME NEW n \in 1..m, c[n - 1] \in V PROVE c[n] \in V
    <3>1. Append(c[n - 1], s[n]) \in V
      BY <1>1, <2>2, AppendProperties
    <3>2. QED
      BY <2>1, <2>2, <3>1
  <2>5. c[0] \in V
    BY <1>1, <2>1
  <2>3. \A n \in 0..m : c[n] \in V
    <3> HIDE DEF m, V
    <3>1. QED
      BY <1>1, <2>5, <2>2, Stays
  <2>4. QED
    BY <1>9, <2>1, <2>3 DEF IsChoice
<1>11. Selected(s, I) = c[m]
  BY DEF Selected
<1> HIDE DEF c
<1>12. QED
  BY <1>10, <1>11

LEMMA TotalOfPart ==
  ASSUME NEW s \in Seq(Entry), NEW f, IsTotal(f, s),
         NEW a \in 0..Len(s), NEW b \in a..Len(s)
  PROVE  /\ SubSeq(s, a + 1, b) \in Seq(Entry)
         /\ Len(SubSeq(s, a + 1, b)) = b - a
         /\ \A i \in 1..(b - a) : SubSeq(s, a + 1, b)[i] = s[a + i]
         /\ Cost(SubSeq(s, a + 1, b)) = f[b] - f[a]
<1> DEFINE p == SubSeq(s, a + 1, b)
           m == b - a
<1>1. Len(s) \in Nat /\ \A n \in 1..Len(s) : s[n] \in Entry
  BY Places
<1>2. a \in Nat /\ b \in Nat /\ m \in Nat /\ \A i \in (a + 1)..b : s[i] \in Entry
  BY <1>1
<1>3. p \in Seq(Entry) /\ Len(p) = m /\ \A i \in 1..m : p[i] = s[a + i]
  <2>1. /\ p \in Seq(Entry)
        /\ Len(p) = IF a + 1 =< b THEN b - (a + 1) + 1 ELSE 0
        /\ \A i \in 1..(b - (a + 1) + 1) : p[i] = s[(a + 1) + i - 1]
    BY <1>2, SubSeqProperties
  <2>2. QED
    BY <2>1, <1>1
<1> HIDE DEF p
<1>4. PICK g : IsTotal(g, p) /\ Cost(p) = g[Len(p)]
  BY <1>3, CostTotal
<1> DEFINE T == {n \in 0..m : g[n] = f[a + n] - f[a]}
<1>5. T \in SUBSET (0..m) /\ 0 \in T
  <2>1. g[0] = 0 /\ f[a] \in Nat /\ a + 0 = a
    BY <1>2, <1>4, TotalStep DEF IsTotal
  <2>2. QED
    BY <2>1, <1>2
<1>6. ASSUME NEW n \in T, n < m PROVE n + 1 \in T
  <2> DEFINE k == a + n
  <2>1. n \in 0..Len(p) /\ n < Len(p) /\ k \in 0..Len(s) /\ k < Len(s)
    BY <1>1, <1>2, <1>3, <1>6
  <2>2. p[n + 1] = s[k + 1] /\ a + (n + 1) = k + 1
    BY <2>1, <1>2, <1>3
  <2>3. g[n] \in Nat /\ g[n + 1] = g[n] + s[k + 1].nbytes
    BY <2>1, <2>2, <1>3, <1>4, TotalStep
  <2>4. g[n] = f[k] - f[a]
    BY <1>6
  <2>5. f[a] \in Nat
    BY <1>2, TotalStep
  <2> HIDE DEF k
  <2>6. /\ f[k] \in Nat /\ s[k + 1].nbytes \in Nat
        /\ f[k + 1] = f[k] + s[k + 1].nbytes
    BY <2>1, TotalStep
  <2>7. g[n + 1] = f[k + 1] - f[a]
    BY <2>3, <2>4, <2>5, <2>6
  <2>8. g[n + 1] = f[a + (n + 1)] - f[a] /\ n + 1 \in 0..m
    BY <2>1, <2>2, <2>7, <1>3
  <2>9. QED
    BY <2>8
<1>7. T = 0..m
  <2> HIDE DEF T, m
  <2>1. QED
    BY <1>2, <1>5, <1>6, Induct
<1>8. g[m] = f[a + m] - f[a]
  <2>1. m \in T
    BY <1>2, <1>7
  <2>2. QED
    BY <2>1
<1>9. Cost(p) = f[b] - f[a]
  <2>1. a + m = b
    BY <1>2
  <2>2. QED
    BY <2>1, <1>3, <1>4, <1>8
<1>10. QED
  BY <1>3, <1>9 DEF p

LEMMA CostNat ==
  ASSUME NEW s \in Seq(Entry)
  PROVE  Cost(s) \in Nat
  BY CostTotal, Places DEF IsTotal

LEMMA CostEmpty == <<>> \in Seq(Entry) /\ Cost(<<>>) = 0
<1>1. <<>> \in Seq(Entry) /\ Len(<<>>) = 0
  BY EmptySeq
<1>2. PICK f : IsTotal(f, <<>>) /\ Cost(<<>>) = f[Len(<<>>)]
  BY <1>1, CostTotal
<1>3. QED
  BY <1>1, <1>2 DEF IsTotal

(* What is in front of a place and what is behind it.                      *)
LEMMA CostSplit ==
  ASSUME NEW s \in Seq(Entry), NEW n \in 0..Len(s)
  PROVE  /\ SubSeq(s, 1, n) \in Seq(Entry)
         /\ SubSeq(s, n + 1, Len(s)) \in Seq(Entry)
         /\ Cost(SubSeq(s, 1, n)) + Cost(SubSeq(s, n + 1, Len(s))) = Cost(s)
<1>1. Len(s) \in Nat
  BY Places
<1>2. PICK f : IsTotal(f, s) /\ Cost(s) = f[Len(s)]
  BY CostTotal
<1>3. f[0] = 0 /\ f[n] \in Nat /\ f[Len(s)] \in Nat
  BY <1>1, <1>2 DEF IsTotal
<1>4. SubSeq(s, 1, n) \in Seq(Entry) /\ Cost(SubSeq(s, 1, n)) = f[n] - f[0]
  <2>1. 0 \in 0..Len(s) /\ n \in 0..Len(s) /\ 0 + 1 = 1
    BY <1>1
  <2>2. QED
    BY <2>1, <1>2, TotalOfPart
<1>5. /\ SubSeq(s, n + 1, Len(s)) \in Seq(Entry)
      /\ Cost(SubSeq(s, n + 1, Len(s))) = f[Len(s)] - f[n]
  <2>1. Len(s) \in n..Len(s)
    BY <1>1
  <2>2. QED
    BY <2>1, <1>2, TotalOfPart
<1>6. QED
  BY <1>2, <1>3, <1>4, <1>5

LEMMA CostAppend ==
  ASSUME NEW s \in Seq(Entry), NEW e \in Entry
  PROVE  Cost(Append(s, e)) = Cost(s) + e.nbytes
<1> DEFINE t == Append(s, e)
           m == Len(s)
<1>1. /\ m \in Nat /\ t \in Seq(Entry) /\ Len(t) = m + 1
      /\ \A i \in 1..m : t[i] = s[i]
      /\ t[m + 1] = e
  BY AppendProperties, Places
<1> HIDE DEF t
<1>2. PICK f : IsTotal(f, t) /\ Cost(t) = f[Len(t)]
  BY <1>1, CostTotal
<1>3. /\ SubSeq(t, 1, m) \in Seq(Entry) /\ Len(SubSeq(t, 1, m)) = m
      /\ \A i \in 1..m : SubSeq(t, 1, m)[i] = t[i]
      /\ Cost(SubSeq(t, 1, m)) = f[m] - f[0]
  <2>1. 0 \in 0..Len(t) /\ m \in 0..Len(t) /\ 0 + 1 = 1 /\ m - 0 = m
    BY <1>1
  <2>2. \A i \in 1..m : 0 + i = i
    BY <1>1
  <2> HIDE DEF m
  <2>3. QED
    BY <1>1, <1>2, <2>1, <2>2, TotalOfPart
<1>4. SubSeq(t, 1, m) = s
  BY <1>1, <1>3, SeqEqual
<1>5. f[0] = 0 /\ f[m] \in Nat /\ f[m + 1] = f[m] + t[m + 1].nbytes
  <2>1. m \in 0..Len(t) /\ m < Len(t)
    BY <1>1
  <2>2. QED
    BY <1>1, <1>2, <2>1, TotalStep DEF IsTotal
<1>6. Cost(s) = f[m] /\ Cost(t) = f[m] + e.nbytes
  <2> HIDE DEF m
  <2>1. Cost(s) = f[m] - f[0]
    BY <1>3, <1>4
  <2>2. Cost(t) = f[m + 1] /\ t[m + 1] = e
    BY <1>1, <1>2
  <2>3. QED
    BY <2>1, <2>2, <1>5
<1>7. QED
  BY <1>6 DEF t

LEMMA CostSame ==
  ASSUME NEW s \in Seq(Entry), NEW t \in Seq(Entry), Len(s) = Len(t),
         \A i \in 1..Len(s) : s[i].nbytes = t[i].nbytes
  PROVE  Cost(s) = Cost(t)
<1> DEFINE m == Len(s)
<1>1. m \in Nat
  BY Places
<1>2. PICK f : IsTotal(f, s) /\ Cost(s) = f[m]
  BY CostTotal
<1>3. PICK g : IsTotal(g, t) /\ Cost(t) = g[m]
  BY CostTotal
<1> DEFINE T == {n \in 0..m : f[n] = g[n]}
<1>4. T \in SUBSET (0..m) /\ 0 \in T
  BY <1>1, <1>2, <1>3 DEF IsTotal
<1>5. ASSUME NEW n \in T, n < m PROVE n + 1 \in T
  <2>1. n + 1 \in 1..m /\ n \in 0..m
    BY <1>1, <1>5
  <2>2. f[n + 1] = f[n] + s[n + 1].nbytes /\ g[n + 1] = g[n] + t[n + 1].nbytes
    BY <2>1, <1>2, <1>3, <1>5, TotalStep
  <2>3. QED
    BY <2>1, <2>2
<1>6. T = 0..m
  <2> HIDE DEF T, m
  <2>1. QED
    BY <1>1, <1>4, <1>5, Induct
<1>7. QED
  BY <1>1, <1>2, <1>3, <1>6

(* h places the elements of t among the first n elements of s: in their    *)
(* order, and exactly at the places in I.                                  *)
Placing(h, t, s, I, n) ==
  /\ h \in [1..Len(t) -> Int]
  /\ \A i \in 1..Len(t) : h[i] \in I /\ h[i] \in 1..n /\ t[i] = s[h[i]]
  /\ \A i, j \in 1..Len(t) : i < j => h[i] < h[j]
  /\ \A k \in 1..n : k \in I => \E i \in 1..Len(t) : h[i] = k

LEMMA SelectedPlacing ==
  ASSUME NEW s \in Seq(Entry), NEW I
  PROVE  /\ Selected(s, I) \in Seq(Entry)
         /\ Cost(Selected(s, I)) =< Cost(s)
         /\ \E h : Placing(h, Selected(s, I), s, I, Len(s))
<1> DEFINE m == Len(s)
<1>1. m \in Nat /\ \A n \in 1..m : s[n] \in Entry
  BY Places
<1>2. PICK f : IsChoice(f, s, I) /\ Selected(s, I) = f[m]
  BY SelectedChoice
<1>3. PICK c : IsTotal(c, s) /\ Cost(s) = c[m]
  BY CostTotal
<1> DEFINE T == {n \in 0..m : /\ Cost(f[n]) =< c[n]
                              /\ \E h : Placing(h, f[n], s, I, n)}
<1>4. \A n \in 0..m : f[n] \in Seq(Entry)
  BY <1>2 DEF IsChoice
<1>5. f[0] = <<>> /\ Len(f[0]) = 0
  BY <1>2, EmptySeq DEF IsChoice
<1>6. T \in SUBSET (0..m) /\ 0 \in T
  <2>1. Cost(f[0]) =< c[0]
    BY <1>3, <1>5, CostEmpty DEF IsTotal
  <2>2. Placing([i \in 1..0 |-> 0], f[0], s, I, 0)
    BY <1>5 DEF Placing
  <2>3. \E h : Placing(h, f[0], s, I, 0)
    BY <2>2
  <2>4. QED
    BY <1>1, <2>1, <2>3
<1>7. ASSUME NEW n \in T, n < m PROVE n + 1 \in T
  <2>1. /\ n \in 0..m /\ n + 1 \in 1..m /\ n \in Nat /\ n + 1 - 1 = n
        /\ s[n + 1] \in Entry /\ s[n + 1].nbytes \in Nat
    BY <1>1, <1>7, Places
  <2>2. /\ f[n] \in Seq(Entry) /\ Cost(f[n]) =< c[n] /\ Cost(f[n]) \in Nat
        /\ c[n] \in Nat /\ c[n + 1] = c[n] + s[n + 1].nbytes
    BY <1>3, <1>4, <1>7, <2>1, CostNat, TotalStep
  <2>3. PICK h : Placing(h, f[n], s, I, n)
    BY <1>7
  <2>4. CASE n + 1 \notin I
    <3>1. f[n + 1] = f[n]
      BY <2>1, <2>4, <1>2 DEF IsChoice
    <3>2. Placing(h, f[n + 1], s, I, n + 1)
      BY <2>1, <2>3, <2>4, <3>1 DEF Placing
    <3>3. QED
      BY <2>1, <2>2, <3>1, <3>2
  <2>5. CASE n + 1 \in I
    <3> DEFINE l == Len(f[n])
               h2 == [i \in 1..(l + 1) |-> IF i = l + 1 THEN n + 1 ELSE h[i]]
    <3>1. f[n + 1] = Append(f[n], s[n + 1])
      <4>1. \A k \in 1..m : k \in I => f[k] = Append(f[k - 1], s[k])
        BY <1>2 DEF IsChoice
      <4>2. f[n + 1] = Append(f[n + 1 - 1], s[n + 1])
        BY <2>1, <2>5, <4>1
      <4>3. QED
        BY <2>1, <4>2
    <3>2. /\ l \in Nat /\ Len(f[n + 1]) = l + 1
          /\ \A i \in 1..l : f[n + 1][i] = f[n][i]
          /\ f[n + 1][l + 1] = s[n + 1]
      BY <2>1, <2>2, <3>1, AppendProperties, Places
    <3>3. Cost(f[n + 1]) = Cost(f[n]) + s[n + 1].nbytes
      BY <2>1, <2>2, <3>1, CostAppend
    <3>4. /\ h \in [1..l -> Int]
          /\ \A i \in 1..l : h[i] \in I /\ h[i] \in 1..n /\ f[n][i] = s[h[i]]
          /\ \A i, j \in 1..l : i < j => h[i] < h[j]
          /\ \A k \in 1..n : k \in I => \E i \in 1..l : h[i] = k
      BY <2>3 DEF Placing
    <3> HIDE DEF l
    <3>5. /\ h2 \in [1..(l + 1) -> Int] /\ h2[l + 1] = n + 1
          /\ \A i \in 1..l : h2[i] = h[i] /\ i \in 1..(l + 1)
          /\ \A i \in 1..(l + 1) : i # l + 1 => i \in 1..l
      BY <2>1, <3>2, <3>4
    <3> HIDE DEF h2
    <3>6. \A i \in 1..(l + 1) : /\ h2[i] \in I /\ h2[i] \in 1..(n + 1)
                                /\ f[n + 1][i] = s[h2[i]]
      <4> SUFFICES ASSUME NEW i \in 1..(l + 1)
                   PROVE  /\ h2[i] \in I /\ h2[i] \in 1..(n + 1)
                          /\ f[n + 1][i] = s[h2[i]]
        OBVIOUS
      <4>1. CASE i = l + 1
        BY <4>1, <2>1, <2>5, <3>2, <3>5
      <4>2. CASE i # l + 1
        <5>1. i \in 1..l /\ h2[i] = h[i]
          BY <4>2, <3>5
        <5>2. h[i] \in I /\ h[i] \in 1..n /\ f[n + 1][i] = s[h[i]]
          BY <5>1, <3>2, <3>4
        <5>3. QED
          BY <5>1, <5>2, <2>1
      <4>3. QED
        BY <4>1, <4>2
    <3>7. \A i, j \in 1..(l + 1) : i < j => h2[i] < h2[j]
      <4> SUFFICES ASSUME NEW i \in 1..(l + 1), NEW j \in 1..(l + 1), i < j
                   PROVE  h2[i] < h2[j]
        OBVIOUS
      <4>1. i \in 1..l /\ h2[i] = h[i] /\ h[i] \in 1..n
        BY <3>2, <3>4, <3>5
      <4>2. CASE j = l + 1
        BY <4>1, <4>2, <2>1, <3>5
      <4>3. CASE j # l + 1
        BY <4>1, <4>3, <3>4, <3>5
      <4>4. QED
        BY <4>2, <4>3
    <3>8. \A k \in 1..(n + 1) : k \in I => \E i \in 1..(l + 1) : h2[i] = k
      <4> SUFFICES ASSUME NEW k \in 1..(n + 1), k \in I
                   PROVE  \E i \in 1..(l + 1) : h2[i] = k
        OBVIOUS
      <4>1. CASE k = n + 1
        BY <4>1, <3>2, <3>5
      <4>2. CASE k # n + 1
        <5>1. k \in 1..n
          BY <4>2, <2>1
        <5>2. PICK i \in 1..l : h[i] = k
          BY <5>1, <3>4
        <5>3. QED
          BY <5>2, <3>5
      <4>3. QED
        BY <4>1, <4>2
    <3>9. Placing(h2, f[n + 1], s, I, n + 1)
      BY <3>2, <3>5, <3>6, <3>7, <3>8 DEF Placing
    <3>10. Cost(f[n + 1]) =< c[n + 1]
      BY <2>1, <2>2, <3>3
    <3>11. QED
      BY <2>1, <3>9, <3>10
  <2>6. QED
    BY <2>4, <2>5
<1>8. m \in T
  <2>1. T = 0..m
    <3> HIDE DEF T, m
    <3>1. QED
      BY <1>1, <1>6, <1>7, Induct
  <2>2. QED
    BY <1>1, <2>1
<1>9. Cost(f[m]) =< c[m] /\ \E h : Placing(h, f[m], s, I, m)
  BY <1>8
<1>10. QED
  BY <1>1, <1>2, <1>3, <1>4, <1>9

Unique(s) == \A i, j \in DOMAIN s : s[i].key = s[j].key => i = j

(* What selecting does to keys: none appears twice, none appears from      *)
(* nowhere, and what is at a place in I stays.                             *)
LEMMA SelectedKeys ==
  ASSUME NEW s \in Seq(Entry), NEW I
  PROVE  /\ Unique(s) => Unique(Selected(s, I))
         /\ \A i \in DOMAIN Selected(s, I) :
              \E j \in DOMAIN s : j \in I /\ Selected(s, I)[i] = s[j]
         /\ \A j \in DOMAIN s : j \in I =>
              \E i \in DOMAIN Selected(s, I) : Selected(s, I)[i] = s[j]
<1> DEFINE t == Selected(s, I)
<1>1. /\ t \in Seq(Entry) /\ Len(t) \in Nat /\ DOMAIN t = 1..Len(t)
      /\ Len(s) \in Nat /\ DOMAIN s = 1..Len(s)
  BY SelectedPlacing, Places
<1>2. PICK h : Placing(h, t, s, I, Len(s))
  BY SelectedPlacing
<1> HIDE DEF t
<1>3. ASSUME Unique(s), NEW i \in 1..Len(t), NEW j \in 1..Len(t),
             t[i].key = t[j].key
      PROVE  i = j
  <2>1. h[i] = h[j]
    BY <1>1, <1>2, <1>3 DEF Placing, Unique
  <2>2. h[i] \in Int /\ ~(i < j) /\ ~(j < i)
    BY <1>2, <2>1 DEF Placing
  <2>3. QED
    BY <2>2, <1>1
<1>4. Unique(s) => Unique(t)
  BY <1>1, <1>3 DEF Unique
<1>5. \A i \in DOMAIN t : \E j \in DOMAIN s : j \in I /\ t[i] = s[j]
  BY <1>1, <1>2 DEF Placing
<1>6. ASSUME NEW j \in DOMAIN s, j \in I PROVE \E i \in DOMAIN t : t[i] = s[j]
  <2>1. PICK i \in 1..Len(t) : h[i] = j
    BY <1>1, <1>2, <1>6 DEF Placing
  <2>2. t[i] = s[j]
    BY <1>2, <2>1 DEF Placing
  <2>3. QED
    BY <1>1, <2>2
<1>7. QED
  BY <1>4, <1>5, <1>6 DEF t

LEMMA WithoutKey ==
  ASSUME NEW s \in Seq(Entry), Unique(s), NEW k \in Keys
  PROVE  /\ Without(s, k) \in Seq(Entry) /\ Unique(Without(s, k))
         /\ Cost(Without(s, k)) \in Nat /\ Cost(Without(s, k)) =< Cost(s)
         /\ ~Has(Without(s, k), k)
         /\ \A j \in DOMAIN s : s[j].key # k => Has(Without(s, k), s[j].key)
<1> DEFINE I == {i \in DOMAIN s : s[i].key # k}
<1>1. Without(s, k) = Selected(s, I)
  BY DEF Without
<1>2. \A j : j \in I => s[j].key # k
  OBVIOUS
<1>3. \A j \in DOMAIN s : s[j].key # k => j \in I
  OBVIOUS
<1> HIDE DEF I
<1>4. QED
  BY <1>1, <1>2, <1>3, SelectedPlacing, SelectedKeys, CostNat DEF Has

LEMMA UnexpiredOnly ==
  ASSUME NEW s \in Seq(Entry), Unique(s)
  PROVE  /\ Unexpired(s) \in Seq(Entry) /\ Unique(Unexpired(s))
         /\ Cost(Unexpired(s)) \in Nat /\ Cost(Unexpired(s)) =< Cost(s)
<1> DEFINE I == {i \in DOMAIN s : s[i].life > 0}
<1>1. Unexpired(s) = Selected(s, I)
  BY DEF Unexpired
<1> HIDE DEF I
<1>2. QED
  BY <1>1, SelectedPlacing, SelectedKeys, CostNat

(* Dropping from the front: what is left is a well-formed cache.           *)
LEMMA DropFront ==
  ASSUME NEW s \in Seq(Entry), Unique(s), NEW n \in 0..Len(s)
  PROVE  /\ SubSeq(s, n + 1, Len(s)) \in Seq(Entry)
         /\ Unique(SubSeq(s, n + 1, Len(s)))
         /\ Cost(SubSeq(s, n + 1, Len(s))) = Cost(s) - Cost(SubSeq(s, 1, n))
         /\ Cost(SubSeq(s, n + 1, Len(s))) \in Nat
         /\ Cost(SubSeq(s, 1, n)) \in Nat
         /\ DOMAIN SubSeq(s, n + 1, Len(s)) = 1..(Len(s) - n)
         /\ \A i \in 1..(Len(s) - n) : SubSeq(s, n + 1, Len(s))[i] = s[n + i]
<1> DEFINE t == SubSeq(s, n + 1, Len(s))
<1>1. Len(s) \in Nat /\ n \in Nat /\ DOMAIN s = 1..Len(s) /\ Len(s) \in n..Len(s)
  BY Places
<1>2. PICK f : IsTotal(f, s)
  BY CostTotal
<1>3. /\ t \in Seq(Entry) /\ Len(t) = Len(s) - n
      /\ \A i \in 1..(Len(s) - n) : t[i] = s[n + i]
  BY <1>1, <1>2, TotalOfPart
<1>4. DOMAIN t = 1..(Len(s) - n)
  BY <1>3, Places
<1>5. /\ Cost(t) \in Nat /\ Cost(SubSeq(s, 1, n)) \in Nat
      /\ Cost(t) = Cost(s) - Cost(SubSeq(s, 1, n))
  <2>1. /\ t \in Seq(Entry) /\ SubSeq(s, 1, n) \in Seq(Entry)
        /\ Cost(SubSeq(s, 1, n)) + Cost(t) = Cost(s)
    BY CostSplit
  <2>2. Cost(t) \in Nat /\ Cost(SubSeq(s, 1, n)) \in Nat /\ Cost(s) \in Nat
    BY <2>1, CostNat
  <2> HIDE DEF t
  <2>3. QED
    BY <2>1, <2>2
<1> HIDE DEF t
<1>6. Unique(t)
  <2> SUFFICES ASSUME NEW i \in 1..(Len(s) - n), NEW j \in 1..(Len(s) - n),
                      t[i].key = t[j].key
               PROVE  i = j
    BY <1>4 DEF Unique
  <2>1. n + i \in DOMAIN s /\ n + j \in DOMAIN s
    BY <1>1
  <2>2. s[n + i].key = s[n + j].key
    BY <1>3
  <2>3. n + i = n + j
    BY <2>1, <2>2 DEF Unique
  <2>4. QED
    BY <1>1, <2>3
<1>7. QED
  BY <1>3, <1>4, <1>5, <1>6 DEF t

(* Selecting all places but one takes away the cost of that one; selecting *)
(* all of them (p = 0) takes away nothing.                                 *)
LEMMA CostAllBut ==
  ASSUME NEW s \in Seq(Entry), NEW p \in 0..Len(s), NEW I,
         \A n \in 1..Len(s) : n \in I <=> n # p
  PROVE  Cost(Selected(s, I)) = Cost(s) - (IF p = 0 THEN 0 ELSE s[p].nbytes)
<1> DEFINE m == Len(s)
           at(n) == IF p = 0 \/ n < p THEN 0 ELSE s[p].nbytes
<1>1. /\ m \in Nat /\ p \in Nat /\ p # 0 => s[p].nbytes \in Nat /\ p =< m
      /\ \A n \in 1..m : s[n] \in Entry
  BY Places
<1>2. PICK f : IsChoice(f, s, I) /\ Selected(s, I) = f[m]
  BY SelectedChoice
<1>3. PICK c : IsTotal(c, s) /\ Cost(s) = c[m]
  BY CostTotal
<1> DEFINE T == {n \in 0..m : Cost(f[n]) = c[n] - at(n)}
<1>4. \A n \in 0..m : f[n] \in Seq(Entry)
  BY <1>2 DEF IsChoice
<1>5. T \in SUBSET (0..m) /\ 0 \in T
  <2>1. Cost(f[0]) = 0 /\ c[0] = 0 /\ at(0) = 0
    BY <1>1, <1>2, <1>3, CostEmpty DEF IsChoice, IsTotal
  <2>2. QED
    BY <1>1, <2>1
<1>6. ASSUME NEW n \in T, n < m PROVE n + 1 \in T
  <2>1. /\ n \in 0..m /\ n + 1 \in 1..m /\ n \in Nat /\ n + 1 - 1 = n
        /\ s[n + 1] \in Entry /\ s[n + 1].nbytes \in Nat
    BY <1>1, <1>6, Places
  <2>2. /\ f[n] \in Seq(Entry) /\ Cost(f[n]) \in Nat /\ Cost(f[n]) = c[n] - at(n)
        /\ c[n] \in Nat /\ c[n + 1] = c[n] + s[n + 1].nbytes
    BY <1>3, <1>4, <1>6, <2>1, CostNat, TotalStep
  <2>3. f[n + 1] = IF n + 1 # p THEN Append(f[n], s[n + 1]) ELSE f[n]
    <3>1. \A k \in 1..m : /\ k # p => f[k] = Append(f[k - 1], s[k])
                          /\ k = p => f[k] = f[k - 1]
      BY <1>2 DEF IsChoice
    <3>2. /\ n + 1 # p => f[n + 1] = Append(f[n + 1 - 1], s[n + 1])
          /\ n + 1 = p => f[n + 1] = f[n + 1 - 1]
      BY <2>1, <3>1
    <3>3. QED
      BY <2>1, <3>2
  <2>4. Cost(f[n + 1]) = c[n + 1] - at(n + 1)
    <3>1. CASE n + 1 = p
      <4>1. f[n + 1] = f[n] /\ at(n) = 0 /\ at(n + 1) = s[n + 1].nbytes
        BY <1>1, <2>1, <2>3, <3>1
      <4> HIDE DEF at
      <4>2. QED
        BY <4>1, <2>1, <2>2
    <3>2. CASE n + 1 # p
      <4>1. at(n + 1) = at(n) /\ at(n) \in Nat
        BY <1>1, <2>1, <3>2
      <4>2. Cost(f[n + 1]) = Cost(f[n]) + s[n + 1].nbytes
        BY <2>1, <2>2, <2>3, <3>2, CostAppend
      <4> HIDE DEF at
      <4>3. QED
        BY <4>1, <4>2, <2>1, <2>2
    <3>3. QED
      BY <3>1, <3>2
  <2> HIDE DEF at
  <2>5. QED
    BY <2>1, <2>4
<1>7. m \in T
  <2>1. T = 0..m
    <3>1. m \in Nat
      BY <1>1
    <3> HIDE DEF T, m, at
    <3>2. QED
      BY <3>1, <1>5, <1>6, Induct
  <2>2. QED
    BY <1>1, <2>1
<1>8. /\ Cost(f[m]) = c[m] - at(m)
      /\ at(m) = IF p = 0 THEN 0 ELSE s[p].nbytes
  BY <1>1, <1>7
<1>9. QED
  BY <1>2, <1>3, <1>8

(* The entry that get moves, and the cost of the others.                   *)
LEMMA TheEntry ==
  ASSUME NEW s \in Seq(Entry), Unique(s), NEW k \in Keys, Has(s, k)
  PROVE  /\ The(s, k) \in Entry /\ The(s, k).key = k
         /\ Cost(Without(s, k)) = Cost(s) - The(s, k).nbytes
<1>1. PICK p \in DOMAIN s : s[p].key = k
  BY DEF Has
<1>2. Len(s) \in Nat /\ DOMAIN s = 1..Len(s) /\ \A n \in 1..Len(s) : s[n] \in Entry
  BY Places
<1>3. \A n \in 1..Len(s) : s[n].key = k <=> n = p
  BY <1>1, <1>2 DEF Unique
<1>4. The(s, k) = s[p]
  <2>1. ToSet(s) = {s[n] : n \in 1..Len(s)}
    BY <1>2 DEF ToSet
  <2>2. \A e \in ToSet(s) : e.key = k <=> e = s[p]
    BY <1>1, <1>2, <1>3, <2>1
  <2>3. s[p] \in ToSet(s)
    BY <1>1, <1>2, <2>1
  <2>4. QED
    BY <2>2, <2>3 DEF The
<1> DEFINE I == {i \in DOMAIN s : s[i].key # k}
<1>5. Without(s, k) = Selected(s, I) /\ \A n \in 1..Len(s) : n \in I <=> n # p
  BY <1>2, <1>3 DEF Without
<1> HIDE DEF I
<1>6. Cost(Without(s, k)) = Cost(s) - s[p].nbytes
  <2>1. p \in 0..Len(s) /\ p # 0
    BY <1>1, <1>2
  <2>2. QED
    BY <1>5, <2>1, CostAllBut
<1>7. QED
  BY <1>1, <1>2, <1>4, <1>6

(* A key put at the recently used end.                                     *)
LEMMA AppendNew ==
  ASSUME NEW s \in Seq(Entry), Unique(s), NEW e \in Entry, ~Has(s, e.key)
  PROVE  /\ Append(s, e) \in Seq(Entry) /\ Unique(Append(s, e))
         /\ Len(Append(s, e)) = Len(s) + 1
         /\ Append(s, e)[Len(s) + 1] = e
         /\ \A i \in 1..Len(s) : Append(s, e)[i] = s[i]
         /\ Cost(Append(s, e)) = Cost(s) + e.nbytes
<1> DEFINE t == Append(s, e)
<1>1. /\ t \in Seq(Entry) /\ Len(t) = Len(s) + 1 /\ t[Len(s) + 1] = e
      /\ \A i \in 1..Len(s) : t[i] = s[i]
      /\ Len(s) \in Nat /\ DOMAIN s = 1..Len(s)
  BY AppendProperties, Places
<1>2. DOMAIN t = 1..(Len(s) + 1)
  BY <1>1, Places
<1> HIDE DEF t
<1>3. ASSUME NEW i \in 1..(Len(s) + 1), NEW j \in 1..(Len(s) + 1),
             t[i].key = t[j].key
      PROVE  i = j
  <2>1. \A n \in 1..Len(s) : s[n].key # e.key
    BY <1>1 DEF Has
  <2>2. CASE i = Len(s) + 1
    <3>1. j \notin 1..Len(s)
      BY <2>1, <2>2, <1>1, <1>3
    <3>2. QED
      BY <2>2, <3>1, <1>1
  <2>3. CASE j = Len(s) + 1
    <3>1. i \notin 1..Len(s)
      BY <2>1, <2>3, <1>1, <1>3
    <3>2. QED
      BY <2>3, <3>1, <1>1
  <2>4. CASE i \in 1..Len(s) /\ j \in 1..Len(s)
    BY <2>4, <1>1, <1>3 DEF Unique
  <2>5. QED
    BY <2>2, <2>3, <2>4, <1>1
<1>4. Unique(t)
  BY <1>2, <1>3 DEF Unique
<1>5. QED
  BY <1>1, <1>4, CostAppend DEF t

(* The while loop of put: it drops enough, and no more than it must.       *)
LEMMA EvictedEnough ==
  ASSUME NEW s \in Seq(Entry), Unique(s)
  PROVE  /\ Evicted(s, Cost(s)) \in 0..Len(s)
         /\ MaxBytes > 0 =>
              Cost(SubSeq(s, Evicted(s, Cost(s)) + 1, Len(s))) =< MaxBytes
         /\ Evicted(s, Cost(s)) > 0 =>
              /\ MaxBytes > 0
              /\ Cost(SubSeq(s, Evicted(s, Cost(s)), Len(s))) > MaxBytes
<1> DEFINE m == Len(s)
           enough == {n \in 0..m : Cost(s) - Cost(SubSeq(s, 1, n)) =< MaxBytes}
           rest(n) == SubSeq(s, n + 1, m)
           N == Evicted(s, Cost(s))
<1>1. m \in Nat /\ MaxBytes \in Nat
  BY Places, TTLCacheAssumption
<1>2. ASSUME NEW n \in 0..m
      PROVE  Cost(rest(n)) = Cost(s) - Cost(SubSeq(s, 1, n))
  BY DropFront
<1>3. m \in enough
  <2>1. Cost(rest(m)) = 0
    <3>1. rest(m) = <<>>
      BY <1>1, SubSeqEmpty
    <3>2. QED
      BY <3>1, CostEmpty
  <2>2. Cost(s) - Cost(SubSeq(s, 1, m)) = 0
    BY <1>1, <1>2, <2>1
  <2>3. QED
    BY <1>1, <2>2
<1>4. PICK x \in enough : \A y \in enough : x =< y
  <2>1. enough \in SUBSET Nat
    BY <1>1
  <2> HIDE DEF enough
  <2>2. QED
    BY <1>3, <2>1, LeastNat
<1>5. CASE MaxBytes = 0
  <2>1. N = 0
    BY <1>5 DEF Evicted
  <2>2. QED
    BY <1>1, <1>5, <2>1
<1>6. CASE MaxBytes # 0
  <2>1. N = CHOOSE n \in enough \cup {m} : \A y \in enough : n =< y
    BY <1>6 DEF Evicted
  <2>2. N \in enough /\ \A y \in enough : N =< y
    <3> HIDE DEF enough, N, m
    <3>1. \E n \in enough \cup {m} : \A y \in enough : n =< y
      BY <1>4
    <3>2. N \in enough \cup {m} /\ \A y \in enough : N =< y
      BY <2>1, <3>1
    <3>3. QED
      BY <3>2, <1>3
  <2> HIDE DEF N
  <2>3. N \in 0..m /\ Cost(rest(N)) =< MaxBytes
    BY <2>2, <1>2
  <2>4. ASSUME N > 0 PROVE Cost(SubSeq(s, N, m)) > MaxBytes
    <3>1. N - 1 \in 0..m /\ N - 1 < N /\ N - 1 + 1 = N
      BY <2>3, <2>4, <1>1
    <3>2. N - 1 \notin enough
      BY <2>2, <3>1, <2>3
    <3>3. ~(Cost(s) - Cost(SubSeq(s, 1, N - 1)) =< MaxBytes)
      BY <3>1, <3>2
    <3>4. /\ Cost(SubSeq(s, N - 1 + 1, m)) = Cost(s) - Cost(SubSeq(s, 1, N - 1))
          /\ Cost(SubSeq(s, N - 1 + 1, m)) \in Nat
      BY <3>1, DropFront
    <3>5. QED
      BY <3>1, <3>3, <3>4, <1>1
  <2>5. MaxBytes > 0
    BY <1>1, <1>6
  <2>6. QED
    BY <2>3, <2>4, <2>5 DEF N
<1>7. QED
  BY <1>5, <1>6

-----------------------------------------------------------------------------
(* The inductive invariant of the entries.                                 *)
EntriesInv == d \in Seq(Entry) /\ ByteAccounting

LEMMA EntriesFacts ==
  ASSUME EntriesInv
  PROVE  /\ d \in Seq(Entry) /\ Unique(d) /\ bytes = Cost(d) /\ Cost(d) \in Nat
         /\ MaxBytes > 0 => Cost(d) =< MaxBytes
  BY CostNat DEF EntriesInv, ByteAccounting, Unique

LEMMA EntriesInit == Init => EntriesInv
<1> SUFFICES ASSUME Init PROVE EntriesInv
  OBVIOUS
<1>1. d = <<>> /\ bytes = 0 /\ d \in Seq(Entry) /\ Cost(d) = 0 /\ DOMAIN d = 1..0
  <2>1. d = <<>> /\ bytes = 0
    BY DEF Init
  <2>2. d \in Seq(Entry) /\ Cost(d) = 0 /\ Len(d) = 0
    BY <2>1, CostEmpty, EmptySeq
  <2>3. QED
    BY <2>1, <2>2, Places
<1>2. QED
  BY <1>1, TTLCacheAssumption DEF EntriesInv, ByteAccounting

(* Whatever shrinks the entries keeps the account.                         *)
LEMMA Shrink ==
  ASSUME EntriesInv, d' \in Seq(Entry), Unique(d)', Cost(d)' =< Cost(d),
         bytes' = Cost(d')
  PROVE  EntriesInv'
<1>1. Cost(d') \in Nat
  BY CostNat
<1>2. QED
  BY <1>1, EntriesFacts, TTLCacheAssumption DEF EntriesInv, ByteAccounting, Unique

LEMMA ReleaseExact ==
  ASSUME EntriesInv, NEW s \in Seq(Entry)
  PROVE  Release(bytes, d, s) = Cost(s)
<1>1. Cost(d) \in Nat /\ Cost(s) \in Nat /\ bytes = Cost(d)
  BY EntriesFacts, CostNat
<1>2. QED
  BY <1>1 DEF Release

LEMMA DropKey ==
  ASSUME EntriesInv, NEW k \in Keys, d' = Without(d, k),
         bytes' = Release(bytes, d, d')
  PROVE  EntriesInv'
<1>1. /\ d' \in Seq(Entry) /\ Unique(d)' /\ Cost(d)' =< Cost(d)
  BY EntriesFacts, WithoutKey DEF Unique
<1>2. bytes' = Cost(d')
  BY <1>1, ReleaseExact
<1>3. QED
  BY <1>1, <1>2, Shrink

LEMMA EntriesGet ==
  ASSUME EntriesInv, NEW k \in Keys, Get(k)
  PROVE  EntriesInv'
<1>1. CASE Live(k)
  <2> DEFINE rest == Without(d, k)
             e == The(d, k)
  <2>1. /\ e \in Entry /\ e.key = k /\ Cost(rest) = Cost(d) - e.nbytes
    BY <1>1, EntriesFacts, TheEntry DEF Live
  <2>2. /\ rest \in Seq(Entry) /\ Unique(rest) /\ ~Has(rest, k)
        /\ Cost(rest) \in Nat
    BY EntriesFacts, WithoutKey
  <2>3. d' = Append(rest, e) /\ bytes' = bytes
    BY <1>1 DEF Get
  <2> HIDE DEF rest, e
  <2>4. /\ d' \in Seq(Entry) /\ Unique(d') /\ Cost(d') = Cost(rest) + e.nbytes
    BY <2>1, <2>2, <2>3, AppendNew
  <2>5. e.nbytes \in Nat
    BY <2>1, EntryTypes
  <2>6. Cost(d') = Cost(d) /\ bytes' = Cost(d')
    BY <2>1, <2>2, <2>3, <2>4, <2>5, EntriesFacts
  <2>7. Unique(d)' /\ Cost(d)' =< Cost(d)
    BY <2>4, <2>6, EntriesFacts DEF Unique
  <2>8. QED
    BY <2>4, <2>6, <2>7, Shrink
<1>2. CASE ~Live(k)
  BY <1>2, DropKey DEF Get
<1>3. QED
  BY <1>1, <1>2

LEMMA EntriesSame ==
  ASSUME EntriesInv, UNCHANGED entryVars
  PROVE  EntriesInv'
  BY DEF EntriesInv, ByteAccounting, entryVars

LEMMA EntriesExpiresIn ==
  ASSUME EntriesInv, NEW k \in Keys, ExpiresIn(k)
  PROVE  EntriesInv'
<1>1. CASE Live(k)
  <2>1. d' = d /\ bytes' = Cost(d)
    BY <1>1, EntriesFacts, ReleaseExact DEF ExpiresIn
  <2>2. QED
    BY <2>1, EntriesFacts, EntriesSame DEF entryVars
<1>2. CASE ~Live(k)
  BY <1>2, DropKey DEF ExpiresIn
<1>3. QED
  BY <1>1, <1>2

LEMMA EntriesPrune ==
  ASSUME EntriesInv, Prune
  PROVE  EntriesInv'
<1>1. d' = Unexpired(d) /\ bytes' = Release(bytes, d, d')
  BY DEF Prune
<1>2. /\ d' \in Seq(Entry) /\ Unique(d)' /\ Cost(d)' =< Cost(d)
  BY <1>1, EntriesFacts, UnexpiredOnly DEF Unique
<1>3. QED
  BY <1>1, <1>2, ReleaseExact, Shrink

LEMMA EntriesEmptied ==
  ASSUME EntriesInv, InvalidateAll
  PROVE  EntriesInv'
<1>1. d' = <<>> /\ bytes' = 0
  BY DEF InvalidateAll
<1>2. d' \in Seq(Entry) /\ Cost(d') = 0 /\ DOMAIN d' = 1..0
  BY <1>1, CostEmpty, EmptySeq, Places
<1>3. QED
  BY <1>1, <1>2, TTLCacheAssumption DEF EntriesInv, ByteAccounting

LEMMA EntriesTick ==
  ASSUME EntriesInv, Tick
  PROVE  EntriesInv'
<1>1. /\ Len(d) \in Nat /\ DOMAIN d = 1..Len(d)
      /\ \A i \in 1..Len(d) : d[i] \in Entry
  BY EntriesFacts, Places
<1>2. d' = [i \in 1..Len(d) |->
              [d[i] EXCEPT !.life = IF @ > 0 THEN @ - 1 ELSE 0]]
      /\ bytes' = bytes
  BY <1>1 DEF Tick
<1>3. \A i \in 1..Len(d) : /\ d'[i] \in Entry /\ d'[i].key = d[i].key
                           /\ d'[i].nbytes = d[i].nbytes
  BY <1>1, <1>2, TTLCacheAssumption DEF Entry
<1>4. d' \in Seq(Entry) /\ Len(d') = Len(d)
  <2>1. d' \in [1..Len(d) -> Entry]
    BY <1>2, <1>3
  <2>2. d' \in Seq(Entry)
    BY <1>1, <2>1, SeqDef
  <2>3. DOMAIN d' = 1..Len(d')  /\ Len(d') \in Nat
    BY <2>2, Places
  <2>4. QED
    BY <1>1, <2>1, <2>2, <2>3
<1>5. Cost(d') = Cost(d)
  BY <1>3, <1>4, EntriesFacts, CostSame
<1>6. Unique(d)'
  BY <1>1, <1>2, <1>3, EntriesFacts DEF Unique
<1>7. QED
  BY <1>2, <1>4, <1>5, <1>6, EntriesFacts, Shrink

(* What put makes of the entries before it inserts: every live entry of    *)
(* another key is kept, and only those, in their order.                    *)
Kept(k) == {i \in DOMAIN d : d[i].life > 0 /\ d[i].key # k}

LEMMA PutRest ==
  ASSUME EntriesInv, NEW k \in Keys
  PROVE  LET rest == Without(Unexpired(d), k) IN
         /\ rest \in Seq(Entry) /\ Unique(rest) /\ ~Has(rest, k)
         /\ Cost(rest) \in Nat /\ Cost(rest) =< Cost(d)
         /\ \E h : Placing(h, rest, d, Kept(k), Len(d))
<1> DEFINE live == Unexpired(d)
           rest == Without(live, k)
           I == {i \in DOMAIN d : d[i].life > 0}
           J == {i \in DOMAIN live : live[i].key # k}
<1>1. /\ live \in Seq(Entry) /\ Unique(live)
      /\ Cost(live) \in Nat /\ Cost(live) =< Cost(d) /\ Cost(d) \in Nat
  BY EntriesFacts, UnexpiredOnly
<1>2. PICK g : Placing(g, live, d, I, Len(d))
  <2>1. live = Selected(d, I)
    BY DEF Unexpired
  <2> HIDE DEF live, I
  <2>2. QED
    BY <2>1, EntriesFacts, SelectedPlacing
<1>3. PICK f : Placing(f, rest, live, J, Len(live))
  <2>1. rest = Selected(live, J)
    BY DEF Without
  <2> HIDE DEF live, J, rest
  <2>2. QED
    BY <2>1, <1>1, SelectedPlacing
<1>4. /\ rest \in Seq(Entry) /\ Unique(rest) /\ ~Has(rest, k)
      /\ Cost(rest) \in Nat /\ Cost(rest) =< Cost(live)
  <2> HIDE DEF live
  <2>1. QED
    BY <1>1, WithoutKey
<1>5. /\ Len(d) \in Nat /\ DOMAIN d = 1..Len(d)
      /\ Len(live) \in Nat /\ DOMAIN live = 1..Len(live)
      /\ Len(rest) \in Nat
  <2> HIDE DEF live, rest
  <2>1. QED
    BY <1>1, <1>4, EntriesFacts, Places
<1>6. \A i \in I : d[i].life > 0
  OBVIOUS
<1>7. \A i \in 1..Len(live) : i \in J <=> live[i].key # k
  BY <1>5
<1>8. \A i \in 1..Len(d) : i \in Kept(k) <=> i \in I /\ d[i].key # k
  BY <1>5 DEF Kept
<1> DEFINE h == [i \in 1..Len(rest) |-> g[f[i]]]
<1> HIDE DEF live, rest, I, J
<1>9. /\ f \in [1..Len(rest) -> Int]
      /\ \A i \in 1..Len(rest) : /\ f[i] \in J /\ f[i] \in 1..Len(live)
                                 /\ rest[i] = live[f[i]]
      /\ \A i, j \in 1..Len(rest) : i < j => f[i] < f[j]
      /\ \A n \in 1..Len(live) : n \in J => \E i \in 1..Len(rest) : f[i] = n
  BY <1>3 DEF Placing
<1>10. /\ g \in [1..Len(live) -> Int]
       /\ \A i \in 1..Len(live) : /\ g[i] \in I /\ g[i] \in 1..Len(d)
                                  /\ live[i] = d[g[i]]
       /\ \A i, j \in 1..Len(live) : i < j => g[i] < g[j]
       /\ \A n \in 1..Len(d) : n \in I => \E i \in 1..Len(live) : g[i] = n
  BY <1>2 DEF Placing
<1>11. /\ h \in [1..Len(rest) -> Int]
       /\ \A i \in 1..Len(rest) : h[i] = g[f[i]]
  BY <1>9, <1>10
<1> HIDE DEF h
<1>12. ASSUME NEW i \in 1..Len(rest)
       PROVE  h[i] \in Kept(k) /\ h[i] \in 1..Len(d) /\ rest[i] = d[h[i]]
  <2>1. f[i] \in 1..Len(live) /\ f[i] \in J /\ rest[i] = live[f[i]]
    BY <1>9
  <2>2. h[i] \in I /\ h[i] \in 1..Len(d) /\ live[f[i]] = d[h[i]]
    BY <2>1, <1>10, <1>11
  <2>3. QED
    BY <2>1, <2>2, <1>7, <1>8
<1>13. ASSUME NEW i \in 1..Len(rest), NEW j \in 1..Len(rest), i < j
       PROVE  h[i] < h[j]
  <2>1. f[i] \in 1..Len(live) /\ f[j] \in 1..Len(live) /\ f[i] < f[j]
    BY <1>9, <1>13
  <2>2. QED
    BY <2>1, <1>10, <1>11
<1>14. ASSUME NEW n \in 1..Len(d), n \in Kept(k)
       PROVE  \E i \in 1..Len(rest) : h[i] = n
  <2>1. n \in I /\ d[n].key # k
    BY <1>8, <1>14
  <2>2. PICK j \in 1..Len(live) : g[j] = n
    BY <2>1, <1>10
  <2>3. j \in J
    BY <2>1, <2>2, <1>7, <1>10
  <2>4. PICK i \in 1..Len(rest) : f[i] = j
    BY <2>3, <1>9
  <2>5. QED
    BY <2>2, <2>4, <1>11
<1>15. Placing(h, rest, d, Kept(k), Len(d))
  BY <1>11, <1>12, <1>13, <1>14 DEF Placing
<1>16. Cost(rest) =< Cost(d)
  BY <1>1, <1>4
<1>17. QED
  BY <1>4, <1>15, <1>16 DEF live, rest

(* put, taken apart: what it keeps, what it adds and what it drops.        *)
LEMMA PutParts ==
  ASSUME EntriesInv, NEW k \in Keys, NEW n \in Sizes, Put(k, n)
  PROVE  LET rest  == Without(Unexpired(d), k)
             e     == [key |-> k, nbytes |-> n, life |-> TTL]
             added == Append(rest, e)
             drop  == Evicted(added, Cost(added))
         IN  /\ e \in Entry
             /\ added \in Seq(Entry) /\ Unique(added)
             /\ Len(added) = Len(rest) + 1 /\ added[Len(rest) + 1] = e
             /\ \A i \in 1..Len(rest) : added[i] = rest[i]
             /\ Cost(added) \in Nat /\ Cost(rest) \in Nat
             /\ Fits(n) => /\ d' = SubSeq(added, drop + 1, Len(added))
                           /\ bytes' = Cost(d')
             /\ ~Fits(n) => d' = rest /\ bytes' = Cost(d')
<1> DEFINE rest  == Without(Unexpired(d), k)
           e     == [key |-> k, nbytes |-> n, life |-> TTL]
           added == Append(rest, e)
           drop  == Evicted(added, Cost(added))
<1>1. e \in Entry /\ e.key = k /\ e.nbytes = n /\ n \in Nat
  BY TTLCacheAssumption DEF Entry
<1>2. /\ rest \in Seq(Entry) /\ Unique(rest) /\ ~Has(rest, k)
      /\ Cost(rest) \in Nat
  BY PutRest
<1>3. IF Fits(n)
      THEN /\ d' = SubSeq(added, Evicted(added, Release(bytes, d, rest) + n) + 1,
                          Len(added))
           /\ bytes' = Release(Release(bytes, d, rest) + n, added, d')
      ELSE d' = rest /\ bytes' = Release(bytes, d, rest)
  BY DEF Put
<1> HIDE DEF rest, e
<1>4. Release(bytes, d, rest) = Cost(rest)
  BY <1>2, ReleaseExact
<1>5. /\ added \in Seq(Entry) /\ Unique(added)
      /\ Len(added) = Len(rest) + 1 /\ added[Len(rest) + 1] = e
      /\ \A i \in 1..Len(rest) : added[i] = rest[i]
      /\ Cost(added) = Cost(rest) + n
  BY <1>1, <1>2, AppendNew
<1> HIDE DEF added
<1>6. Cost(added) \in Nat
  BY <1>5, CostNat
<1>7. ASSUME Fits(n)
      PROVE  d' = SubSeq(added, drop + 1, Len(added)) /\ bytes' = Cost(d')
  <2>1. /\ d' = SubSeq(added, drop + 1, Len(added))
        /\ bytes' = Release(Cost(added), added, d')
    BY <1>3, <1>4, <1>5, <1>7
  <2>2. drop \in 0..Len(added)
    BY <1>5, EvictedEnough
  <2> HIDE DEF drop
  <2>3. Cost(d') \in Nat
    BY <1>5, <2>1, <2>2, DropFront
  <2>4. QED
    BY <2>1, <2>3, <1>6 DEF Release
<1>8. ~Fits(n) => d' = rest /\ bytes' = Cost(d')
  BY <1>3, <1>4
<1>9. QED
  BY <1>1, <1>2, <1>5, <1>6, <1>7, <1>8 DEF rest, e, added, drop

LEMMA EntriesPut ==
  ASSUME EntriesInv, NEW k \in Keys, NEW n \in Sizes, Put(k, n)
  PROVE  EntriesInv'
<1> DEFINE rest  == Without(Unexpired(d), k)
           e     == [key |-> k, nbytes |-> n, life |-> TTL]
           added == Append(rest, e)
           drop  == Evicted(added, Cost(added))
<1>1. /\ rest \in Seq(Entry) /\ Unique(rest) /\ Cost(rest) =< Cost(d)
  BY PutRest
<1>2. /\ added \in Seq(Entry) /\ Unique(added) /\ Cost(added) \in Nat
      /\ Fits(n) => /\ d' = SubSeq(added, drop + 1, Len(added))
                    /\ bytes' = Cost(d')
      /\ ~Fits(n) => d' = rest /\ bytes' = Cost(d')
  BY PutParts
<1> HIDE DEF rest, added
<1>3. CASE ~Fits(n)
  <2>1. d' \in Seq(Entry) /\ Unique(d)' /\ Cost(d)' =< Cost(d) /\ bytes' = Cost(d')
    BY <1>1, <1>2, <1>3 DEF Unique
  <2>2. QED
    BY <2>1, Shrink
<1>4. CASE Fits(n)
  <2>1. /\ drop \in 0..Len(added)
        /\ MaxBytes > 0 => Cost(SubSeq(added, drop + 1, Len(added))) =< MaxBytes
    BY <1>2, EvictedEnough
  <2> HIDE DEF drop
  <2>2. d' = SubSeq(added, drop + 1, Len(added)) /\ bytes' = Cost(d')
    BY <1>2, <1>4
  <2>3. d' \in Seq(Entry) /\ Unique(d')
    BY <1>2, <2>1, <2>2, DropFront
  <2>4. MaxBytes > 0 => bytes' =< MaxBytes
    BY <2>1, <2>2
  <2>5. QED
    BY <2>2, <2>3, <2>4 DEF EntriesInv, ByteAccounting, Unique
<1>5. QED
  BY <1>3, <1>4

(* Calls only touch the entries through get and put.                       *)
LEMMA EntriesStep ==
  ASSUME EntriesInv, FlightTypeOK, [Next]_vars
  PROVE  EntriesInv'
<1>1. CASE Client
  <2>1. CASE \E k \in Keys : Get(k)
    BY <2>1, EntriesGet
  <2>2. CASE \E k \in Keys : ExpiresIn(k)
    BY <2>2, EntriesExpiresIn
  <2>3. CASE \E k \in Keys, n \in Sizes : Put(k, n)
    BY <2>3, EntriesPut
  <2>4. CASE Prune
    BY <2>4, EntriesPrune
  <2>5. CASE \E k \in Keys : Invalidate(k)
    BY <2>5, DropKey DEF Invalidate
  <2>6. CASE InvalidateAll
    BY <2>6, EntriesEmptied
  <2>7. CASE Tick
    BY <2>7, EntriesTick
  <2>8. QED
    BY <1>1, <2>1, <2>2, <2>3, <2>4, <2>5, <2>6, <2>7 DEF Client
<1>2. CASE \E t \in Threads, k \in Keys : LookupHit(t, k) \/ LookupMiss(t, k)
  BY <1>2, EntriesGet DEF LookupHit, LookupMiss
<1>3. ASSUME NEW t \in Threads, Proceed(t)
      PROVE  EntriesInv'
  <2>1. CASE Store(t)
    <3>1. key[t] \in Keys
      BY <2>1 DEF FlightTypeOK, Store
    <3>2. QED
      BY <2>1, <3>1, EntriesPut DEF Store
  <2>2. CASE ~Store(t)
    <3>1. UNCHANGED entryVars
      BY <1>3, <2>2 DEF Proceed, entryVars, Lead, Follow, ComputeOk,
                        ComputeFail, Unlink, Resolve
    <3>2. QED
      BY <3>1, EntriesSame
  <2>3. QED
    BY <2>1, <2>2
<1>4. CASE UNCHANGED vars
  BY <1>4, EntriesSame DEF vars, entryVars
<1>5. QED
  BY <1>1, <1>2, <1>3, <1>4 DEF Next, Calls

LEMMA GreatestPlace ==
  ASSUME NEW m \in Nat, NEW T \in SUBSET (1..m), T # {}
  PROVE  Max(T) \in T /\ \A y \in T : y =< Max(T)
<1> DEFINE U == {n \in 0..m : m - n \in T}
<1>1. U \in SUBSET Nat /\ U # {}
  <2>1. PICK y \in T : TRUE
    OBVIOUS
  <2>2. m - y \in 0..m /\ m - (m - y) = y
    OBVIOUS
  <2>3. m - y \in U
    BY <2>2
  <2>4. U \in SUBSET Nat
    OBVIOUS
  <2> HIDE DEF U
  <2>5. QED
    BY <2>3, <2>4
<1>2. PICK x \in U : \A y \in U : x =< y
  <2> HIDE DEF U
  <2>1. QED
    BY <1>1, LeastNat
<1>3. m - x \in T
  BY <1>2
<1>4. \A y \in T : m - x >= y
  <2> SUFFICES ASSUME NEW y \in T PROVE m - x >= y
    OBVIOUS
  <2>1. m - y \in 0..m /\ m - (m - y) = y
    OBVIOUS
  <2>2. m - y \in U
    BY <2>1
  <2>3. x =< m - y /\ x \in 0..m
    BY <1>2, <2>2
  <2>4. QED
    BY <2>3
<1>5. Max(T) \in T /\ \A y \in T : Max(T) >= y
  BY <1>3, <1>4 DEF Max
<1>6. QED
  BY <1>5

LEMMA PutEvicts ==
  ASSUME EntriesInv, NEW k \in Keys, NEW n \in Sizes, Put(k, n)
  PROVE  LET lost == {i \in DOMAIN d : d[i].life > 0 /\ d[i].key # k
                                      /\ ~Has(d', d[i].key)}
             live == Selected(d', {i \in DOMAIN d' : d'[i].life > 0})
         IN  /\ Fits(n) => Has(d', k)
             /\ lost # {} => /\ MaxBytes > 0
                             /\ Cost(live) + d[Max(lost)].nbytes > MaxBytes
             /\ \A i \in lost, j \in DOMAIN d :
                  j < i /\ d[j].life > 0 /\ d[j].key # k => j \in lost
<1> DEFINE lost  == {i \in DOMAIN d : d[i].life > 0 /\ d[i].key # k
                                      /\ ~Has(d', d[i].key)}
           I     == {i \in DOMAIN d' : d'[i].life > 0}
           rest  == Without(Unexpired(d), k)
           e     == [key |-> k, nbytes |-> n, life |-> TTL]
           added == Append(rest, e)
           drop  == Evicted(added, Cost(added))
           l     == Len(rest)
<1>1. /\ e \in Entry /\ e.key = k /\ e.nbytes = n /\ e.life = TTL
      /\ added \in Seq(Entry) /\ Unique(added)
      /\ Len(added) = l + 1 /\ added[l + 1] = e
      /\ \A i \in 1..l : added[i] = rest[i]
      /\ Fits(n) => d' = SubSeq(added, drop + 1, Len(added))
      /\ ~Fits(n) => d' = rest
  BY PutParts
<1>2. rest \in Seq(Entry) /\ \E h : Placing(h, rest, d, Kept(k), Len(d))
  BY PutRest
<1>3. PICK h : Placing(h, rest, d, Kept(k), Len(d))
  BY <1>2
<1>4. /\ l \in Nat /\ DOMAIN rest = 1..l /\ Len(d) \in Nat
      /\ DOMAIN d = 1..Len(d) /\ DOMAIN added = 1..(l + 1)
      /\ n \in Nat /\ MaxBytes \in Nat /\ TTL \in Nat
  BY <1>1, <1>2, EntriesFacts, Places, TTLCacheAssumption
<1>5. /\ drop \in 0..(l + 1)
      /\ drop > 0 => /\ MaxBytes > 0
                     /\ Cost(SubSeq(added, drop, Len(added))) > MaxBytes
  BY <1>1, EvictedEnough
<1> HIDE DEF rest, e, added, drop, l
<1>6. /\ h \in [1..l -> Int]
      /\ \A i \in 1..l : /\ h[i] \in Kept(k) /\ h[i] \in 1..Len(d)
                         /\ rest[i] = d[h[i]]
      /\ \A i, j \in 1..l : i < j => h[i] < h[j]
      /\ \A p \in 1..Len(d) : p \in Kept(k) => \E i \in 1..l : h[i] = p
  BY <1>3 DEF Placing, l
<1>7. \A i \in 1..l : /\ rest[i].life > 0 /\ rest[i].key # k
                      /\ d[h[i]].life > 0 /\ d[h[i]].key # k
  BY <1>6 DEF Kept
<1>8. CASE ~Fits(n)
  <2>1. ASSUME NEW x \in lost PROVE FALSE
    <3>1. x \in 1..Len(d) /\ x \in Kept(k) /\ ~Has(d', d[x].key)
      BY <2>1, <1>4 DEF Kept
    <3>2. PICK i \in 1..l : h[i] = x
      BY <3>1, <1>6
    <3>3. Has(rest, d[x].key)
      BY <3>2, <1>4, <1>6 DEF Has
    <3>4. QED
      BY <3>1, <3>3, <1>1, <1>8
  <2>2. QED
    BY <2>1, <1>8
<1>9. CASE Fits(n)
  <2>1. /\ d' = SubSeq(added, drop + 1, l + 1)
        /\ DOMAIN d' = 1..(l + 1 - drop)
        /\ \A i \in 1..(l + 1 - drop) : d'[i] = added[drop + i]
        /\ d' \in Seq(Entry) /\ Cost(d') \in Nat
    <3>1. drop \in 0..Len(added) /\ Len(added) - drop = l + 1 - drop
      <4>1. Len(added) = l + 1 /\ l \in Nat
        BY <1>1, <1>4
      <4>2. drop \in 0..(l + 1)
        BY <1>5
      <4> HIDE DEF lost, I
      <4>3. QED
        BY <4>1, <4>2
    <3>2. d' = SubSeq(added, drop + 1, Len(added))
      BY <1>1, <1>9
    <3>3. /\ DOMAIN d' = 1..(Len(added) - drop)
          /\ \A i \in 1..(Len(added) - drop) : d'[i] = added[drop + i]
          /\ d' \in Seq(Entry) /\ Cost(d') \in Nat
      BY <1>1, <3>1, <3>2, DropFront
    <3>4. QED
      BY <3>1, <3>2, <3>3, <1>1
  <2>2. drop # l + 1
    <3> SUFFICES ASSUME drop = l + 1 PROVE FALSE
      OBVIOUS
    <3> DEFINE last == SubSeq(added, l + 1, l + 1)
    <3>1. l \in 0..Len(added)
      BY <1>1, <1>4
    <3>2. /\ last \in Seq(Entry) /\ DOMAIN last = 1..(l + 1 - l)
          /\ \A i \in 1..(l + 1 - l) : last[i] = added[l + i]
      BY <3>1, <1>1, DropFront
    <3>3. /\ SubSeq(added, l + 1, Len(added)) = last
          /\ Cost(last) = Cost(added) - Cost(SubSeq(added, 1, l))
      BY <3>1, <1>1, DropFront
    <3>4. Cost(last) = n
      <4>1. Len(last) = 1 /\ last[1] = e
        <5> HIDE DEF last
        <5>1. DOMAIN last = 1..1 /\ last[1] = added[l + 1]
          BY <3>2, <1>4
        <5>2. QED
          BY <5>1, <3>2, <1>1, Places
      <4> HIDE DEF last
      <4>2. PICK f : IsTotal(f, last) /\ Cost(last) = f[Len(last)]
        BY <3>2, CostTotal
      <4>3. 0 \in 0..Len(last) /\ 0 < Len(last) /\ 0 + 1 = 1
        BY <4>1
      <4>4. f[0] = 0 /\ f[1] = f[0] + last[1].nbytes
        BY <4>2, <4>3, <3>2, TotalStep DEF IsTotal
      <4>5. QED
        BY <4>1, <4>2, <4>4, <1>1, <1>4
    <3>5. QED
      BY <3>3, <3>4, <1>1, <1>4, <1>5, <1>9 DEF Fits
  <2>3. drop \in 0..l /\ l + 1 - drop \in 1..(l + 1 - drop)
        /\ drop + (l + 1 - drop) = l + 1
    BY <2>2, <1>4, <1>5
  <2>4. Has(d', k)
    BY <2>1, <2>3, <1>1 DEF Has
  <2>5. ASSUME lost # {}
        PROVE  /\ MaxBytes > 0
               /\ Cost(Selected(d', I)) + d[Max(lost)].nbytes > MaxBytes
    <3> DEFINE x == Max(lost)
    <3>1. x \in lost /\ \A y \in lost : y =< x
      <4>1. lost \in SUBSET (1..Len(d))
        BY <1>4
      <4> HIDE DEF lost
      <4>2. QED
        BY <4>1, <2>5, <1>4, GreatestPlace
    <3> HIDE DEF x
    <3>2. /\ x \in 1..Len(d) /\ x \in Kept(k) /\ ~Has(d', d[x].key)
          /\ d[x].life > 0 /\ d[x].key # k
      BY <3>1, <1>4 DEF Kept
    <3>3. PICK i \in 1..l : h[i] = x
      BY <3>2, <1>6
    <3>4. i =< drop
      <4> SUFFICES ASSUME drop < i PROVE FALSE
        BY <2>3, <1>4
      <4>1. i - drop \in 1..(l + 1 - drop) /\ drop + (i - drop) = i
        BY <2>3, <1>4
      <4>2. d'[i - drop] = d[x]
        <5>1. d'[i - drop] = added[drop + (i - drop)]
          BY <4>1, <2>1
        <5>2. added[i] = rest[i] /\ rest[i] = d[x]
          BY <1>1, <1>6, <3>3
        <5>3. QED
          BY <5>1, <5>2, <4>1
      <4>3. QED
        BY <4>1, <4>2, <2>1, <3>2 DEF Has
    <3>5. drop \in 1..l
      BY <3>4, <2>3, <1>4
    <3>6. h[drop] \in lost
      <4>1. /\ h[drop] \in 1..Len(d) /\ rest[drop] = d[h[drop]]
            /\ d[h[drop]].life > 0 /\ d[h[drop]].key # k
        BY <3>5, <1>6, <1>7
      <4>2. added[drop].key = d[h[drop]].key /\ drop \in 1..(l + 1)
        BY <4>1, <3>5, <1>1, <1>4
      <4>3. ~Has(d', added[drop].key)
        <5> SUFFICES ASSUME NEW j \in 1..(l + 1 - drop),
                            d'[j].key = added[drop].key
                     PROVE  FALSE
          BY <2>1 DEF Has
        <5>1. added[drop + j].key = added[drop].key
          BY <2>1
        <5>2. drop + j \in 1..(l + 1) /\ drop + j # drop
          BY <3>5, <1>4
        <5>3. QED
          BY <5>1, <5>2, <4>2, <1>1, <1>4 DEF Unique
      <4>4. QED
        BY <4>1, <4>2, <4>3, <1>4
    <3>7. h[drop] = x
      <4>1. h[drop] =< x /\ h[drop] \in Int /\ x \in Int
        BY <3>1, <3>6, <3>2, <3>5, <1>6
      <4>2. i # drop => x < h[drop]
        BY <3>3, <3>4, <3>5, <1>6, <1>4
      <4>3. i = drop
        BY <4>1, <4>2
      <4>4. QED
        BY <4>3, <3>3
    <3>8. /\ added[drop] = d[x] /\ added[drop].nbytes \in Nat
          /\ drop - 1 \in 0..(l + 1) /\ drop - 1 + 1 = drop
      <4>1. added[drop] = d[x] /\ drop \in 1..(l + 1)
        BY <3>5, <3>7, <1>1, <1>4, <1>6
      <4>2. added[drop].nbytes \in Nat
        BY <4>1, <1>1, Places
      <4>3. QED
        BY <4>1, <4>2, <1>4
    <3>9. Cost(SubSeq(added, drop, l + 1)) = Cost(d') + d[x].nbytes
      <4>1. PICK f : IsTotal(f, added)
        BY <1>1, CostTotal
      <4>2. /\ f[drop - 1] \in Nat
            /\ f[drop - 1 + 1] = f[drop - 1] + added[drop - 1 + 1].nbytes
        <5>1. drop - 1 < l + 1
          BY <3>5, <1>4
        <5>2. QED
          BY <5>1, <3>8, <4>1, <1>1, TotalStep
      <4>3. /\ drop \in 0..(l + 1) /\ l + 1 \in drop..(l + 1)
            /\ l + 1 \in (drop - 1)..(l + 1)
        BY <3>5, <1>4
      <4>4. /\ Cost(SubSeq(added, drop + 1, l + 1)) = f[l + 1] - f[drop]
            /\ Cost(SubSeq(added, drop - 1 + 1, l + 1)) = f[l + 1] - f[drop - 1]
        BY <3>8, <4>1, <4>3, <1>1, TotalOfPart
      <4>5. f[l + 1] \in Nat
        BY <4>1, <4>3, <1>1, <1>4 DEF IsTotal
      <4>6. Cost(d') = f[l + 1] - f[drop]
        BY <2>1, <4>4
      <4>7. Cost(SubSeq(added, drop, l + 1)) = f[l + 1] - f[drop - 1]
        BY <3>8, <4>4
      <4>8. f[drop] = f[drop - 1] + d[x].nbytes /\ d[x].nbytes \in Nat
        BY <3>8, <4>2
      <4>9. QED
        BY <4>2, <4>5, <4>6, <4>7, <4>8
    <3>10. Cost(Selected(d', I)) = Cost(d')
      <4>1. TTL > 0
        <5>1. d[x] \in Entry
          BY <3>2, EntriesFacts, Places
        <5>2. d[x].life \in 0..TTL
          BY <5>1, EntryTypes
        <5>3. QED
          BY <5>2, <3>2, <1>4
      <4>2. ASSUME NEW j \in 1..(l + 1 - drop) PROVE j \in I
        <5>1. drop + j \in 1..(l + 1) /\ d'[j] = added[drop + j]
          BY <2>1, <3>5, <1>4
        <5>2. CASE drop + j = l + 1
          BY <5>1, <5>2, <4>1, <2>1, <1>1
        <5>3. CASE drop + j # l + 1
          <6>1. drop + j \in 1..l
            BY <5>1, <5>3, <1>4
          <6>2. added[drop + j] = rest[drop + j] /\ rest[drop + j].life > 0
            BY <6>1, <1>1, <1>7
          <6>3. QED
            BY <5>1, <6>2, <2>1
        <5>4. QED
          BY <5>2, <5>3
      <4> HIDE DEF I
      <4>3. /\ DOMAIN d' = 1..Len(d') /\ 0 \in 0..Len(d')
            /\ \A j \in 1..Len(d') : j \in I <=> j # 0
        <5>1. Len(d') \in Nat /\ DOMAIN d' = 1..Len(d')
          BY <2>1, Places
        <5>2. \A j \in 1..Len(d') : j \in I
          BY <5>1, <4>2, <2>1
        <5>3. QED
          BY <5>1, <5>2
      <4>4. Cost(Selected(d', I)) = Cost(d') - 0
        BY <4>3, <2>1, CostAllBut
      <4>5. QED
        BY <4>4, <2>1
    <3>11. /\ MaxBytes > 0
           /\ Cost(SubSeq(added, drop, l + 1)) > MaxBytes
      BY <3>5, <1>1, <1>5
    <3> HIDE DEF lost, I
    <3>12. QED
      BY <3>9, <3>10, <3>11 DEF x
  <2>6. ASSUME NEW x \in lost, NEW y \in DOMAIN d,
               y < x, d[y].life > 0, d[y].key # k
        PROVE  y \in lost
    <3>1. /\ x \in 1..Len(d) /\ x \in Kept(k) /\ ~Has(d', d[x].key)
          /\ y \in 1..Len(d) /\ y \in Kept(k) /\ y < x
      BY <2>6, <1>4 DEF Kept
    <3>2. PICK i \in 1..l : h[i] = x
      BY <3>1, <1>6
    <3>3. PICK j \in 1..l : h[j] = y
      BY <3>1, <1>6
    <3> HIDE DEF lost, I
    <3>4. j < i
      <4>1. i < j => x < y
        BY <3>2, <3>3, <1>6
      <4>2. i = j => x = y
        BY <3>2, <3>3
      <4>3. QED
        BY <4>1, <4>2, <3>1, <1>4
    <3>5. i =< drop
      <4> SUFFICES ASSUME drop < i PROVE FALSE
        BY <2>3, <1>4
      <4>1. i - drop \in 1..(l + 1 - drop) /\ drop + (i - drop) = i
        BY <2>3, <1>4
      <4>2. d'[i - drop] = added[drop + (i - drop)]
        BY <4>1, <2>1
      <4>3. added[i] = rest[i] /\ rest[i] = d[x]
        BY <1>1, <1>6, <3>2
      <4>4. d'[i - drop] = d[x]
        BY <4>1, <4>2, <4>3
      <4>5. QED
        BY <4>1, <4>4, <2>1, <3>1 DEF Has
    <3>6. j \in 1..drop /\ j \in 1..(l + 1) /\ added[j] = d[y]
      <4>1. added[j] = rest[j] /\ rest[j] = d[y]
        BY <1>1, <1>6, <3>3
      <4>2. QED
        BY <4>1, <3>4, <3>5, <2>3, <1>4
    <3>7. ~Has(d', d[y].key)
      <4> SUFFICES ASSUME NEW b \in 1..(l + 1 - drop), d'[b].key = d[y].key
                   PROVE  FALSE
        BY <2>1 DEF Has
      <4>1. added[drop + b].key = added[j].key
        BY <2>1, <3>6
      <4>2. drop + b \in 1..(l + 1) /\ drop + b # j
        BY <3>6, <2>3, <1>4
      <4>3. QED
        BY <4>1, <4>2, <3>6, <1>1, <1>4 DEF Unique
    <3>8. QED
      BY <2>6, <3>7 DEF lost
  <2>7. QED
    BY <2>4, <2>5, <2>6
<1>10. QED
  BY <1>8, <1>9
-----------------------------------------------------------------------------
(* The flights.                                                            *)

(* Whoever waits, waits on a leader that still works on the same key and   *)
(* has not resolved its Future; and _inflight names exactly the leaders    *)
(* that have not been unlinked, so no caller can join a dead flight.       *)
NoDeadFlight ==
  /\ \A f \in Threads : pc[f] = "wait" =>
       /\ leader[f] \in Threads
       /\ Leading(leader[f]) \/ pc[leader[f]] = "resolve"
       /\ key[leader[f]] = key[f]
  /\ \A k \in Keys, t \in Threads :
       inflight[k] = t <=> Leading(t) /\ key[t] = k

FlightInv == FlightTypeOK /\ NoDeadFlight

LEMMA FlightInit == Init => FlightInv
  BY TTLCacheAssumption DEF Init, FlightInv, FlightTypeOK, NoDeadFlight, Leading

(* Operations that only touch the entries leave the flights as they are.   *)
LEMMA FlightUntouched == FlightInv /\ UNCHANGED callVars => FlightInv'
  BY DEF FlightInv, FlightTypeOK, NoDeadFlight, Leading, callVars

LEMMA FlightMiss ==
  ASSUME FlightInv, NEW t \in Threads, NEW k \in Keys, LookupMiss(t, k)
  PROVE  FlightInv'
  BY TTLCacheAssumption
     DEF FlightInv, FlightTypeOK, NoDeadFlight, Leading, LookupMiss, Goto

LEMMA FlightLead ==
  ASSUME FlightInv, NEW t \in Threads, Lead(t)
  PROVE  FlightInv'
  BY TTLCacheAssumption
     DEF FlightInv, FlightTypeOK, NoDeadFlight, Leading, Lead, Goto

LEMMA FlightFollow ==
  ASSUME FlightInv, NEW t \in Threads, Follow(t)
  PROVE  FlightInv'
  BY TTLCacheAssumption
     DEF FlightInv, FlightTypeOK, NoDeadFlight, Leading, Follow, Goto

(* compute and put keep the flight; both outcomes of compute lead to Unlink*)
LEMMA FlightLeaderStep ==
  ASSUME FlightInv, NEW t \in Threads,
         ComputeOk(t) \/ ComputeFail(t) \/ Store(t)
  PROVE  FlightInv'
  BY TTLCacheAssumption
     DEF FlightInv, FlightTypeOK, NoDeadFlight, Leading, Goto,
         ComputeOk, ComputeFail, Store

LEMMA FlightUnlink ==
  ASSUME FlightInv, NEW t \in Threads, Unlink(t)
  PROVE  FlightInv'
  BY TTLCacheAssumption
     DEF FlightInv, FlightTypeOK, NoDeadFlight, Leading, Unlink, Goto

(* Everybody who waits on t returns with t; whoever waits on another leader*)
(* still does, because that leader does not return.                        *)
LEMMA FlightResolve ==
  ASSUME FlightInv, NEW t \in Threads, Resolve(t)
  PROVE  FlightInv'
<1> DEFINE back == {t} \cup {f \in Threads : pc[f] = "wait" /\ leader[f] = t}
<1>1. Return(back) /\ pc[t] = "resolve" /\ inflight' = inflight
  BY DEF Resolve
<1>2. \A s \in Threads :
        /\ s \in back => pc'[s] = "idle" /\ key'[s] = NoKey
        /\ s \notin back => /\ pc'[s] = pc[s] /\ key'[s] = key[s]
                            /\ leader'[s] = leader[s]
  BY <1>1 DEF Return
<1>3. FlightTypeOK'
  BY <1>1, TTLCacheAssumption DEF FlightInv, FlightTypeOK, Return
<1>4. ASSUME NEW f \in Threads, pc'[f] = "wait"
      PROVE  /\ leader'[f] \in Threads
             /\ Leading(leader[f])' \/ pc'[leader'[f]] = "resolve"
             /\ key'[leader'[f]] = key'[f]
  <2>1. f \notin back /\ pc[f] = "wait" /\ leader[f] # t
    BY <1>2, <1>4
  <2>2. /\ leader[f] \in Threads
        /\ Leading(leader[f]) \/ pc[leader[f]] = "resolve"
        /\ key[leader[f]] = key[f]
    BY <2>1 DEF FlightInv, NoDeadFlight
  <2>3. leader[f] \notin back
    BY <2>1, <2>2 DEF Leading
  <2>4. QED
    BY <1>2, <2>1, <2>2, <2>3 DEF Leading
<1>5. ASSUME NEW k \in Keys, NEW s \in Threads
      PROVE  inflight'[k] = s <=> Leading(s)' /\ key'[s] = k
  <2>1. inflight[k] = s <=> Leading(s) /\ key[s] = k
    BY DEF FlightInv, NoDeadFlight
  <2>2. Leading(s)' <=> Leading(s)
    BY <1>1, <1>2 DEF Leading
  <2>3. s \in back => ~Leading(s)
    BY <1>1 DEF Leading
  <2>4. QED
    BY <1>1, <1>2, <2>1, <2>2, <2>3
<1>6. NoDeadFlight'
  BY <1>4, <1>5 DEF NoDeadFlight
<1>7. QED
  BY <1>3, <1>6 DEF FlightInv

LEMMA FlightStep == FlightInv /\ [Next]_vars => FlightInv'
<1> SUFFICES ASSUME FlightInv, [Next]_vars PROVE FlightInv'
  OBVIOUS
<1>1. CASE Client
  BY <1>1, FlightUntouched DEF Client
<1>2. CASE \E t \in Threads, k \in Keys : LookupHit(t, k)
  BY <1>2, FlightUntouched DEF LookupHit
<1>3. CASE \E t \in Threads, k \in Keys : LookupMiss(t, k)
  BY <1>3, FlightMiss
<1>4. CASE \E t \in Threads : Proceed(t)
  BY <1>4, FlightLead, FlightFollow, FlightLeaderStep, FlightUnlink,
     FlightResolve DEF Proceed
<1>5. CASE UNCHANGED vars
  BY <1>5, FlightUntouched DEF vars, callVars
<1>6. QED
  BY <1>1, <1>2, <1>3, <1>4, <1>5 DEF Next, Calls

LEMMA FlightAlways == Spec => []FlightInv
  BY FlightInit, FlightStep, PTL DEF Spec

-----------------------------------------------------------------------------
(* The theorems.                                                           *)

LEMMA EntriesAlways == Spec => []EntriesInv
<1>1. FlightInv => FlightTypeOK
  BY DEF FlightInv
<1>2. EntriesInv /\ FlightInv /\ [Next]_vars => EntriesInv'
  BY <1>1, EntriesStep
<1>3. QED
  BY <1>2, EntriesInit, FlightAlways, PTL DEF Spec

(* Every variable keeps its type: _d holds well-formed entries, the byte   *)
(* counter never goes negative, and the flights are in order.              *)
THEOREM Types == Spec => []TypeOK
<1>1. EntriesInv /\ FlightInv => TypeOK
  <2> SUFFICES ASSUME EntriesInv, FlightInv PROVE TypeOK
    OBVIOUS
  <2>1. d \in Seq(Entry) /\ bytes \in Nat
    BY EntriesFacts
  <2>2. QED
    BY <2>1 DEF TypeOK, FlightInv
<1>2. QED
  BY <1>1, EntriesAlways, FlightAlways, PTL

(* The byte counter is exactly the cost of the entries, within the bound,  *)
(* and no key is stored twice (cache.py:43-114).                           *)
THEOREM AccountIsExact == Spec => []ByteAccounting
<1>1. EntriesInv => ByteAccounting
  BY DEF EntriesInv
<1>2. QED
  BY <1>1, EntriesAlways, PTL

(* put loses live entries of other keys oldest first, the last of them only*)
(* because the bound would break with it, and what it stored is there      *)
(* afterwards (cache.py:82-99).                                            *)
THEOREM EvictionNeedsPressure == Spec => PutEvictsUnderPressure
<1> DEFINE A == \A k \in Keys, n \in Sizes : Put(k, n) =>
        LET lost == {i \in DOMAIN d : d[i].life > 0 /\ d[i].key # k
                                      /\ ~Has(d', d[i].key)}
            live == Selected(d', {i \in DOMAIN d' : d'[i].life > 0})
        IN  /\ Fits(n) => Has(d', k)
            /\ lost # {} => /\ MaxBytes > 0
                            /\ Cost(live) + d[Max(lost)].nbytes > MaxBytes
            /\ \A i \in lost, j \in DOMAIN d :
                 j < i /\ d[j].life > 0 /\ d[j].key # k => j \in lost
<1>1. EntriesInv => A
  BY PutEvicts
<1>2. EntriesInv => [A]_vars
  BY <1>1
<1> HIDE DEF A
<1>3. Spec => [][A]_vars
  BY <1>2, EntriesAlways, PTL
<1>4. PutEvictsUnderPressure <=> [][A]_vars
  BY DEF A, PutEvictsUnderPressure
<1>5. QED
  BY <1>3, <1>4

(* No caller ever waits on a flight that is gone, and no flight is left in *)
(* _inflight after its leader returned (cache.py:132-150).                 *)
THEOREM FlightsAreAlive == Spec => []NoDeadFlight
  BY FlightAlways, PTL DEF FlightInv

(* At most one caller at a time computes or stores a key.                  *)
THEOREM SingleFlight == Spec => []OneScanPerKey
<1>1. FlightInv => OneScanPerKey
  BY DEF FlightInv, FlightTypeOK, NoDeadFlight, OneScanPerKey, Leading
<1>2. QED
  BY <1>1, FlightAlways, PTL
=============================================================================
