----------------------------- MODULE MCFrontend -----------------------------
(* Frontend with a directory of two pages and one of one page.             *)
EXTENDS Frontend

CONSTANTS pA, pB, name, byName, all

MCPagesOf == [p \in Paths |-> IF p = pA THEN 2 ELSE 1]

(* Numbers of promises are mere names: what a load waits for is told by the*)
(* promise, whether it is cached (once, as the cache has a page once), and *)
(* the loads that share it.  States that agree in this do so for ever.     *)
Waits(l) ==
  [promise |-> fetch[load[l].fetch], target |-> load[l].target,
   cached  |-> load[l].fetch \in ToSet(pageCache),
   shared  |-> {k \in Loads : load[k] # None /\ load[k].fetch = load[l].fetch}]

UpToNames ==
  <<view, page, [i \in DOMAIN pageCache |-> fetch[pageCache[i]]],
    [l \in Loads |-> IF load[l] = None THEN None ELSE Waits(l)],
    listingToken, wanted, tableVars, rollupVars>>
=============================================================================
