---------------------------- MODULE MCTTLCache ----------------------------
(* TTLCache with two callers and three keys: a key to store, one to evict  *)
(* and one to expire.                                                      *)
EXTENDS TTLCache

CONSTANTS t1, t2, k1, k2, k3

MCKeys    == {k1, k2, k3}
MCSizes   == {1, 2, 3}    \* alone, half of the bound or more, oversized
=============================================================================
