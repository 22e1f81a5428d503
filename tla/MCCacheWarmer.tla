--------------------------- MODULE MCCacheWarmer ---------------------------
(* CacheWarmer over two roots, one in the other, and a directory below.    *)
EXTENDS CacheWarmer

CONSTANTS r, s, t

MCChildren == [d \in {r, s, t} |-> CASE d = r -> {s, t}
                                     [] OTHER -> {}]
=============================================================================
