--------------------------- MODULE MCCatalogEpoch ---------------------------
(* CatalogEpoch with one thread that lists and one that computes rollups,  *)
(* while snapshots land and age out.                                       *)
EXTENDS CatalogEpoch

CONSTANTS t1, t2

MCListers == {t1}
MCRollers == {t2}
=============================================================================
