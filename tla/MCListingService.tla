-------------------------- MODULE MCListingService --------------------------
(* ListingService with one or two clicks, prefetches submitted by one or   *)
(* two listings of the parent, and a visit of the warmer.  The directory   *)
(* has three rows or four (three are what a query may keep where paging is *)
(* checked, two elsewhere); or it goes from one row to another with the    *)
(* epoch.                                                                  *)
EXTENDS ListingPages

CONSTANTS c1, c2, p1, p2, w1

Row(n, type, bytes) == [name |-> n, element_type |-> type, size |-> bytes]
Home == Row(2, "DIR", 0)
Log  == Row(1, "FILE", 7)
Link == Row(3, "OTHER", 7)
Data == Row(0, "DIR", 0)
Dump == Row(5, "FILE", 9)

MCRows     == {Home, Log, Link, Data, Dump}
MCWanted   == {Log, Link}
MCContents == {[e \in Epochs |-> {Home, Log, Link}],
               [e \in Epochs |-> {Home, Log, Link, Data}]}
MCChanging == {[e \in Epochs |-> IF e = 0 THEN {Home} ELSE {Log}]}
=============================================================================
