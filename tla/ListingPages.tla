---------------------------- MODULE ListingPages ----------------------------
(***************************************************************************)
(* What list_page and listing_table of catalog.py make of a listing: its   *)
(* rows in the order asked for, and the page asked for.                    *)
(***************************************************************************)
EXTENDS ListingService, SequencesExt

CONSTANTS PageMax,     \* page_max
          PageFloor    \* 20, the least rows of a page

SortKeys == {"name", "size"}     \* two of SORT_KEYS

(* Names differ within a directory; strings are modelled by numbers, which *)
(* are ordered in the same way.                                            *)
ASSUME PagesAssumption ==
  /\ PageMax \in Nat /\ PageFloor \in Nat \ {0}
  /\ Rows \subseteq [name : Int, element_type : STRING, size : Int]
  /\ \A a, b \in Rows : a.name = b.name => a = b

(* Rows are records of name, element_type and the columns to sort by.      *)
IsFile(row) == IF row.element_type = "DIR" THEN 0 ELSE 1

Before(sort, order, a, b) ==
  LET Ahead(x, y) == IF order = "descending" THEN x > y ELSE x < y
      DirFirst == IsFile(a) < IsFile(b)
      Alike    == IsFile(a) = IsFile(b)
  IN  IF sort = "name"
      THEN DirFirst \/ (Alike /\ Ahead(a.name, b.name))
      ELSE \/ Ahead(a[sort], b[sort])
           \/ a[sort] = b[sort] /\ (DirFirst \/ (Alike /\ a.name < b.name))

SortedTable(rows, sort, order) ==
  [i \in 1..Cardinality(rows) |-> CHOOSE row \in rows :
     Cardinality({b \in rows : Before(sort, order, b, row)}) = i - 1]

ClampPageSize(requested) ==
  LET most == IF requested < PageMax THEN requested ELSE PageMax
  IN  IF most > PageFloor THEN most ELSE PageFloor

(* Mutation: the page that is not full is not counted.                     *)
PagesFull(total, size) == IF total < size THEN 1 ELSE total \div size
Pages(total, size) ==
  IF total = 0 THEN 1 ELSE (total + size - 1) \div size

(* Page 0 stands for a page that is not given.                            *)
ClampPage(asked, pages) ==
  LET page == IF asked = 0 THEN 1 ELSE asked
      most == IF page < pages THEN page ELSE pages
  IN  IF most > 1 THEN most ELSE 1

ListPage(table, asked, askedSize) ==
  LET total == Len(table)
      size  == ClampPageSize(askedSize)
      pages == Pages(total, size)
      page  == ClampPage(asked, pages)
      last  == IF page * size < total THEN page * size ELSE total
  IN  [pages |-> pages, page |-> page, size |-> size,
       entries |-> SubSeq(table, (page - 1) * size + 1, last)]

-----------------------------------------------------------------------------
(* Directories first by name, else by the column asked for.                *)
InOrder(table, sort, order) ==
  \A i \in 1..(Len(table) - 1) :
    LET a == table[i]
        b == table[i + 1]
    IN  IF sort = "name"
        THEN /\ b.element_type = "DIR" => a.element_type = "DIR"
             /\ IsFile(a) = IsFile(b)
                  => (a.name < b.name <=> order = "ascending")
        ELSE IF order = "ascending" THEN a[sort] =< b[sort]
                                    ELSE a[sort] >= b[sort]

(* The pages, one after the other, show the table, each row once; a number *)
(* that is out of range, as it is when rows went since the client saw it,  *)
(* shows the last page or the first.                                       *)
Tiles(table, size) ==
  LET Show(page) == ListPage(table, page, size)
      pages == Show(1).pages
      shown == FlattenSeq([page \in 1..pages |-> Show(page).entries])
  IN  /\ shown = table
      /\ \A page \in 1..pages :
           Len(Show(page).entries) = Show(page).size \/ page = pages
      /\ \A page \in -1..(pages + 2) :
           Show(page) = Show(IF page < 1 THEN 1
                             ELSE IF page > pages THEN pages ELSE page)

Orders == SortKeys \X {"ascending", "descending"}

\* The listings that are shown in order and in full, whatever the order and
\* the size of page they are asked for in (an enumeration of SUBSET Rows, so
\* that TLC works them out once).
ShownWell ==
  {rows \in {Rows \ gone : gone \in SUBSET Rows} :
     /\ \A o \in Orders :
          LET table == SortedTable(rows, o[1], o[2])
          IN  ToSet(table) = rows /\ InOrder(table, o[1], o[2])
     /\ \A size \in 0..(PageMax + 1) :
          Tiles(SortedTable(rows, "name", "ascending"), size)}

(* Every listing that a click is answered with is shown in order, and its  *)
(* pages put together are the listing (catalog.py:590-592, 735-800).       *)
PagesTile ==
  \A t \in Clicks : got[t] # NoEntry => got[t].rows \in ShownWell
=============================================================================
