---------------------------- MODULE MCRollupScan ----------------------------
(* RollupScan over three groups, two of which fit: all short streams, and  *)
(* some that are longer than the pipeline.                                 *)
EXTENDS RollupScan

CONSTANTS a, b, c

S(n, size, t) == [files |-> n, bytes |-> size, newest |-> t]
None  == <<>>                                          \* no rows
OnlyA == [g \in {a} |-> S(1, 2, 2)]
OnlyC == [g \in {c} |-> S(1, 0, NoTime)]
Both  == [g \in {a, b} |-> S(2, 3, IF g = a THEN 1 ELSE NoTime)]
Wide  == [g \in {a, b, c} |-> S(1, 1, 3)]                 \* too wide by itself

MCGroups  == {a, b, c}
MCBatches == {None, OnlyA, OnlyC, Both, Wide}
MCStreams ==
  UNION {[1..n -> MCBatches] : n \in 0..2}
    \cup { <<OnlyA, Both, OnlyA, Both, Both>>,
           <<Both, None, OnlyA, Both, OnlyA, OnlyA>>,
           <<Both, OnlyA, OnlyA, OnlyA, OnlyC>>,
           <<OnlyC, Both, OnlyA, OnlyA>>,
           <<OnlyA, OnlyC, OnlyA, OnlyC, Wide, OnlyA>> }
MCDirSets == {{}, {b}, {a, b, c}}
=============================================================================
