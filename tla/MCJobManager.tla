---------------------------- MODULE MCJobManager ----------------------------
(* JobManager with one worker, one place in its queue, and up to three     *)
(* requests, two of them for the same rollup.                              *)
EXTENDS JobManager

CONSTANTS r1, r2, r3, kA, kB

MCTwoKeys == [r \in Requests |-> IF r = r1 THEN kB ELSE kA]
MCOneKey  == [r \in Requests |-> kA]

MCSymmetry == Permutations(Requests \ {r1})
=============================================================================
