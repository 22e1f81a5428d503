----------------------------- MODULE MCInstance -----------------------------
(* Instance with two terminals.                                            *)
EXTENDS Instance, TLC

CONSTANTS c1, c2

MCCommands == {c1, c2}
MCSymmetry == Permutations(MCCommands)
=============================================================================
