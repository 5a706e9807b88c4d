---------------------------- MODULE MCFlagStore ----------------------------
(***************************************************************************)
(* Small instances of FlagStore for TLC.                                   *)
(***************************************************************************)
EXTENDS FlagStore, TLC

CONSTANTS k1, b1, b2, c1, c2, c3

Symmetry == Permutations(Calls) \cup Permutations(Bodies)

=============================================================================
