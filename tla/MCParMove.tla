----------------------------- MODULE MCParMove -----------------------------
(* Instances of ParMove for TLC: one location more than moves, so that     *)
(* chains, cycles, shared sources and a full pm[] all occur.               *)
EXTENDS ParMove, TLC
CONSTANTS l1, l2, l3, l4, l5
MCLoc == {l1, l2, l3, l4, l5}
MCSymmetry == Permutations(MCLoc)
=============================================================================
