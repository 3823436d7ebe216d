---------------------------- MODULE MCImageLoader ----------------------------
(* Instances of ImageLoader for TLC.                                       *)
EXTENDS ImageLoader, TLC

CONSTANTS k1, k2
Symmetry == Permutations(Keys)
=============================================================================
