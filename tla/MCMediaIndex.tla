---------------------------- MODULE MCMediaIndex ----------------------------
(* Instances of MediaIndex for TLC.                                        *)
EXTENDS MediaIndex, TLC

\* Files are alike, and so are hashes: they are only compared for equality.
Symmetry == Permutations(Files) \cup Permutations(Hashes)
=============================================================================
