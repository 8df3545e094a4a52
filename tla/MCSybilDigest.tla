--------------------------- MODULE MCSybilDigest ---------------------------
(* Small instances of SybilDigest for TLC. *)
EXTENDS SybilDigest, TLC

CONSTANTS c1, c2, d1, d2, m1, m2, m3, m4

MarkerSymmetry == Permutations(Markers)
=============================================================================
