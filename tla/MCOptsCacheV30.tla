--------------------------- MODULE MCOptsCacheV30 ---------------------------
(* Small instances of OptsCacheV30 for TLC.                                *)
EXTENDS OptsCacheV30, TLC

Symmetry == Permutations(Callers) \cup Permutations(Channels) \cup Permutations(Opts)
=============================================================================
