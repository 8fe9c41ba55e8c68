---------------------------- MODULE MCNotifierSource ----------------------------
(* NotifierSource for TLC.                                                  *)
EXTENDS NotifierSource, TLC

Symmetry == Permutations(Tags)
=============================================================================
