---------------------------- MODULE MCSedaStats -----------------------------
(***************************************************************************)
(* SedaStats for TLC: two measurements, of one category or of the one that *)
(* is not stored, times whose total overflows, counts of both signs, and a *)
(* stage that is made twice.                                               *)
(***************************************************************************)
EXTENDS SedaStats, TLC

MCCounts == {-1, 2}
MCSymmetry == Permutations(Measurements) \cup Permutations(Categories)
=============================================================================
