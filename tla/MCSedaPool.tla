----------------------------- MODULE MCSedaPool -----------------------------
(***************************************************************************)
(* SedaPool for TLC: symmetry sets.                                        *)
(***************************************************************************)
EXTENDS SedaPool, TLC

(* Threads of one kind, stages and events are interchangeable: Init, Next  *)
(* and the checked formulas name none of them.                             *)
Symmetry ==
    Permutations(Workers) \cup Permutations(Stages) \cup Permutations(Events)
        \cup Permutations(Reapers) \cup Permutations(Controllers)
=============================================================================
