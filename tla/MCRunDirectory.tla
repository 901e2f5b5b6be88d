--------------------------- MODULE MCRunDirectory ---------------------------
(* Three processes that were called with two graphs for one run id.        *)
EXTENDS RunDirectory, TLC

(* Processes do not differ, nor do graphs: neither is ever ordered, and    *)
(* every property is about all of them.                                    *)
Symmetry == Permutations(Procs) \union Permutations(Graphs)
=============================================================================
