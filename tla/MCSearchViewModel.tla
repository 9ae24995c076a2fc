--------------------------- MODULE MCSearchViewModel ---------------------------
(* SearchViewModel with texts beside the empty one that are alike. *)
EXTENDS SearchViewModel, TLC

Symmetry == Permutations(Texts \ {Empty})
================================================================================
