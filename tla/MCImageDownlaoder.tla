-------------------------- MODULE MCImageDownlaoder --------------------------
(* ImageDownlaoder with cells that are alike and well-formed urls that are alike. *)
EXTENDS ImageDownlaoder, TLC

Symmetry == Permutations(Cells) \cup Permutations(Urls \ Malformed)
=============================================================================
