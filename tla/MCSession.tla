------------------------------- MODULE MCSession -------------------------------
(* Session with accounts that are alike. *)
EXTENDS Session, TLC

Symmetry == Permutations(Accounts)
================================================================================
