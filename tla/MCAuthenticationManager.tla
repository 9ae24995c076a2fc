----------------------- MODULE MCAuthenticationManager -----------------------
(* AuthenticationManager with screens that are alike. *)
EXTENDS AuthenticationManager, TLC

Symmetry == Permutations(Calls)
=============================================================================
