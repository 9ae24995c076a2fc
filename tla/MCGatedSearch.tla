----------------------------- MODULE MCGatedSearch -----------------------------
(* GatedSearch as it stands; the bounds are in the configuration. *)
EXTENDS GatedSearch
================================================================================
