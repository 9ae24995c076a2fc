------------------------------ MODULE MCGridCells ------------------------------
(* GridCells as it stands; the configuration has both sides of every threshold. *)
EXTENDS GridCells
================================================================================
