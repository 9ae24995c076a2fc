----------------------------- MODULE MCArtistAlbum -----------------------------
(* ArtistAlbum as it stands; the bounds are in the configuration. *)
EXTENDS ArtistAlbum
================================================================================
