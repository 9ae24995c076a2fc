------------------------------ MODULE ImageView ------------------------------
(* What ImageDownlaoder promises the views that ask it for images: a view       *)
(* shows nothing or the image of the row it stands for, and an image once       *)
(* shown stays until the view stands for another row.  Once the loader is       *)
(* spoiled (a reply that was not stopped in time, a write that was lost, a      *)
(* transfer that brought no image) a view may show anything.                    *)
CONSTANTS
  Views,  \* whatever shows an image
  Urls,   \* images, by the url they are loaded from
  NoUrl   \* a blank or a placeholder

VARIABLES row, shown, spoiled  \* per view: url of its row, image on display; a mishap has happened

vars == <<row, shown, spoiled>>

Init ==
  /\ row = [v \in Views |-> NoUrl] /\ shown = [v \in Views |-> NoUrl]
  /\ spoiled = FALSE

(* A view is given a row: anew, with nothing on display, or the one it has. *)
Stand(v, u) ==
  /\ row' = [row EXCEPT ![v] = u]
  /\ \/ shown' = [shown EXCEPT ![v] = NoUrl]
     \/ (row[v] = u \/ shown[v] = NoUrl \/ spoiled) /\ UNCHANGED shown
  /\ UNCHANGED spoiled

(* The image of its row arrives, or was there already. *)
Show(v) ==
  /\ row[v] # NoUrl
  /\ shown' = [shown EXCEPT ![v] = row[v]]
  /\ UNCHANGED <<row, spoiled>>

ShowAny(v) ==
  /\ spoiled
  /\ \E image \in Urls \cup {NoUrl} : shown' = [shown EXCEPT ![v] = image]
  /\ UNCHANGED <<row, spoiled>>

Spoil == spoiled' = TRUE /\ UNCHANGED <<row, shown>>

Next ==
  \/ \E v \in Views : Show(v) \/ ShowAny(v) \/ \E u \in Urls \cup {NoUrl} : Stand(v, u)
  \/ Spoil

Spec == Init /\ [][Next]_vars
=============================================================================
