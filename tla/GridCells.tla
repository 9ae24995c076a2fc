------------------------------ MODULE GridCells ------------------------------
(* What a reused cell of the two grids shows: the populate of                  *)
(* ArtistCollectionViewCell and of ArtistAlbumCollectionViewCell.  A cell is   *)
(* dequeued with whatever it showed before; prepareForReuse takes away only    *)
(* its image, and populate writes what the new row has.  Cells share nothing   *)
(* but the image loader (ImageDownlaoder), so one of each kind is enough.      *)
EXTENDS Integers

CONSTANTS
  Popularities, \* popularity of an artist, 0..100
  Followers,    \* numbers of followers
  Tracks,       \* numbers of tracks
  Urls,         \* image urls of albums
  None          \* what the decoded document does not have

ASSUME PopularitiesAssumption == Popularities \subseteq 0..100
ASSUME NoneAssumption == None \notin 0..100

VARIABLES
  artist, stars, followersLabel, \* the row of the artist cell, its stars and label
  album, numberOfTracks, image   \* the row of the album cell, its label, the image asked for

artistCell == <<artist, stars, followersLabel>>
albumCell  == <<album, numberOfTracks, image>>
vars       == <<artistCell, albumCell>>

Five == 1..5
Artists == [popularity : Popularities \cup {None}, followers : Followers \cup {None}]
Albums == [total_tracks : Tracks \cup {None}, url : Urls \cup {None}]
NoArtist == [popularity |-> None, followers |-> None]
NoAlbum == [total_tracks |-> None, url |-> None]
OrKept(new, old) == IF new = None THEN old ELSE new

Init ==
  /\ artist = NoArtist /\ stars = [i \in Five |-> "none"] /\ followersLabel = None
  /\ album = NoAlbum /\ numberOfTracks = None /\ image = None

FirstStarsFromZero(n) == [i \in 0..4 |-> IF i < n THEN "star.fill" ELSE "star"]

FirstStars(n) == [i \in Five |-> IF i <= n THEN "star.fill" ELSE "star"]

PaintedBelow(p) ==
  IF p = 0 THEN FirstStars(0)
  ELSE IF p < 20 THEN FirstStars(1)
  ELSE IF p < 40 THEN FirstStars(2)
  ELSE IF p < 60 THEN FirstStars(3)
  ELSE IF p < 80 THEN FirstStars(4)
  ELSE FirstStars(5)

(* The branches of populate, for a popularity that one of them is for ... *)
Painted(p) ==
  IF p = 0 THEN FirstStars(0)
  ELSE IF p <= 20 THEN FirstStars(1)
  ELSE IF p <= 40 THEN FirstStars(2)
  ELSE IF p <= 60 THEN FirstStars(3)
  ELSE IF p <= 80 THEN FirstStars(4)
  ELSE FirstStars(5)

(* ... which the last, > 81, is not for 81. *)
Unpainted == {None, 81}

(* An artist without followers or popularity leaves the label or the stars of  *)
(* the artist the cell showed before.                                          *)
PopulateArtist(a) ==
  /\ artist' = a
  /\ followersLabel' = OrKept(a.followers, followersLabel)
  /\ stars' = IF a.popularity \in Unpainted THEN stars ELSE Painted(a.popularity)
  /\ UNCHANGED albumCell

(* prepareForReuse blanks the image; populate returns where the number of      *)
(* tracks is missing, before it asks for the image.                            *)
PopulateAlbum(b) ==
  /\ album' = b
  /\ numberOfTracks' = OrKept(b.total_tracks, numberOfTracks)
  /\ image' = IF b.total_tracks = None THEN None ELSE b.url
  /\ UNCHANGED artistCell

Next ==
  \/ \E a \in Artists : PopulateArtist(a)
  \/ \E b \in Albums : PopulateAlbum(b)

Spec == Init /\ [][Next]_vars

----------------------------------------------------------------------------
TypeOK ==
  /\ artist \in Artists \cup {NoArtist} /\ followersLabel \in Followers \cup {None}
  /\ stars \in [Five -> {"none", "star", "star.fill"}]
  /\ album \in Albums \cup {NoAlbum} /\ numberOfTracks \in Tracks \cup {None}
  /\ image \in Urls \cup {None}

(* One star for every twenty points begun. *)
Rating(p) == (p + 19) \div 20

(* Whatever the cell showed before, its stars rate the artist it shows, unless *)
(* the popularity is missing, or is the 81 that the last branch leaves out.    *)
StarsMatchRow ==
  artist.popularity \notin Unpainted =>
    \A i \in Five : stars[i] = IF i <= Rating(artist.popularity) THEN "star.fill" ELSE "star"
=============================================================================
