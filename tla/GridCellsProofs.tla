---------------------------- MODULE GridCellsProofs ----------------------------
(* What a reused cell shows, for every popularity and all numbers and images. *)
EXTENDS GridCells, TLAPS

(* The five thresholds of populate and the 81 it leaves out give one star for  *)
(* every twenty points begun, for every popularity that has a branch.          *)
LEMMA PaintedRates ==
  ASSUME NEW p \in 0..100, p # 81
  PROVE  Painted(p) = FirstStars(Rating(p))
<1>. USE DEF Painted, Rating
<1>1. CASE p = 0
  <2>1. (p + 19) \div 20 = 0
    BY <1>1
  <2>. QED  BY <1>1, <2>1
<1>2. CASE 0 < p /\ p <= 20
  <2>1. (p + 19) \div 20 = 1
    BY <1>2
  <2>. QED  BY <1>2, <2>1
<1>3. CASE 20 < p /\ p <= 40
  <2>1. (p + 19) \div 20 = 2
    BY <1>3
  <2>. QED  BY <1>3, <2>1
<1>4. CASE 40 < p /\ p <= 60
  <2>1. (p + 19) \div 20 = 3
    BY <1>4
  <2>. QED  BY <1>4, <2>1
<1>5. CASE 60 < p /\ p <= 80
  <2>1. (p + 19) \div 20 = 4
    BY <1>5
  <2>. QED  BY <1>5, <2>1
<1>6. CASE 81 < p
  <2>1. (p + 19) \div 20 = 5
    BY <1>6
  <2>. QED  BY <1>6, <2>1
<1>. QED  BY <1>1, <1>2, <1>3, <1>4, <1>5, <1>6

CellsInv == TypeOK /\ StarsMatchRow

(* A cell that was never used shows nothing. *)
LEMMA CellsInit == Init => CellsInv
<1>. SUFFICES ASSUME Init PROVE CellsInv
  OBVIOUS
<1>1. TypeOK
  BY DEF Init, TypeOK
<1>2. StarsMatchRow
  BY DEF Init, StarsMatchRow, NoArtist, Unpainted
<1>. QED  BY <1>1, <1>2 DEF CellsInv

(* populate, for a row of either grid. *)
LEMMA CellsStep == CellsInv /\ [Next]_vars => CellsInv'
<1>. SUFFICES ASSUME CellsInv, [Next]_vars PROVE CellsInv'
  OBVIOUS
<1>. USE DEF CellsInv, TypeOK
<1>1. ASSUME NEW a \in Artists, PopulateArtist(a) PROVE CellsInv'
  <2>. USE <1>1 DEF PopulateArtist, albumCell
  <2>1. CASE a.popularity \in Unpainted
    <3>1. TypeOK'
      BY <2>1 DEF OrKept, Artists
    <3>. QED  BY <2>1, <3>1 DEF StarsMatchRow
  <2>2. CASE a.popularity \notin Unpainted
    <3>1. a.popularity \in 0..100 /\ a.popularity # 81
      BY <2>2, PopularitiesAssumption DEF Artists, Unpainted
    <3>2. stars' = FirstStars(Rating(a.popularity))
      BY <2>2, <3>1, PaintedRates
    <3>3. stars' \in [Five -> {"none", "star", "star.fill"}]
      BY <3>2 DEF FirstStars
    <3>4. TypeOK'
      BY <3>3 DEF OrKept, Artists
    <3>5. StarsMatchRow'
      BY <3>2 DEF StarsMatchRow, FirstStars
    <3>. QED  BY <3>4, <3>5
  <2>. QED  BY <2>1, <2>2
<1>2. ASSUME NEW b \in Albums, PopulateAlbum(b) PROVE CellsInv'
  <2>. USE <1>2 DEF PopulateAlbum, artistCell
  <2>1. TypeOK'
    BY DEF OrKept, Albums
  <2>2. StarsMatchRow'
    BY DEF StarsMatchRow
  <2>. QED  BY <2>1, <2>2
<1>3. CASE UNCHANGED vars
  BY <1>3 DEF vars, artistCell, albumCell, StarsMatchRow
<1>. QED  BY <1>1, <1>2, <1>3 DEF Next

(* Whatever rows the cells have shown before, what they hold is typed. *)
THEOREM TypeCorrect == Spec => []TypeOK
<1>1. CellsInv => TypeOK
  BY DEF CellsInv
<1>. QED  BY CellsInit, CellsStep, <1>1, PTL DEF Spec

(* ArtistCollectionViewCell.populate: the stars rate the artist of the row,    *)
(* for every popularity but the 81 its last branch leaves out.                 *)
THEOREM StarsRate == Spec => []StarsMatchRow
<1>1. CellsInv => StarsMatchRow
  BY DEF CellsInv
<1>. QED  BY CellsInit, CellsStep, <1>1, PTL DEF Spec
================================================================================
