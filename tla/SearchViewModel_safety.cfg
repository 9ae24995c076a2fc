\* Three edits, lists of up to two artists; the app may die on a bad index.
SPECIFICATION Spec
CONSTANTS
  Empty = Empty
  NoText = NoText
  NoList = NoList
  Texts = {Empty, t1, t2}
  MaxItems = 2
  MaxTyped = 3
CHECK_DEADLOCK FALSE
SYMMETRY Symmetry
INVARIANTS
  TypeOK
  SettledShowsField
  SpinnerRests
  RowsBackedOrReloading
  TapOpensShown
