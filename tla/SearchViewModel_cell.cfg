\* A cell asked for after its artist is gone.
SPECIFICATION Spec
CONSTANTS
  Empty = Empty
  NoText = NoText
  NoList = NoList
  Texts = {Empty, t1, t2}
  MaxItems = 1
  MaxTyped = 2
CHECK_DEADLOCK FALSE
INVARIANTS
  CellRowExists
