\* Two edits, lists of one artist, one text that makes no URL.
SPECIFICATION FairSpec
CONSTANTS
  Empty = Empty
  NoText = NoText
  NoList = NoList
  Texts = {Empty, t1, t2}
  Unsendable = {t2}
  MaxItems = 1
  MaxTyped = 2
CHECK_DEADLOCK FALSE
PROPERTIES
  SearchSpec
  SpinnerStops
