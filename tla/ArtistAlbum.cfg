\* Lists of up to two albums, two headers, a closure that a raced gate calls twice.
SPECIFICATION FairSpec
CONSTANTS
  NoAlbum = NoAlbum
  MaxItems = 2
  MaxHeaders = 2
  MaxCalls = 2
CHECK_DEADLOCK FALSE
INVARIANTS
  TypeOK
  SettledShowsAlbum
  RowsBacked
  HeaderFilledOnce
  LoaderFollows
  FailureTold
PROPERTIES
  SpinnerStops
