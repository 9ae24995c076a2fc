\* Three screens and one login, three token replies.
SPECIFICATION Spec
CONSTANTS
  Calls = {s1, s2, s3}
  Logins = {l1}
  NoCall = NoCall
  MaxGen = 3
SYMMETRY Symmetry
INVARIANTS
  TypeOK
  DirectTokenWasFresh
  ExpiryVouchesForToken
  NoImmortalToken
  CallsAccounted
  StrandedOnlyAfterFailure
  SingleRefresh
  QuietSessionNeverDrops
PROPERTIES
  GateSpec
