\* Two screens and one login, two token replies; no symmetry under liveness.
SPECIFICATION FairSpec
CONSTANTS
  Calls = {s1, s2}
  Logins = {l1}
  NoCall = NoCall
  MaxGen = 2
PROPERTIES
  RefreshFlagFalls
  CallSettles
