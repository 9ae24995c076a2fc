\* Two accounts, two logins; no symmetry under liveness.
SPECIFICATION FairSpec
CONSTANTS
  Accounts = {a, b}
  NoAccount = NoAccount
  MaxLogins = 2
INVARIANTS
  TypeOK
  StoredSessionWhole
  SearchMeansSignedIn
PROPERTIES
  LoginReachesSearch
