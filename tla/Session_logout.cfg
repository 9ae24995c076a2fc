\* The question that comes after the fact.
SPECIFICATION Spec
CONSTANTS
  Accounts = {a, b}
  NoAccount = NoAccount
  MaxLogins = 2
INVARIANTS
  LogoutAwaitsYes
