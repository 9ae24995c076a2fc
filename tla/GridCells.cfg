\* Every threshold of the rating; two numbers and two images.
SPECIFICATION Spec
CONSTANTS
  Popularities = {0, 1, 20, 21, 40, 41, 60, 61, 80, 81, 82, 100}
  Followers = {f1, f2}
  Tracks = {n1, n2}
  Urls = {u1, u2}
  None = None
INVARIANTS
  TypeOK
  StarsMatchRow
