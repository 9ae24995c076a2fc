\* One cell and one header, three urls of which one is no url, two tasks; no symmetry under liveness.
SPECIFICATION FairSpec
CONSTANTS
  Cells = {c1}
  Headers = {h}
  Urls = {u1, u2, u3}
  Malformed = {u3}
  NoView = NoView
  NoUrl = NoUrl
  MaxTasks = 2
PROPERTIES
  ViewGetsImage
  ViewSpec
