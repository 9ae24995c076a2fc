\* Two cells, three urls of which one is no url, three tasks.
SPECIFICATION Spec
CONSTANTS
  Cells = {c1, c2}
  Headers = {}
  Urls = {u1, u2, u3}
  Malformed = {u3}
  NoView = NoView
  NoUrl = NoUrl
  MaxTasks = 3
SYMMETRY Symmetry
INVARIANTS
  TypeOK
  EntryIsLive
  SingleDownload
  NoForeignImage
  NoImageForgotten
