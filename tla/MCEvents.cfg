SPECIFICATION Spec
CONSTANTS
  Calls = {c1, c2}
  Chunk = 2
  Pages = {p1, p2}
  PageChunk = 1
  Types = {a, b}
  MaxChanges = 2
  Fetches = {g1, g2}
  NoFetch = NoFetch
  NoNote = NoNote
  Loops = {l1, l2, l3}
  Edits = {e1, e2}
  Files = {f1, f2, f3}
  MaxFiles = 2
  Reads = {r1, r2}
INVARIANTS
  TypeOK
  EntriesFollow
  PublishedIsSeeded
  PagesFollow
  ClientCurrent
  CacheFollows
  OneSource
  ShownFollows
  FilesFit
CONSTRAINT Bound
SYMMETRY Symmetry
CHECK_DEADLOCK FALSE
