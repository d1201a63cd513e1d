\* Two actions at once, the keeper exchanged in between.
SPECIFICATION Spec
CONSTANTS
  w1 = w1  w2 = w2  x = x  y = y  z = z  u = u  v = v
  sx = sx  sy = sy  sz = sz  su = su  sv = sv  twice = twice  alias = alias
  i1 = i1  i2 = i2  i3 = i3  i4 = i4  i5 = i5
  A = A  B = B  None = None
  Workers = {w1, w2}
  Files <- MCFiles
  Paths <- MCPaths
  Entries <- MCEntries
  Inodes <- FewInodes
  Contents <- MCContents
  Canon <- MCCanon
  AsideOf <- MCAsideOf
  CloneTmpOf <- MCCloneTmpOf
  SafeNameOf <- MCSafeNameOf
  SystemEntries = {}
  Placeholder <- NoPlaceholder
  Unopenable = {}
  Windows = FALSE
  FlakyCleanup = FALSE
  NewPathOf <- MCNewPathOf
  ArchivedAs <- MCArchivedAs
  Users <- Overlapping
CHECK_DEADLOCK FALSE
INVARIANTS CopyStays
