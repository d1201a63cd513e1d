\* One GUI scan over aliased, unidentified and blocked files that are written while
\* it runs, with failing reads and a cancel; every tier is used.
SPECIFICATION Spec
CONSTANTS
  gui = gui  cli = cli  f1 = f1  f2 = f2  f3 = f3  f4 = f4  f5 = f5
  i1 = i1  i2 = i2  i3 = i3  i4 = i4  i5 = i5  A = A  B = B  E = E
  hA = hA  hB = hB  hAB = hAB  hE = hE  None = None  NoPrint = NoPrint  Failed = Failed
  Scanners = {gui}
  Files = {f1, f2, f3, f4, f5}
  Inodes <- MCInodes
  FirstInode <- AliasedInodes
  Unidentified = {f3, f4}
  Contents = {A, B, E}
  FirstContent <- TwoTwins
  SizeOf <- MCSizeOf
  BigSizes = {5}
  Digest <- MCDigest
  Fingerprint <- OneFormat
  Hashes = {hA, hB, hAB, hE}
  Keys = {i1, i2, i3, i4, i5, f1, f2, f3, f4, f5}
  Blocked = {f5}
  Caching = {gui}
  Mirroring = {gui}
  FormatAware = TRUE
  Cancellable = {gui}
  Flaky = TRUE
  MaxScans = 1
  MaxEdits = 1
  MaxKills = 0
  EditKinds = {"write"}
CHECK_DEADLOCK FALSE
INVARIANTS NothingMissed
PROPERTIES ScanEnds
