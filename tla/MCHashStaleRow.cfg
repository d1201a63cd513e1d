\* A file of the cache is written in place between two scans.
SPECIFICATION Spec
CONSTANTS
  gui = gui  cli = cli  f1 = f1  f2 = f2  f3 = f3  f4 = f4  f5 = f5
  i1 = i1  i2 = i2  i3 = i3  i4 = i4  i5 = i5  A = A  B = B  E = E
  hA = hA  hB = hB  hAB = hAB  hE = hE  None = None  NoPrint = NoPrint  Failed = Failed
  Scanners = {cli}
  Files = {f1, f2}
  Inodes <- MCInodes
  FirstInode <- PairInodes
  Unidentified = {}
  Contents = {A, B}
  FirstContent <- AllTwins
  SizeOf <- MCSizeOf
  BigSizes = {}
  Digest <- MCDigest
  Fingerprint <- NoFormat
  Hashes = {hA, hB, hAB, hE}
  Keys = {i1, i2, i3, i4, i5, f1, f2, f3, f4, f5}
  Blocked = {}
  Caching = {cli}
  Mirroring = {}
  FormatAware = FALSE
  Cancellable = {}
  Flaky = FALSE
  MaxScans = 2
  MaxEdits = 1
  MaxKills = 0
  EditKinds = {"write", "replace", "reuse"}
CHECK_DEADLOCK FALSE
INVARIANTS ConfirmedIdentical
