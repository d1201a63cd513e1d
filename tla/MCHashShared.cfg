\* A GUI scan and a CLI scan share the cache; files are saved by rename, processes
\* are killed, the cache is cleared.
SPECIFICATION Spec
CONSTANTS
  gui = gui  cli = cli  f1 = f1  f2 = f2  f3 = f3  f4 = f4  f5 = f5
  i1 = i1  i2 = i2  i3 = i3  i4 = i4  i5 = i5  A = A  B = B  E = E
  hA = hA  hB = hB  hAB = hAB  hE = hE  None = None  NoPrint = NoPrint  Failed = Failed
  Scanners = {gui, cli}
  Files = {f1, f2}
  Inodes <- MCInodes
  FirstInode <- PairInodes
  Unidentified = {}
  Contents = {A, B}
  FirstContent <- TwoTwins
  SizeOf <- MCSizeOf
  BigSizes = {}
  Digest <- MCDigest
  Fingerprint <- NoFormat
  Hashes = {hA, hB, hAB, hE}
  Keys = {i1, i2, i3, i4, i5, f1, f2, f3, f4, f5}
  Blocked = {}
  Caching = {gui, cli}
  Mirroring = {gui}
  FormatAware = FALSE
  Cancellable = {}
  Flaky = FALSE
  MaxScans = 2
  MaxEdits = 1
  MaxKills = 1
  EditKinds = {"replace"}
CHECK_DEADLOCK FALSE
PROPERTIES FindsDuplicates
