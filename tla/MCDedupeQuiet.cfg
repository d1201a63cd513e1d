\* Three runs over one results file with any action, killed anywhere; nobody
\* else touches the files.
SPECIFICATION Spec
CONSTANTS
  cli = cli  a1 = a1  a2 = a2  b1 = b1  b2 = b2  alias = alias  balias1 = balias1  balias2 = balias2
  i1 = i1  i2 = i2  i3 = i3  i4 = i4  i5 = i5
  A = A  B = B  X = X  None = None
  Workers = {cli}
  Cli = cli
  Files <- MCFiles
  Paths <- MCPaths
  Entries <- MCEntries
  Inodes <- MCInodes
  Contents <- MCContents
  Canon <- MCCanon
  AsideOf <- MCAsideOf
  CloneTmpOf <- MCCloneTmpOf
  SafeNameOf <- MCSafeNameOf
  SystemEntries = {}
  Placeholder <- NoPlaceholder
  Unopenable = {}
  Windows = FALSE
  FlakyCleanup = TRUE
  Groups <- MCGroups
  FileContent <- MCFileContent
  SizeOf <- MCSizeOf
  References = {}
  Warned = {}
  Invocations <- AnyInvocation
  MaxRuns = 3
  MaxCrashes = 2
  MaxOutside = 0
  OutsideKinds = {}
SYMMETRY Symmetric
CHECK_DEADLOCK FALSE
INVARIANT ContentSurvives
