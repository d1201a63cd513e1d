\* Windows: a file listed under two spellings, a reference and a system file listed
\* under another spelling only, a placeholder, groups without a keeper, and one
\* change by another program.
SPECIFICATION Spec
CONSTANTS
  cli = cli  a1 = a1  a2 = a2  b1 = b1  b2 = b2  alias = alias  balias1 = balias1  balias2 = balias2
  i1 = i1  i2 = i2  i3 = i3  i4 = i4  i5 = i5
  A = A  B = B  X = X  None = None
  Workers = {cli}
  Cli = cli
  Files <- MCFiles
  Paths <- MCPaths
  Entries <- MCEntries
  Inodes <- MCInodes
  Contents <- AllContents
  Canon <- MCCanon
  AsideOf <- MCAsideOf
  CloneTmpOf <- MCCloneTmpOf
  SafeNameOf <- MCSafeNameOf
  SystemEntries = {b2}
  Placeholder <- OnePlaceholder
  Unopenable = {a1}
  Windows = TRUE
  FlakyCleanup = FALSE
  Groups <- GuardedGroups
  FileContent <- MCFileContent
  SizeOf <- MCSizeOf
  References = {b1}
  Warned = {a1}
  Invocations <- GuardedInvocations
  MaxRuns = 1
  MaxCrashes = 0
  MaxOutside = 1
  OutsideKinds = {"write", "save", "delete"}
SYMMETRY Symmetric
CHECK_DEADLOCK FALSE
INVARIANTS OutcomesAddUp
PROPERTIES KeeperNeverRemoved ReferencesNeverModified ProtectedUntouched LinkingKeepsNames
