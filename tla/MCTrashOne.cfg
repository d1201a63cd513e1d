\* One caller, killed and failing anywhere, three names to try.
SPECIFICATION Spec
CONSTANTS
  c1 = c1  c2 = c2  f = f  g = g  h = h  x1 = x1  x2 = x2  x3 = x3  y2 = y2  y3 = y3
  None = None  Torn = Torn
  Callers = {c1}
  Files <- MCFiles
  Names <- MCNames
  Candidate <- MCCandidate
  Tries = 3
PROPERTIES ImplementsBin
CHECK_DEADLOCK FALSE
