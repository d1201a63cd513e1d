\* Two groups, two settings, of one list of files or of two.  After a failed walk the window
\* waits for an end that never comes: no deadlock check.
SPECIFICATION Spec
CONSTANTS
  f1 = f1  f2 = f2  f3 = f3  f4 = f4  A = A  B = B  i1 = i1  i2 = i2  i3 = i3  i4 = i4
  s1 = s1  s2 = s2  r1 = r1  r2 = r2  None = None  Torn = Torn
  Files = {f1, f2, f3, f4}
  ContentOf <- TwoPairs
  SizeOf <- OneSize
  InodeOf <- OwnInodes
  Setups = {s1, s2}
  Plans <- AllPlans
CHECK_DEADLOCK FALSE
INVARIANTS ListSurvives DrainedOnShutdown FinishedComplete TableFits
PROPERTIES KeepsProgress UiLearnsTheEnd AskedFirst
