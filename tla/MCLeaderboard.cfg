SPECIFICATION Spec
CONSTANTS
  ui = ui  t1 = t1  t2 = t2  t3 = t3  a1 = a1  a2 = a2  a3 = a3
  None = None  Torn = Torn
  MaxScans = 2
  Actions = {a1, a2, a3}
  Archives = {a3}
  MaxAttempts = 2
  Ui = ui
  Workers = {t1, t2, t3}
  StickyThreshold = 1
  PatchAttempts = 3
  Users <- EachUser
CHECK_DEADLOCK FALSE
INVARIANTS SubmittedIsOnServer PendingBelowCap CreditedOnce LocalCreditFirst
PROPERTIES CreditLostOnlyThere SubmitResolves ResubmitEnds
