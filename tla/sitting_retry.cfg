CONSTANTS
  None = None
  e1 = e1
  s1 = s1
  u1 = u1
  u2 = u2
  history = history
  MinSitting = 1
  Courses = {}
  Exams = {e1}
  Students = {s1}
  Uuids = {u1, u2}
  Owner <- TwoTabs
  ExamRows <- AlwaysOpen
  StoreFaults = FALSE
  Threads = {t1, t2}
  Kinds = {"launch", "seal"}
  Patches <- NoPatches
  Grace = 0
  SelfServe = FALSE
  MonthlyCap = 1
  MaxRequests = 4
  MaxCrashes = 0
  MaxTime = 0
SPECIFICATION Spec
CHECK_DEADLOCK FALSE
INVARIANTS RetryGetsItsRowBack
