CONSTANTS
  None = None
  e1 = e1
  s1 = s1
  u1 = u1
  u2 = u2
  history = history
  MinSitting = 1
  Courses = {history}
  Exams = {e1}
  Students = {s1}
  Uuids = {u1, u2}
  Owner <- TwoTabs
  ExamRows <- Gates
  StoreFaults = FALSE
  Threads = {t1, t2}
  Kinds = {"launch", "dashboard", "seal", "patch", "scan", "override"}
  Patches <- GatePatches
  Grace = 0
  SelfServe = TRUE
  MonthlyCap = 1
  MaxRequests = 4
  MaxCrashes = 0
  MaxTime = 0
SPECIFICATION Spec
SYMMETRY ThreadSymmetry
INVARIANTS NothingBeforeOpening PhoneClearedFirst
