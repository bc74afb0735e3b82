CONSTANTS
  None = None
  e1 = e1
  s1 = s1
  u1 = u1
  u2 = u2
  history = history
  MinSitting = 1
  Courses = {}
  Exams = {e1}
  Students = {s1}
  Uuids = {u1}
  Owner <- OneTab
  ExamRows <- Windows
  StoreFaults = FALSE
  Threads = {t1, t2}
  Kinds = {"launch", "dashboard", "seal", "patch"}
  Patches <- WindowPatches
  Grace = 1
  SelfServe = FALSE
  MonthlyCap = 1
  MaxRequests = 3
  MaxCrashes = 0
  MaxTime = 4
SPECIFICATION Spec
SYMMETRY ThreadSymmetry
INVARIANTS TypeOK NothingBeforeOpening LateTagIsFair
CHECK_DEADLOCK FALSE
PROPERTIES DeadlinePinned
