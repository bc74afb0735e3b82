SPECIFICATION Spec
CONSTANTS
  None = None
  t1 = t1
  t2 = t2
  s1 = s1
  s2 = s2
  s3 = s3
  s4 = s4
  c1 = c1
  c2 = c2
  e1 = e1
  e2 = e2
  Threads <- TwoThreads
  Students = {s1, s2, s3, s4}
  Courses = {c1, c2}
  Exams = {e1, e2}
  Foreign = {s3}
  SelfServe = TRUE
  MaxStudents = 2
  MaxExams = 1
  FormationSteps = 2
  StoreFaults = TRUE
  MaxInvites = 3
  MaxLinks = 2
  Scenarios <- AllScenarios
  MaxCalls = 4
SYMMETRY ThreadSymmetry
CHECK_DEADLOCK FALSE
INVARIANTS
  TypeOK
  InviteOnce
  RemovalRevokes
  InvitedHasLink
  JoinOwnsAccount
  OneActiveLink
  CapsKept
  EditsKept
  ExamOnCourse
  PathwaysCount
  TilesGoWithSession
PROPERTIES
  ClearanceKept
  TokenStands
