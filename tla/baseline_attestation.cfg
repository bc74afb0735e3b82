SPECIFICATION Spec
CONSTANTS
  None = None
  t1 = t1
  t2 = t2
  w1 = w1
  w2 = w2
  w3 = w3
  k1 = k1
  p1 = p1
  q1 = q1
  Ids = {q1}
  Threads <- TwoThreads
  Texts = {w1, w2, w3}
  Tokens = {k1}
  Papers = {p1}
  PaperText <- SharedText
  Seals = {w2, w3}
  TakeHome = {w3}
  SetAside = {}
  MinSamples = 1
  Calls <- AllCalls
  MaxCalls = 3
  MaxCrashes = 1
  StoreFaults = TRUE
SYMMETRY ThreadSymmetry
CHECK_DEADLOCK FALSE
INVARIANTS
  AttestationForOneDocument
