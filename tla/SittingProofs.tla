--------------------------- MODULE SittingProofs ---------------------------
(***************************************************************************)
(* Theorems about Sitting, for every set of exams, students, booklets and  *)
(* threads, with or without store faults and crashes.                      *)
(***************************************************************************)
EXTENDS Sitting, TLAPS

-----------------------------------------------------------------------------
(* Lemmas about the operators the handlers are built from.                  *)

\* The length of a sitting is None or a natural number, whenever it begins.
LEMMA SessionTicksType ==
  ASSUME NEW row \in ExamRows, NEW at \in Nat
  PROVE  SessionTicks(row, at) \in Nat \cup {None}
<1>1. row \in ExamRow
  BY ExamRowsAssumption
<1>2. row.timed \in BOOLEAN /\ row.duration \in Nat /\ row.closes \in Nat \cup {None}
  BY <1>1 DEF ExamRow
<1>3. \A n \in Int : AtLeastFloor(n) \in Nat
  BY MinSittingAssumption DEF AtLeastFloor
<1>4. CASE row.closes = None
  BY <1>2, <1>3, <1>4 DEF SessionTicks
<1>5. CASE row.closes # None
  <2>1. row.closes - at \in Int
    BY <1>2, <1>5
  <2>2. AtLeastFloor(row.duration) \in Nat /\ AtLeastFloor(row.closes - at) \in Nat
    BY <1>2, <1>3, <2>1
  <2> QED
    BY <1>5, <2>2 DEF SessionTicks
<1> QED
  BY <1>4, <1>5

\* A seal request names the exam and the student its uuid was minted for.
LEMMA SealRequestOwner ==
  ASSUME NEW r \in SealRequests
  PROVE  /\ r.uuid \in Uuids
         /\ <<r.exam, r.student>> = Owner[r.uuid]
         /\ r.exam \in Exams /\ r.student \in Students
<1>1. PICK u \in Uuids :
        r = [kind |-> "seal", exam |-> Owner[u][1], student |-> Owner[u][2],
             uuid |-> u, patch |-> None]
  BY DEF SealRequests
<1>2. Owner[u] \in Exams \X Students
  BY <1>1, OwnerAssumption
<1> QED
  BY <1>1, <1>2

\* A request is first taken to a read of its own handler.
LEMMA FirstCallOfRequest ==
  ASSUME NEW r \in Requests
  PROVE  /\ FirstCall[r.kind] \in Points \ (RowPoints \cup {"idle"})
         /\ FirstCall[r.kind] \notin {"seal_check", "seal_insert", "seal_drop", "draft_purge"}
         /\ FirstCall[r.kind] \in StudentPoints => r \in StudentRequests
         /\ FirstCall[r.kind] \in SealPoints => r \in SealRequests
         /\ FirstCall[r.kind] \in PatchPoints => r \in PatchRequests
         /\ FirstCall[r.kind] \in DeletePoints => r \in DeleteRequests
         /\ <<r.exam, r.student>> \in Sittings \/ r.kind \in {"patch", "delete"}
<1> USE DEF FirstCall, Points, RowPoints, StudentPoints, SealPoints, PatchPoints, DeletePoints
<1>1. CASE r \in StudentRequests
  <2>1. /\ r.kind \in {"launch", "dashboard", "getdraft", "putdraft", "scan", "override"}
        /\ r.exam \in Exams /\ r.student \in Students
    BY <1>1 DEF StudentRequests
  <2> QED
    BY <1>1, <2>1 DEF Sittings
<1>2. CASE r \in SealRequests
  <2>1. r.kind = "seal"
    BY <1>2 DEF SealRequests
  <2> QED
    BY <1>2, <2>1, SealRequestOwner DEF Sittings
<1>3. CASE r \in PatchRequests
  BY <1>3 DEF PatchRequests
<1>4. CASE r \in DeleteRequests
  BY <1>4 DEF DeleteRequests
<1> QED
  BY <1>1, <1>2, <1>3, <1>4 DEF Requests
-----------------------------------------------------------------------------
(* Type correctness.                                                        *)

\* The part of TypeOK that is about the threads.
ThreadsOK ==
  /\ pc \in [Threads -> Points]
  /\ req \in [Threads -> Requests \cup {NoRequest}]
  /\ loc \in [Threads -> Locals]
  /\ FramesOK

LEMMA NoLocalsType == NoLocals \in Locals
  BY DEF NoLocals, Locals

\* A reply leaves the thread idle with an empty frame.
LEMMA ReplyKeepsThreads ==
  ASSUME ThreadsOK, NEW t \in Threads, Reply(t)
  PROVE  ThreadsOK'
<1>1. "idle" \in
        Points \ (RowPoints \cup StudentPoints \cup SealPoints \cup PatchPoints \cup DeletePoints)
  BY DEF Points, RowPoints, StudentPoints, SealPoints, PatchPoints, DeletePoints
<1>2. /\ pc' \in [Threads -> Points]
      /\ req' \in [Threads -> Requests \cup {NoRequest}]
      /\ loc' \in [Threads -> Locals]
  BY <1>1, NoLocalsType DEF ThreadsOK, Reply
<1>3. \A s \in Threads : s # t => pc'[s] = pc[s] /\ req'[s] = req[s] /\ loc'[s] = loc[s]
  BY DEF ThreadsOK, Reply
<1>4. pc'[t] = "idle"
  BY DEF ThreadsOK, Reply
<1>5. FramesOK'
  BY <1>1, <1>3, <1>4 DEF ThreadsOK, FramesOK
<1> QED
  BY <1>2, <1>5 DEF ThreadsOK

\* Going on to another call of the same handler keeps the frames right.
LEMMA GotoKeepsThreads ==
  ASSUME ThreadsOK, NEW t \in Threads, NEW p \in Points, Goto(t, p), req' = req,
         loc' \in [Threads -> Locals],
         \A s \in Threads : s # t => loc'[s] = loc[s],
         p \in StudentPoints => req[t] \in StudentRequests,
         p \in SealPoints => req[t] \in SealRequests,
         p \in PatchPoints => req[t] \in PatchRequests,
         p \in DeletePoints => req[t] \in DeleteRequests,
         p \in RowPoints => loc'[t].row # None
  PROVE  ThreadsOK'
<1>1. pc' \in [Threads -> Points] /\ pc'[t] = p
  BY DEF ThreadsOK, Goto
<1>2. \A s \in Threads : s # t => pc'[s] = pc[s] /\ req'[s] = req[s] /\ loc'[s] = loc[s]
  BY DEF ThreadsOK, Goto
<1>3. FramesOK'
  BY <1>1, <1>2 DEF ThreadsOK, FramesOK
<1> QED
  BY <1>1, <1>3 DEF ThreadsOK

\* What a handler's step may change: everything but the clock and the counters.
HandledOK ==
  /\ exam \in [Exams -> ExamRows \cup {None}]
  /\ session \in [Sittings -> Nat \cup {None}]
  /\ draft \in [Sittings -> BOOLEAN]
  /\ sub \in [Uuids -> Submission \cup {None}]
  /\ cleared \subseteq Sittings
  /\ enrolled \subseteq Courses \X Students
  /\ lock \in Threads \cup {None}
  /\ acked \subseteq Uuids /\ turnedAway \subseteq Uuids
  /\ ThreadsOK

Families == {StudentPoints, SealPoints, PatchPoints, DeletePoints}

LEMMA FamiliesDisjoint ==
  /\ \A F, G \in Families : F # G => F \cap G = {}
  /\ \A F \in Families : F \subseteq Points /\ "idle" \notin F
BY DEF Families, Points, StudentPoints, SealPoints, PatchPoints, DeletePoints

\* Every handler's request names an exam; a student's, also a sitting.
LEMMA RequestOfHandler ==
  ASSUME ThreadsOK, NEW t \in Threads
  PROVE  /\ pc[t] \in StudentPoints \cup SealPoints =>
              Key(t) \in Sittings /\ req[t].exam \in Exams /\ req[t].student \in Students
         /\ pc[t] \in SealPoints => req[t].uuid \in Uuids /\ Key(t) = Owner[req[t].uuid]
         /\ pc[t] \in PatchPoints => req[t].exam \in Exams /\ req[t].patch \in Patches
         /\ pc[t] \in DeletePoints => req[t].exam \in Exams
<1>1. ASSUME pc[t] \in StudentPoints
      PROVE  req[t].exam \in Exams /\ req[t].student \in Students
  BY <1>1 DEF ThreadsOK, FramesOK, StudentRequests
<1>2. ASSUME pc[t] \in SealPoints
      PROVE  /\ req[t].uuid \in Uuids /\ Key(t) = Owner[req[t].uuid]
             /\ req[t].exam \in Exams /\ req[t].student \in Students
  BY <1>2, SealRequestOwner DEF ThreadsOK, FramesOK, Key
<1>3. ASSUME pc[t] \in PatchPoints
      PROVE  req[t].exam \in Exams /\ req[t].patch \in Patches
  BY <1>3 DEF ThreadsOK, FramesOK, PatchRequests
<1>4. ASSUME pc[t] \in DeletePoints
      PROVE  req[t].exam \in Exams
  BY <1>4 DEF ThreadsOK, FramesOK, DeleteRequests
<1> QED
  BY <1>1, <1>2, <1>3, <1>4 DEF Key, Sittings

\* A read returns what the table holds, or None.
LEMMA ReadsTyped ==
  ASSUME HandledOK
  PROVE  /\ \A e \in Exams : GetExam(e) \subseteq ExamRows \cup {None}
         /\ \A k \in Sittings : GetSession(k) \subseteq Nat \cup {None}
BY DEF HandledOK, GetExam, GetSession, FailOpen

LEMMA ReplyOnlyKeeps ==
  ASSUME HandledOK, NEW t \in Threads, ReplyOnly(t)
  PROVE  HandledOK'
<1>1. ThreadsOK'
  BY ReplyKeepsThreads DEF HandledOK, ReplyOnly
<1> QED
  BY <1>1 DEF HandledOK, ReplyOnly, tables, replies

\* A reading step goes to another call of the same handler.
LEMMA ProceedKeeps ==
  ASSUME HandledOK, NEW t \in Threads, NEW F \in Families, pc[t] \in F,
         NEW p \in F, Proceed(t, p),
         loc' \in [Threads -> Locals],
         \A s \in Threads : s # t => loc'[s] = loc[s],
         p \in RowPoints => loc'[t].row # None
  PROVE  HandledOK'
<1>1. /\ p \in Points
      /\ p \in StudentPoints => req[t] \in StudentRequests
      /\ p \in SealPoints => req[t] \in SealRequests
      /\ p \in PatchPoints => req[t] \in PatchRequests
      /\ p \in DeletePoints => req[t] \in DeleteRequests
  BY FamiliesDisjoint DEF Families, HandledOK, ThreadsOK, FramesOK
<1>2. ThreadsOK'
  BY <1>1, GotoKeepsThreads DEF HandledOK, Proceed
<1> QED
  BY <1>2 DEF HandledOK, Proceed, tables, replies

\* Assigning handler locals keeps them locals.
LEMMA LocalsKept ==
  ASSUME loc \in [Threads -> Locals], NEW t \in Threads
  PROVE  /\ \A row \in ExamRows \cup {None} :
              [loc EXCEPT ![t].row = row] \in [Threads -> Locals]
         /\ \A ticks \in Nat \cup {None} :
              [loc EXCEPT ![t].ticks = ticks] \in [Threads -> Locals]
         /\ \A late \in BOOLEAN :
              [loc EXCEPT ![t].late = late] \in [Threads -> Locals]
BY DEF Locals

\* A step of a handler in family F that leaves its locals alone.
LEMMA PassesOn ==
  ASSUME HandledOK, NEW t \in Threads, NEW F \in Families, pc[t] \in F,
         NEW p \in F, Proceed(t, p), UNCHANGED loc,
         p \in RowPoints => loc[t].row # None
  PROVE  HandledOK'
BY ProceedKeeps DEF HandledOK, ThreadsOK

LEMMA LaunchStepTyped ==
  ASSUME HandledOK, now \in Nat, NEW t \in Threads, LaunchStep(t)
  PROVE  HandledOK'
<1> USE DEF Families, StudentPoints, RowPoints
<1>1. pc[t] \in StudentPoints => Key(t) \in Sittings /\ req[t].exam \in Exams
  BY RequestOfHandler DEF HandledOK
<1>2. pc[t] \in RowPoints => loc[t].row # None /\ loc[t].row \in ExamRows
  BY DEF HandledOK, ThreadsOK, FramesOK, Locals
<1>3. CASE LaunchExam(t)
  <2>1. PICK row \in GetExam(req[t].exam) :
          IF row = None THEN ReplyOnly(t)
          ELSE loc' = [loc EXCEPT ![t].row = row] /\ Proceed(t, "launch_submitted")
    BY <1>3 DEF LaunchExam
  <2>2. row \in ExamRows \cup {None} /\ pc[t] = "launch_exam"
    BY <1>1, <1>3, ReadsTyped DEF LaunchExam
  <2>3. CASE row = None
    BY <2>1, <2>3, ReplyOnlyKeeps
  <2>4. CASE row # None
    <3>1. /\ loc' \in [Threads -> Locals] /\ loc'[t].row = row
          /\ \A s \in Threads : s # t => loc'[s] = loc[s]
      BY SMTT(30), <2>1, <2>2, <2>4 DEF HandledOK, ThreadsOK, Locals
    <3> QED
      BY <2>1, <2>2, <2>4, <3>1, ProceedKeeps
  <2> QED
    BY <2>3, <2>4
<1>4. CASE LaunchSubmitted(t)
  BY <1>2, <1>4, ReplyOnlyKeeps, PassesOn DEF LaunchSubmitted
<1>5. CASE LaunchVisible(t)
  BY <1>2, <1>5, ReplyOnlyKeeps, PassesOn DEF LaunchVisible
<1>6. CASE LaunchResume(t)
  BY <1>2, <1>6, ReplyOnlyKeeps, PassesOn DEF LaunchResume
<1>7. CASE LaunchPhone(t)
  BY <1>2, <1>7, PassesOn DEF LaunchPhone
<1>8. CASE LaunchCleared(t)
  BY <1>2, <1>8, ReplyOnlyKeeps, PassesOn DEF LaunchCleared
<1>9. CASE LaunchTicks(t)
  <2>1. SessionTicks(loc[t].row, now) \in Nat \cup {None}
    BY <1>2, <1>9, SessionTicksType DEF LaunchTicks
  <2>2. /\ loc' \in [Threads -> Locals]
        /\ \A s \in Threads : s # t => loc'[s] = loc[s]
    BY <1>9, <2>1, LocalsKept DEF LaunchTicks, HandledOK, ThreadsOK
  <2> QED
    BY <1>9, <2>2, ProceedKeeps DEF LaunchTicks
<1>10. CASE Pin(t)
  <2>1. loc[t].ticks \in Nat \cup {None}
    BY DEF HandledOK, ThreadsOK, Locals
  <2>2. session' \in [Sittings -> Nat \cup {None}]
    BY <1>10, <2>1 DEF Pin, GetOrCreateSession, HandledOK
  <2>3. ThreadsOK'
    BY <1>10, ReplyKeepsThreads DEF Pin, HandledOK
  <2> QED
    BY <1>10, <2>2, <2>3 DEF Pin, HandledOK, replies
<1> QED
  BY <1>3, <1>4, <1>5, <1>6, <1>7, <1>8, <1>9, <1>10 DEF LaunchStep

LEMMA DashStepTyped ==
  ASSUME HandledOK, NEW t \in Threads, DashStep(t)
  PROVE  HandledOK'
<1> USE DEF Families, StudentPoints, RowPoints
<1>1. pc[t] \in StudentPoints => req[t].exam \in Exams
  BY RequestOfHandler DEF HandledOK
<1>2. pc[t] \in RowPoints => loc[t].row # None
  BY DEF HandledOK, ThreadsOK, FramesOK
<1>3. CASE DashExam(t)
  <2>1. PICK row \in GetExam(req[t].exam) :
          \/ ReplyOnly(t)
          \/ /\ row # None
             /\ loc' = [loc EXCEPT ![t].row = row,
                                  ![t].ticks = SessionTicks(row, loc[t].asked)]
             /\ Proceed(t, "dash_visible")
    BY <1>3 DEF DashExam
  <2>2. row \in ExamRows \cup {None} /\ pc[t] = "dash_exam" /\ loc[t].asked \in Nat
    BY <1>1, <1>3, ReadsTyped DEF DashExam, HandledOK, ThreadsOK, Locals
  <2>3. CASE ReplyOnly(t)
    BY <2>3, ReplyOnlyKeeps
  <2>4. CASE ~ReplyOnly(t)
    <3>1. SessionTicks(row, loc[t].asked) \in Nat \cup {None}
      BY <2>1, <2>2, <2>4, SessionTicksType
    <3>2. /\ loc' \in [Threads -> Locals] /\ loc'[t].row = row
          /\ \A s \in Threads : s # t => loc'[s] = loc[s]
      BY SMTT(30), <2>1, <2>2, <2>4, <3>1 DEF HandledOK, ThreadsOK, Locals
    <3> QED
      BY <2>1, <2>2, <2>4, <3>2, ProceedKeeps
  <2> QED
    BY <2>3, <2>4
<1>4. CASE DashVisible(t)
  BY <1>2, <1>4, ReplyOnlyKeeps, PassesOn DEF DashVisible
<1>5. CASE DashSubmitted(t)
  BY <1>2, <1>5, ReplyOnlyKeeps, PassesOn DEF DashSubmitted
<1>6. CASE DashSession(t)
  BY <1>2, <1>6, ReplyOnlyKeeps, PassesOn DEF DashSession
<1>7. CASE DashCleared(t)
  BY <1>7, ReplyOnlyKeeps, PassesOn DEF DashCleared
<1> QED
  BY <1>3, <1>4, <1>5, <1>6, <1>7 DEF DashStep

LEMMA DraftStepTyped ==
  ASSUME HandledOK, NEW t \in Threads, DraftStep(t)
  PROVE  HandledOK'
<1> USE DEF Families, StudentPoints, RowPoints
<1>1. CASE DraftExam(t)
  BY <1>1, ReplyOnlyKeeps, PassesOn DEF DraftExam
<1>2. CASE DraftSubmitted(t)
  BY <1>2, PassesOn DEF DraftSubmitted
<1>3. CASE DraftPurge(t) \/ DraftWrite(t)
  <2>1. draft' \in [Sittings -> BOOLEAN]
    BY <1>3 DEF DraftPurge, DraftWrite, DeleteDraft, PutDraft, HandledOK
  <2>2. ThreadsOK'
    BY <1>3, ReplyKeepsThreads DEF DraftPurge, DraftWrite, HandledOK
  <2> QED
    BY <1>3, <2>1, <2>2 DEF DraftPurge, DraftWrite, HandledOK, replies
<1>4. CASE DraftRead(t)
  BY <1>4, ReplyOnlyKeeps DEF DraftRead
<1> QED
  BY <1>1, <1>2, <1>3, <1>4 DEF DraftStep

LEMMA ParkStepTyped ==
  ASSUME HandledOK, NEW t \in Threads, ParkStep(t)
  PROVE  HandledOK'
<1> USE DEF Families, StudentPoints, RowPoints
<1>1. CASE ParkExam(t)
  BY <1>1, ReplyOnlyKeeps, PassesOn DEF ParkExam
<1>2. CASE ParkWrite(t)
  <2>1. cleared' \subseteq Sittings
    BY <1>2, RequestOfHandler DEF ParkWrite, PutPhonePark, HandledOK
  <2>2. ThreadsOK'
    BY <1>2, ReplyKeepsThreads DEF ParkWrite, HandledOK
  <2> QED
    BY <1>2, <2>1, <2>2 DEF ParkWrite, HandledOK, replies
<1> QED
  BY <1>1, <1>2 DEF ParkStep

LEMMA SealStepTyped ==
  ASSUME HandledOK, now \in Nat, NEW t \in Threads, SealStep(t)
  PROVE  HandledOK'
<1> USE DEF Families, SealPoints, RowPoints
<1>1. pc[t] \in SealPoints =>
        /\ req[t].exam \in Exams /\ req[t].uuid \in Uuids /\ Key(t) \in Sittings
  BY RequestOfHandler DEF HandledOK
<1>2. pc[t] \in RowPoints => loc[t].row # None
  BY DEF HandledOK, ThreadsOK, FramesOK
<1>3. CASE SealExam(t)
  <2>1. PICK row \in GetExam(req[t].exam) : loc' = [loc EXCEPT ![t].row = row]
    BY <1>3 DEF SealExam
  <2>2. row \in ExamRows \cup {None}
    BY <1>1, <1>3, ReadsTyped DEF SealExam
  <2>3. /\ loc' \in [Threads -> Locals]
        /\ \A s \in Threads : s # t => loc'[s] = loc[s]
    BY SMTT(30), <2>1, <2>2 DEF HandledOK, ThreadsOK, Locals
  <2> QED
    BY <1>3, <2>3, ProceedKeeps DEF SealExam
<1>4. CASE SealReplay(t)
  BY <1>4, PassesOn DEF SealReplay, OneSitting
<1>5. CASE SealSession(t)
  BY <1>2, <1>5, PassesOn DEF SealSession
<1>6. CASE SealState(t)
  <2>1. CASE ReplyOnly(t)
    BY <2>1, ReplyOnlyKeeps
  <2>2. CASE ~ReplyOnly(t)
    <3>1. /\ loc' = [loc EXCEPT ![t].late = (ExamState(loc[t].row, now) = "closed")]
          /\ Proceed(t, "seal_cap")
      BY <1>6, <2>2 DEF SealState
    <3>2. /\ loc' \in [Threads -> Locals]
          /\ \A s \in Threads : s # t => loc'[s] = loc[s]
      BY <3>1, LocalsKept DEF HandledOK, ThreadsOK
    <3> QED
      BY <1>6, <3>1, <3>2, ProceedKeeps DEF SealState
  <2> QED
    BY <2>1, <2>2
<1>7. CASE SealCap(t)
  BY <1>7, ReplyOnlyKeeps, PassesOn DEF SealCap
<1>8. CASE SealLate(t)
  <2>1. PICK late \in BOOLEAN : loc' = [loc EXCEPT ![t].late = late]
    BY <1>8 DEF SealLate, HandledOK, ThreadsOK, Locals
  <2>2. /\ loc' \in [Threads -> Locals]
        /\ \A s \in Threads : s # t => loc'[s] = loc[s]
    BY <2>1, LocalsKept DEF HandledOK, ThreadsOK
  <2>3. loc'[t].row = loc[t].row
    BY <2>1 DEF HandledOK, ThreadsOK, Locals
  <2> QED
    BY <1>8, <2>2, <2>3, ProceedKeeps DEF SealLate, OneSitting
<1>9. CASE SealLock(t)
  <2>1. ThreadsOK'
    BY <1>9, GotoKeepsThreads DEF SealLock, HandledOK, ThreadsOK, FramesOK, Points,
       StudentPoints, PatchPoints, DeletePoints
  <2> QED
    BY <1>9, <2>1 DEF SealLock, HandledOK, tables, replies
<1>10. CASE SealCheck(t)
  <2>1. CASE SealedFor(Key(t))
    <3>1. ThreadsOK'
      BY <1>10, <2>1, ReplyKeepsThreads DEF SealCheck, HandledOK
    <3> QED
      BY <1>1, <1>10, <2>1, <3>1 DEF SealCheck, Release, HandledOK, tables
  <2>2. CASE ~SealedFor(Key(t))
    BY <1>10, <2>2, PassesOn DEF SealCheck
  <2> QED
    BY <2>1, <2>2
<1>11. CASE SealInsert(t)
  <2>1. sub' \in [Uuids -> Submission \cup {None}]
    <3>1. /\ loc[t].late \in BOOLEAN /\ loc[t].asked \in Nat
          /\ loc[t].held \in Nat \cup {None}
      BY DEF HandledOK, ThreadsOK, Locals
    <3>2. [one |-> OneSitting(t), late |-> loc[t].late, asked |-> loc[t].asked,
           held |-> loc[t].held, at |-> now] \in Submission
      BY <3>1 DEF Submission, OneSitting
    <3> QED
      BY <1>11, <3>2 DEF SealInsert, PutSubmission, HandledOK
  <2>2. ThreadsOK'
    <3>1. CASE Goto(t, "seal_drop") /\ UNCHANGED <<req, loc>>
      BY <1>11, <3>1, GotoKeepsThreads DEF SealInsert, HandledOK, ThreadsOK, FramesOK,
         Points, StudentPoints, PatchPoints, DeletePoints
    <3>2. CASE Reply(t)
      BY <3>2, ReplyKeepsThreads DEF HandledOK
    <3> QED
      BY <1>11, <3>1, <3>2 DEF SealInsert
  <2> QED
    BY <1>11, <2>1, <2>2 DEF SealInsert, Release, HandledOK, replies
<1>12. CASE SealConflict(t)
  <2>1. ThreadsOK'
    BY <1>12, ReplyKeepsThreads DEF SealConflict, HandledOK
  <2> QED
    BY <1>1, <1>12, <2>1 DEF SealConflict, Release, HandledOK, tables
<1>13. CASE SealDrop(t)
  <2>1. ThreadsOK'
    BY <1>13, ReplyKeepsThreads DEF SealDrop, HandledOK
  <2>2. draft' \in [Sittings -> BOOLEAN]
    BY <1>13 DEF SealDrop, DeleteDraft, HandledOK
  <2> QED
    BY <1>1, <1>13, <2>1, <2>2 DEF SealDrop, HandledOK
<1> QED
  BY <1>3, <1>4, <1>5, <1>6, <1>7, <1>8, <1>9, <1>10, <1>11, <1>12, <1>13 DEF SealStep

LEMMA TeacherStepTyped ==
  ASSUME HandledOK, NEW t \in Threads, TeacherStep(t)
  PROVE  HandledOK'
<1> USE DEF Families, PatchPoints, DeletePoints, RowPoints
<1>1. /\ pc[t] \in PatchPoints => req[t].exam \in Exams /\ req[t].patch \in Patches
      /\ pc[t] \in DeletePoints => req[t].exam \in Exams
  BY RequestOfHandler DEF HandledOK
<1>2. CASE PatchExam(t)
  <2>1. PICK row \in GetExam(req[t].exam) :
          IF row = None THEN ReplyOnly(t)
          ELSE loc' = [loc EXCEPT ![t].row = row] /\ Proceed(t, "patch_write")
    BY <1>2 DEF PatchExam
  <2>2. row \in ExamRows \cup {None}
    BY <1>1, <1>2, ReadsTyped DEF PatchExam
  <2>3. CASE row = None
    BY <2>1, <2>3, ReplyOnlyKeeps
  <2>4. CASE row # None
    <3>1. /\ loc' \in [Threads -> Locals] /\ loc'[t].row = row
          /\ \A s \in Threads : s # t => loc'[s] = loc[s]
      BY <2>1, <2>2, <2>4 DEF HandledOK, ThreadsOK, Locals
    <3> QED
      BY <1>2, <2>1, <2>4, <3>1, ProceedKeeps DEF PatchExam
  <2> QED
    BY <2>3, <2>4
<1>3. CASE PatchWrite(t)
  <2>1. loc[t].row \in ExamRows /\ req[t].patch \in Patches
    BY <1>1, <1>3 DEF PatchWrite, HandledOK, ThreadsOK, FramesOK, Locals
  <2>2. Patched(loc[t].row, req[t].patch) \in ExamRows
    BY <2>1, PatchesAssumption
  <2>3. exam' \in [Exams -> ExamRows \cup {None}]
    BY <1>3, <2>2 DEF PatchWrite, PutExam, HandledOK
  <2>4. ThreadsOK'
    BY <1>3, ReplyKeepsThreads DEF PatchWrite, HandledOK
  <2> QED
    BY <1>3, <2>3, <2>4 DEF PatchWrite, HandledOK, replies
<1>4. CASE DeleteRead(t)
  BY <1>4, ReplyOnlyKeeps, PassesOn DEF DeleteRead
<1>5. CASE DeleteList(t)
  BY <1>5, ReplyOnlyKeeps, PassesOn DEF DeleteList
<1>6. CASE DeleteWrite(t)
  <2>1. /\ exam' \in [Exams -> ExamRows \cup {None}]
        /\ session' \in [Sittings -> Nat \cup {None}]
        /\ draft' \in [Sittings -> BOOLEAN]
        /\ cleared' \subseteq Sittings
    BY <1>6 DEF DeleteWrite, DeleteExam, HandledOK
  <2>2. ThreadsOK'
    BY <1>6, ReplyKeepsThreads DEF DeleteWrite, HandledOK
  <2> QED
    BY <1>6, <2>1, <2>2 DEF DeleteWrite, HandledOK, replies
<1> QED
  BY <1>2, <1>3, <1>4, <1>5, <1>6 DEF TeacherStep

LEMMA HandledIsPartOfTypeOK == TypeOK => HandledOK
  BY DEF TypeOK, StoreTypeOK, HandledOK, ThreadsOK

LEMMA StepTyped ==
  ASSUME TypeOK, NEW t \in Threads, Step(t)
  PROVE  TypeOK'
<1>1. HandledOK /\ now \in Nat
  BY HandledIsPartOfTypeOK DEF TypeOK, StoreTypeOK
<1>2. HandledOK'
  <2>1. CASE HandlerStep(t)
    BY <1>1, <2>1, LaunchStepTyped, DashStepTyped, DraftStepTyped, ParkStepTyped,
       SealStepTyped, TeacherStepTyped DEF HandlerStep
  <2>2. CASE StoreRaises(t)
    <3>1. ThreadsOK'
      BY <1>1, <2>2, ReplyKeepsThreads DEF StoreRaises, HandledOK
    <3> QED
      BY <1>1, <2>2, <3>1 DEF StoreRaises, Release, HandledOK, tables, replies
  <2> QED
    BY <2>1, <2>2 DEF Step
<1>3. versions' \in [Exams -> SUBSET ExamRows]
  BY <1>2 DEF Step, Recall, TypeOK, HandledOK
<1> QED
  BY <1>2, <1>3 DEF Step, bounds, TypeOK, StoreTypeOK, HandledOK, ThreadsOK

LEMMA BeginTyped ==
  ASSUME TypeOK, NEW t \in Threads, NEW r \in Requests, Begin(t, r)
  PROVE  TypeOK'
<1> DEFINE p == FirstCall[r.kind]
           held == session[<<r.exam, r.student>>]
<1>1. ThreadsOK
  BY HandledIsPartOfTypeOK DEF HandledOK
<1>2. /\ p \in Points \ (RowPoints \cup {"idle"})
      /\ p \in StudentPoints => r \in StudentRequests
      /\ p \in SealPoints => r \in SealRequests
      /\ p \in PatchPoints => r \in PatchRequests
      /\ p \in DeletePoints => r \in DeleteRequests
      /\ <<r.exam, r.student>> \in Sittings \/ r.kind \in {"patch", "delete"}
  BY FirstCallOfRequest
<1>3. r.kind \in {"seal", "dashboard"} => held \in Nat \cup {None}
  BY <1>2 DEF TypeOK, StoreTypeOK
<1>4. [NoLocals EXCEPT !.asked = now, !.held = held] \in Locals
      \/ r.kind \notin {"seal", "dashboard"}
  BY <1>3 DEF TypeOK, StoreTypeOK, NoLocals, Locals
<1>5. /\ pc' \in [Threads -> Points] /\ pc'[t] = p
      /\ req' \in [Threads -> Requests \cup {NoRequest}] /\ req'[t] = r
      /\ loc' \in [Threads -> Locals]
  BY <1>1, <1>2, <1>4, NoLocalsType DEF Begin, Goto, ThreadsOK
<1>6. \A s \in Threads : s # t => pc'[s] = pc[s] /\ req'[s] = req[s] /\ loc'[s] = loc[s]
  BY <1>1 DEF Begin, Goto, ThreadsOK
<1>7. FramesOK'
  BY <1>1, <1>2, <1>5, <1>6 DEF ThreadsOK, FramesOK
<1> QED
  BY <1>5, <1>7 DEF Begin, TypeOK, StoreTypeOK, tables, replies

\* The steps of the world around the worker.
LEMMA SurroundingsTyped ==
  ASSUME TypeOK,
         \/ Tick \/ Crash
         \/ \E c \in Courses, s \in Students : ChangeRoster(c, s)
  PROVE  TypeOK'
<1>1. CASE Tick
  BY <1>1 DEF Tick, TypeOK, StoreTypeOK, FramesOK, tables, replies, bounds
<1>2. CASE Crash
  <2>1. "idle" \in Points \ (RowPoints \cup StudentPoints \cup SealPoints
                             \cup PatchPoints \cup DeletePoints)
    BY DEF Points, RowPoints, StudentPoints, SealPoints, PatchPoints, DeletePoints
  <2>2. /\ pc' \in [Threads -> Points]
        /\ req' \in [Threads -> Requests \cup {NoRequest}]
        /\ loc' \in [Threads -> Locals]
    BY <1>2, <2>1, NoLocalsType DEF Crash
  <2>3. FramesOK'
    BY <1>2, <2>1 DEF Crash, FramesOK
  <2> QED
    BY <1>2, <2>2, <2>3 DEF Crash, TypeOK, StoreTypeOK, tables, replies
<1>3. CASE \E c \in Courses, s \in Students : ChangeRoster(c, s)
  BY <1>3 DEF ChangeRoster, TypeOK, StoreTypeOK, FramesOK, replies, bounds
<1> QED
  BY <1>1, <1>2, <1>3

LEMMA InitTyped == Init => TypeOK
<1> SUFFICES ASSUME Init PROVE TypeOK
  OBVIOUS
<1>1. StoreTypeOK
  BY DEF Init, StoreInit, StoreTypeOK
<1>2. "idle" \in Points \ (RowPoints \cup StudentPoints \cup SealPoints
                           \cup PatchPoints \cup DeletePoints)
  BY DEF Points, RowPoints, StudentPoints, SealPoints, PatchPoints, DeletePoints
<1>3. FramesOK
  BY <1>2 DEF Init, FramesOK
<1>4. versions \in [Exams -> SUBSET ExamRows]
  BY DEF Init, StoreInit
<1> QED
  BY <1>1, <1>2, <1>3, <1>4, NoLocalsType DEF Init, TypeOK

LEMMA NextTyped == TypeOK /\ [Next]_vars => TypeOK'
<1> SUFFICES ASSUME TypeOK, [Next]_vars PROVE TypeOK'
  OBVIOUS
<1>1. CASE \E t \in Threads : Step(t)
  BY <1>1, StepTyped
<1>2. CASE \E t \in Threads, r \in Requests : Begin(t, r)
  BY <1>2, BeginTyped
<1>3. CASE \/ Tick \/ Crash
           \/ \E c \in Courses, s \in Students : ChangeRoster(c, s)
  BY <1>3, SurroundingsTyped
<1>4. CASE UNCHANGED vars
  BY <1>4 DEF vars, tables, replies, bounds, TypeOK, StoreTypeOK, FramesOK
<1> QED
  BY <1>1, <1>2, <1>3, <1>4 DEF Next

\* Type correctness: in every reachable state every table, frame and history
\* variable holds a value of its kind, every handler runs on a request of its
\* own kind, and no pinned deadline is negative.
THEOREM TypeCorrect == Spec => []TypeOK
  BY InitTyped, NextTyped, PTL DEF Spec
-----------------------------------------------------------------------------
(* One sitting per student and exam.                                        *)

\* The inductive invariant.  The lock alone does not do: what makes the insert
\* safe is that the absence seen by the check survives until the insert, which
\* holds because only the lock's owner is between the two.
OneSealInv ==
  TypeOK /\ LockDiscipline /\ CheckStillHolds /\ OneSealPerSitting

OthersKept(t) ==
  \A s \in Threads \ {t} : pc'[s] = pc[s] /\ req'[s] = req[s] /\ loc'[s] = loc[s]

\* A step of thread t away from the guarded section, recording nothing.
Elsewhere(t) ==
  /\ ~InsideLock(t) /\ ~InsideLock(t)'
  /\ UNCHANGED <<sub, lock>>
  /\ OthersKept(t)

LEMMA QuietSteps ==
  ASSUME TypeOK, NEW t \in Threads,
         LaunchStep(t) \/ DashStep(t) \/ DraftStep(t) \/ ParkStep(t) \/ TeacherStep(t)
  PROVE  Elsewhere(t)
<1> USE DEF TypeOK, Elsewhere, OthersKept, InsideLock, ReplyOnly, Reply, Proceed, Goto, tables
<1>1. CASE LaunchStep(t)
  BY <1>1 DEF LaunchStep, LaunchExam, LaunchSubmitted, LaunchVisible, LaunchResume,
     LaunchPhone, LaunchCleared, LaunchTicks, Pin
<1>2. CASE DashStep(t)
  BY <1>2 DEF DashStep, DashExam, DashVisible, DashSubmitted, DashSession, DashCleared
<1>3. CASE DraftStep(t)
  BY <1>3 DEF DraftStep, DraftExam, DraftSubmitted, DraftPurge, DraftRead, DraftWrite
<1>4. CASE TeacherStep(t)
  BY <1>4 DEF TeacherStep, PatchExam, PatchWrite, DeleteRead, DeleteList, DeleteWrite
<1>5. CASE ParkStep(t)
  BY <1>5 DEF ParkStep, ParkExam, ParkWrite
<1> QED
  BY <1>1, <1>2, <1>3, <1>4, <1>5

\* The steps of a seal outside the lock, its insert apart.
LEMMA QuietSealSteps ==
  ASSUME TypeOK, NEW t \in Threads,
         \/ SealExam(t) \/ SealReplay(t) \/ SealSession(t) \/ SealState(t)
         \/ SealCap(t) \/ SealLate(t) \/ SealDrop(t)
  PROVE  Elsewhere(t)
<1> USE DEF TypeOK, Elsewhere, OthersKept, InsideLock, ReplyOnly, Reply, Proceed, Goto, tables
<1>1. CASE SealExam(t) \/ SealReplay(t) \/ SealSession(t) \/ SealState(t) \/ SealCap(t)
  BY <1>1 DEF SealExam, SealReplay, SealSession, SealState, SealCap
<1>2. CASE SealLate(t)
  BY <1>2 DEF SealLate, OneSitting, Locals
<1>3. CASE SealDrop(t)
  BY <1>3 DEF SealDrop
<1> QED
  BY <1>1, <1>2, <1>3

LEMMA ElsewhereKeepsOneSeal ==
  ASSUME OneSealInv, NEW t \in Threads, Elsewhere(t)
  PROVE  (LockDiscipline /\ CheckStillHolds /\ OneSealPerSitting)'
<1> USE DEF OneSealInv, Elsewhere, OthersKept
<1>1. \A s \in Threads \ {t} : InsideLock(s)' <=> InsideLock(s)
  BY DEF InsideLock, OneSitting
<1>2. LockDiscipline'
  BY <1>1 DEF LockDiscipline
<1>3. CheckStillHolds'
  BY DEF CheckStillHolds, InsideLock, OneSitting, Key, SealedOneSitting, Sealed
<1>4. OneSealPerSitting'
  BY DEF OneSealPerSitting, SealedOneSitting, Sealed
<1> QED
  BY <1>2, <1>3, <1>4

\* The steps that take, hold or give back the lock, or insert.
LEMMA GuardedStepsKeepOneSeal ==
  ASSUME OneSealInv, NEW t \in Threads,
         \/ SealLock(t) \/ SealCheck(t) \/ SealInsert(t) \/ SealConflict(t)
         \/ StoreRaises(t)
  PROVE  (LockDiscipline /\ CheckStillHolds /\ OneSealPerSitting)'
<1> USE DEF OneSealInv, OthersKept
<1>1. OthersKept(t)
  BY DEF TypeOK, SealLock, SealCheck, SealInsert, SealConflict, StoreRaises,
     Reply, Proceed, Goto
<1>2. \A s \in Threads \ {t} : InsideLock(s)' <=> InsideLock(s)
  BY <1>1 DEF InsideLock, OneSitting
<1>3. t # None
  BY ThreadsAssumption
<1>4. CASE SealLock(t)
  <2>1. UNCHANGED <<sub, loc>> /\ lock' = t /\ pc'[t] = "seal_check" /\ lock = None
    BY <1>4 DEF SealLock, Goto, TypeOK, tables
  <2>2. OneSitting(t) /\ OneSitting(t)'
    BY <1>4, <2>1 DEF TypeOK, FramesOK, SealLock, RowPoints, OneSitting
  <2>3. LockDiscipline'
    <3>1. InsideLock(t)' /\ \A s \in Threads : ~InsideLock(s)
      BY <1>3, <2>1, <2>2, ThreadsAssumption DEF LockDiscipline, InsideLock
    <3> QED
      BY <1>2, <2>1, <3>1 DEF LockDiscipline
  <2>4. CheckStillHolds'
    BY <1>1, <2>1 DEF CheckStillHolds, OneSitting, Key, SealedOneSitting, Sealed
  <2>5. OneSealPerSitting'
    BY <2>1 DEF OneSealPerSitting, SealedOneSitting, Sealed
  <2> QED
    BY <2>3, <2>4, <2>5
<1>5. CASE SealCheck(t) /\ ~SealedFor(Key(t))
  <2>1. UNCHANGED <<sub, loc, req, lock>> /\ pc'[t] = "seal_insert" /\ pc[t] = "seal_check"
    BY <1>5 DEF SealCheck, Proceed, Goto, TypeOK, tables
  <2>2. LockDiscipline'
    BY <1>2, <2>1 DEF LockDiscipline, InsideLock, OneSitting
  <2>3. CheckStillHolds'
    <3>1. \A u \in Uuids : SealedOneSitting(u) => Owner[u] # Key(t)
      BY <1>5 DEF SealedFor, SealedOneSitting, Sealed
    <3> QED
      BY <1>1, <2>1, <3>1 DEF CheckStillHolds, OneSitting, Key, SealedOneSitting, Sealed
  <2>4. OneSealPerSitting'
    BY <2>1 DEF OneSealPerSitting, SealedOneSitting, Sealed
  <2> QED
    BY <2>2, <2>3, <2>4
<1>6. ASSUME Release(t), ~InsideLock(t)'
      PROVE  LockDiscipline'
  <2>1. ASSUME NEW s \in Threads \ {t} PROVE lock' = s <=> lock = s
    BY <1>6, <2>1, ThreadsAssumption DEF Release
  <2>2. lock' # t
    BY <1>3, <1>6 DEF Release
  <2>3. \A s \in Threads \ {t} : lock = s <=> InsideLock(s)
    BY DEF LockDiscipline
  <2> QED
    BY <1>2, <1>6, <2>1, <2>2, <2>3 DEF LockDiscipline
<1>7. CASE \/ SealCheck(t) /\ SealedFor(Key(t))
           \/ SealConflict(t) \/ StoreRaises(t)
  <2>1. UNCHANGED sub /\ pc'[t] = "idle" /\ Release(t)
    BY <1>7 DEF SealCheck, SealConflict, StoreRaises, Reply, TypeOK, tables
  <2>2. CheckStillHolds'
    BY <1>1, <2>1 DEF CheckStillHolds, OneSitting, Key, SealedOneSitting, Sealed
  <2>3. OneSealPerSitting'
    BY <2>1 DEF OneSealPerSitting, SealedOneSitting, Sealed
  <2> QED
    BY <1>6, <2>1, <2>2, <2>3 DEF InsideLock
<1>8. CASE SealInsert(t)
  <2>1. PICK u \in Uuids :
          u = req[t].uuid /\ Key(t) = Owner[u] /\ pc[t] = "seal_insert"
    BY <1>8, RequestOfHandler, HandledIsPartOfTypeOK DEF SealInsert, SealPoints, HandledOK
  <2>2. /\ \A v \in Uuids \ {u} : sub'[v] = sub[v]
        /\ sub'[u] # None => sub'[u].one = OneSitting(t)
    BY <1>8, <2>1 DEF SealInsert, PutSubmission, TypeOK, StoreTypeOK
  <2>3. pc'[t] \in {"seal_drop", "idle"} /\ Release(t)
    BY <1>8, <2>1 DEF SealInsert, Goto, Reply, TypeOK
  <2>4. \A v \in Uuids \ {u} : SealedOneSitting(v)' <=> SealedOneSitting(v)
    BY <2>2 DEF SealedOneSitting, Sealed
  <2>5. SealedOneSitting(u)' => OneSitting(t)
    BY <2>2 DEF SealedOneSitting, Sealed
  <2>6. OneSealPerSitting'
    <3>1. \A v \in Uuids \ {u} :
            SealedOneSitting(u)' /\ SealedOneSitting(v)' => Owner[v] # Owner[u]
      BY <2>1, <2>4, <2>5 DEF CheckStillHolds
    <3> QED
      BY <2>4, <3>1 DEF OneSealPerSitting
  <2>7. CheckStillHolds'
    <3>1. OneSitting(t) => \A s \in Threads \ {t} : ~InsideLock(s)
      BY <2>1 DEF LockDiscipline, InsideLock
    <3>2. ASSUME ~OneSitting(t), NEW v \in Uuids
          PROVE  SealedOneSitting(v)' => SealedOneSitting(v)
      BY <2>4, <2>5, <3>2
    <3> QED
      BY <1>1, <2>3, <3>1, <3>2 DEF CheckStillHolds, InsideLock, OneSitting, Key
  <2> QED
    BY <1>6, <2>3, <2>6, <2>7 DEF InsideLock
<1> QED
  BY <1>4, <1>5, <1>7, <1>8

LEMMA NextKeepsOneSeal == OneSealInv /\ [Next]_vars => OneSealInv'
<1> SUFFICES ASSUME OneSealInv, [Next]_vars PROVE OneSealInv'
  OBVIOUS
<1>1. TypeOK'
  BY NextTyped DEF OneSealInv
<1>2. ASSUME NEW t \in Threads, Step(t)
      PROVE  (LockDiscipline /\ CheckStillHolds /\ OneSealPerSitting)'
  <2>1. \/ LaunchStep(t) \/ DashStep(t) \/ DraftStep(t) \/ ParkStep(t) \/ TeacherStep(t)
        \/ SealStep(t) \/ StoreRaises(t)
    BY <1>2 DEF Step, HandlerStep
  <2>2. \/ Elsewhere(t)
        \/ SealLock(t) \/ SealCheck(t) \/ SealInsert(t) \/ SealConflict(t)
        \/ StoreRaises(t)
    BY <2>1, QuietSteps, QuietSealSteps DEF SealStep, OneSealInv
  <2> QED
    BY <2>2, ElsewhereKeepsOneSeal, GuardedStepsKeepOneSeal
<1>3. ASSUME NEW t \in Threads, NEW r \in Requests, Begin(t, r)
      PROVE  (LockDiscipline /\ CheckStillHolds /\ OneSealPerSitting)'
  <2>1. pc[t] = "idle" /\ pc'[t] \notin {"seal_check", "seal_insert"}
    BY <1>3, FirstCallOfRequest DEF Begin, Goto, OneSealInv, TypeOK
  <2>2. Elsewhere(t)
    BY <1>3, <2>1 DEF Begin, Goto, Elsewhere, OthersKept, InsideLock, OneSealInv, TypeOK, tables
  <2> QED
    BY <2>2, ElsewhereKeepsOneSeal
<1>4. CASE Crash
  <2>1. /\ lock' = None /\ UNCHANGED sub
        /\ \A t \in Threads : pc'[t] = "idle"
    BY <1>4 DEF Crash, tables
  <2>2. LockDiscipline'
    BY <2>1, ThreadsAssumption DEF LockDiscipline, InsideLock
  <2>3. CheckStillHolds'
    BY <2>1 DEF CheckStillHolds
  <2>4. OneSealPerSitting'
    BY <2>1 DEF OneSealInv, OneSealPerSitting, SealedOneSitting, Sealed
  <2> QED
    BY <1>1, <2>2, <2>3, <2>4 DEF OneSealInv
<1>5. CASE UNCHANGED <<sub, lock, pc, req, loc>>
  <2>1. LockDiscipline'
    BY <1>5 DEF OneSealInv, LockDiscipline, InsideLock, OneSitting
  <2>2. CheckStillHolds'
    BY <1>5 DEF OneSealInv, CheckStillHolds, OneSitting, Key, SealedOneSitting, Sealed
  <2>3. OneSealPerSitting'
    BY <1>5 DEF OneSealInv, OneSealPerSitting, SealedOneSitting, Sealed
  <2> QED
    BY <1>1, <2>1, <2>2, <2>3 DEF OneSealInv
<1> QED
  BY <1>1, <1>2, <1>3, <1>4, <1>5 DEF Next, OneSealInv, Tick, ChangeRoster,
     vars, tables

LEMMA InitOneSeal == Init => OneSealInv
  BY InitTyped, ThreadsAssumption DEF Init, StoreInit, OneSealInv, LockDiscipline, InsideLock,
     CheckStillHolds, OneSealPerSitting, SealedOneSitting, Sealed

\* The lock protocol of the seal route: held exactly between check and insert,
\* whatever raises, refuses or crashes on the way.
THEOREM LockIsDisciplined == Spec => []LockDiscipline
  BY InitOneSeal, NextKeepsOneSeal, PTL DEF Spec, OneSealInv

\* The check of "You have already submitted" is still true when the row is
\* inserted: there is no window between check and write.
THEOREM CheckIsNotStale == Spec => []CheckStillHolds
  BY InitOneSeal, NextKeepsOneSeal, PTL DEF Spec, OneSealInv

\* One submission per student per exam under the one-sitting rule, for any
\* number of tabs, threads, retries, deletions, failing calls and restarts.
THEOREM OneSealEver == Spec => []OneSealPerSitting
  BY InitOneSeal, NextKeepsOneSeal, PTL DEF Spec, OneSealInv
-----------------------------------------------------------------------------
(* Answers, drafts and deadlines.                                           *)

\* A thread about to drop a draft has the work of that sitting on record.
DropsAreSafe ==
  \A t \in Threads :
    /\ pc[t] = "seal_drop" => Sealed(req[t].uuid)
    /\ pc[t] = "draft_purge" => SealedFor(Key(t))

\* Inductive: an answer is given from what a read saw, and no submission ever
\* leaves the table.
AnswersInv == TypeOK /\ DropsAreSafe /\ AnswersAreTrue

SealsStay == \A u \in Uuids : Sealed(u) => Sealed(u)'

LEMMA SealsStaySealedFor ==
  ASSUME SealsStay, NEW k
  PROVE  SealedFor(k) => SealedFor(k)'
BY DEF SealsStay, SealedFor, Sealed

\* A step that answers no seal and heads for no drop of a draft.
AnswersNothing(t) ==
  /\ UNCHANGED <<sub, acked, turnedAway>>
  /\ pc'[t] \notin {"seal_drop", "draft_purge"}
  /\ OthersKept(t)

LEMMA SilentSteps ==
  ASSUME TypeOK, NEW t \in Threads, Step(t)
  PROVE  \/ AnswersNothing(t)
         \/ DraftSubmitted(t) \/ SealReplay(t) \/ SealCheck(t) \/ SealInsert(t)
         \/ SealConflict(t) \/ SealDrop(t)
<1> USE DEF TypeOK, AnswersNothing, OthersKept, ReplyOnly, Reply, Proceed, Goto, tables, replies
<1>1. CASE LaunchStep(t)
  BY <1>1 DEF LaunchStep, LaunchExam, LaunchSubmitted, LaunchVisible, LaunchResume,
     LaunchPhone, LaunchCleared, LaunchTicks, Pin
<1>2. CASE DashStep(t)
  BY <1>2 DEF DashStep, DashExam, DashVisible, DashSubmitted, DashSession, DashCleared
<1>3. CASE DraftExam(t) \/ DraftPurge(t) \/ DraftRead(t) \/ DraftWrite(t)
  BY <1>3 DEF DraftExam, DraftPurge, DraftRead, DraftWrite
<1>4. CASE TeacherStep(t)
  BY <1>4 DEF TeacherStep, PatchExam, PatchWrite, DeleteRead, DeleteList, DeleteWrite
<1>5. CASE SealExam(t) \/ SealSession(t) \/ SealState(t) \/ SealCap(t) \/ SealLate(t)
           \/ SealLock(t)
  BY <1>5 DEF SealExam, SealSession, SealState, SealCap, SealLate, SealLock
<1>6. CASE StoreRaises(t)
  BY <1>6 DEF StoreRaises
<1>7. CASE ParkStep(t)
  BY <1>7 DEF ParkStep, ParkExam, ParkWrite
<1> QED
  BY <1>1, <1>2, <1>3, <1>4, <1>5, <1>6, <1>7 DEF Step, HandlerStep, DraftStep, SealStep

\* What the steps that do answer, or head for a drop, have seen.
LEMMA TellingSteps ==
  ASSUME TypeOK, DropsAreSafe, NEW t \in Threads,
         \/ DraftSubmitted(t) \/ SealReplay(t) \/ SealCheck(t) \/ SealInsert(t)
         \/ SealConflict(t) \/ SealDrop(t)
  PROVE  /\ SealsStay
         /\ OthersKept(t)
         /\ pc'[t] = "seal_drop" => Sealed(req[t].uuid)'
         /\ pc'[t] = "draft_purge" => SealedFor(Key(t))'
         /\ \A u \in acked' : u \in acked \/ Sealed(u)'
         /\ \A u \in turnedAway' : u \in turnedAway \/ SealedFor(Owner[u])
<1> USE DEF TypeOK, OthersKept, ReplyOnly, Reply, Proceed, Goto, tables, replies
<1>1. pc[t] \in SealPoints =>
        req[t].uuid \in Uuids /\ Key(t) = Owner[req[t].uuid]
  BY RequestOfHandler, HandledIsPartOfTypeOK DEF HandledOK
<1>2. CASE DraftSubmitted(t)
  BY <1>2 DEF DraftSubmitted, SealsStay, Sealed, SealedFor, Key
<1>3. CASE SealReplay(t)
  <2>1. UNCHANGED <<sub, req, acked, turnedAway>> /\ pc'[t] # "draft_purge"
    BY <1>3 DEF SealReplay
  <2>2. pc'[t] = "seal_drop" => sub[req[t].uuid] # None
    BY <1>3 DEF SealReplay, GetByUuid, FailOpen
  <2> QED
    BY <1>3, <2>1, <2>2 DEF SealReplay, SealsStay, Sealed
<1>4. CASE SealCheck(t)
  <2>1. UNCHANGED <<sub, acked>> /\ pc'[t] \in {"seal_insert", "idle"}
    BY <1>4 DEF SealCheck
  <2>2. \A u \in turnedAway' : u \in turnedAway \/ SealedFor(Owner[u])
    <3>1. Key(t) = Owner[req[t].uuid]
      BY <1>1, <1>4 DEF SealCheck, SealPoints
    <3>2. CASE SealedFor(Key(t))
      <4>1. turnedAway' = turnedAway \cup {req[t].uuid}
        BY <1>4, <3>2 DEF SealCheck
      <4> QED
        BY <3>1, <3>2, <4>1 DEF SealedFor
    <3>3. CASE ~SealedFor(Key(t))
      BY <1>4, <3>3 DEF SealCheck
    <3> QED
      BY <3>2, <3>3
  <2> QED
    BY <1>4, <2>1, <2>2 DEF SealCheck, SealsStay, Sealed, SealedFor
<1>5. CASE SealInsert(t)
  <2> DEFINE row == [one |-> OneSitting(t), late |-> loc[t].late, asked |-> loc[t].asked,
                     held |-> loc[t].held, at |-> now]
  <2>1. sub' = [sub EXCEPT ![req[t].uuid] = row]
    BY <1>5 DEF SealInsert, PutSubmission
  <2>2. row # None
    <3>1. loc[t] \in Locals /\ now \in Nat /\ OneSitting(t) \in BOOLEAN
      BY DEF StoreTypeOK, OneSitting
    <3>2. row \in Submission
      BY <3>1 DEF Submission, Locals
    <3> QED
      BY <3>2, NoRecordAssumption
  <2>3. pc[t] = "seal_insert" /\ pc'[t] \in {"seal_drop", "idle"} /\ UNCHANGED replies
    BY <1>5 DEF SealInsert
  <2>4. pc'[t] = "seal_drop" => req'[t] = req[t]
    BY <1>5 DEF SealInsert
  <2>5. SealsStay /\ sub'[req[t].uuid] # None
    BY <1>1, <2>1, <2>2, <2>3 DEF SealPoints, StoreTypeOK, SealsStay, Sealed
  <2>6. OthersKept(t)
    BY <1>5 DEF SealInsert
  <2> HIDE DEF row
  <2> QED
    BY <2>3, <2>4, <2>5, <2>6 DEF Sealed
<1>6. CASE SealConflict(t)
  BY <1>6 DEF SealConflict, SealsStay, Sealed
<1>7. CASE SealDrop(t)
  BY <1>7 DEF SealDrop, SealsStay, Sealed, DropsAreSafe
<1> QED
  BY <1>2, <1>3, <1>4, <1>5, <1>6, <1>7

\* Answers stay true over any step that keeps the seals and tells nothing new
\* but what is recorded.
LEMMA AnswersStay ==
  ASSUME AnswersInv, SealsStay,
         \A u \in acked' : u \in acked \/ Sealed(u)',
         \A u \in turnedAway' : u \in turnedAway \/ SealedFor(Owner[u])
  PROVE  AnswersAreTrue'
<1>1. ASSUME NEW u \in acked' PROVE Sealed(u)'
  BY <1>1 DEF AnswersInv, AnswersAreTrue, SealsStay, TypeOK
<1>2. ASSUME NEW u \in turnedAway' PROVE SealedFor(Owner[u])'
  <2>1. SealedFor(Owner[u])
    BY <1>2 DEF AnswersInv, AnswersAreTrue
  <2> QED
    BY <2>1, SealsStaySealedFor
<1> QED
  BY <1>1, <1>2 DEF AnswersAreTrue

\* So do the drops of the threads that did not move.
LEMMA DropsStaySafe ==
  ASSUME AnswersInv, SealsStay, NEW t \in Threads, OthersKept(t),
         pc'[t] = "seal_drop" => Sealed(req[t].uuid)',
         pc'[t] = "draft_purge" => SealedFor(Key(t))'
  PROVE  DropsAreSafe'
<1>1. ASSUME NEW s \in Threads \ {t}, pc'[s] = "seal_drop"
      PROVE  Sealed(req[s].uuid)'
  <2>1. pc[s] = "seal_drop" /\ req'[s] = req[s]
    BY <1>1 DEF OthersKept
  <2>2. req[s].uuid \in Uuids /\ Sealed(req[s].uuid)
    BY <2>1, RequestOfHandler, HandledIsPartOfTypeOK
       DEF AnswersInv, DropsAreSafe, HandledOK, SealPoints
  <2> QED
    BY <2>1, <2>2 DEF SealsStay, Sealed
<1>2. ASSUME NEW s \in Threads \ {t}, pc'[s] = "draft_purge"
      PROVE  SealedFor(Key(s))'
  <2>1. pc[s] = "draft_purge" /\ req'[s] = req[s]
    BY <1>2 DEF OthersKept
  <2>2. SealedFor(Key(s))
    BY <2>1 DEF AnswersInv, DropsAreSafe
  <2> QED
    BY <2>1, <2>2, SealsStaySealedFor DEF Key, SealsStay, SealedFor, Sealed
<1> QED
  BY <1>1, <1>2 DEF DropsAreSafe

LEMMA NextKeepsAnswers == AnswersInv /\ [Next]_vars => AnswersInv'
<1> SUFFICES ASSUME AnswersInv, [Next]_vars PROVE AnswersInv'
  OBVIOUS
<1>1. TypeOK'
  BY NextTyped DEF AnswersInv
<1>2. ASSUME NEW t \in Threads, Step(t)
      PROVE  AnswersAreTrue' /\ DropsAreSafe'
  <2>1. CASE AnswersNothing(t)
    <3>1. SealsStay
      BY <2>1 DEF AnswersNothing, SealsStay, Sealed
    <3> QED
      BY <2>1, <3>1, AnswersStay, DropsStaySafe DEF AnswersNothing
  <2>2. CASE ~AnswersNothing(t)
    <3>1. \/ DraftSubmitted(t) \/ SealReplay(t) \/ SealCheck(t) \/ SealInsert(t)
          \/ SealConflict(t) \/ SealDrop(t)
      BY <1>2, <2>2, SilentSteps DEF AnswersInv
    <3>2. /\ SealsStay /\ OthersKept(t)
          /\ pc'[t] = "seal_drop" => Sealed(req[t].uuid)'
          /\ pc'[t] = "draft_purge" => SealedFor(Key(t))'
          /\ \A u \in acked' : u \in acked \/ Sealed(u)'
          /\ \A u \in turnedAway' : u \in turnedAway \/ SealedFor(Owner[u])
      BY <3>1, TellingSteps DEF AnswersInv
    <3>3. AnswersAreTrue'
      BY <3>2, AnswersStay
    <3>4. DropsAreSafe'
      BY <3>2, DropsStaySafe
    <3> QED
      BY <3>3, <3>4
  <2> QED
    BY <2>1, <2>2
<1>3. ASSUME NEW t \in Threads, NEW r \in Requests, Begin(t, r)
      PROVE  AnswersAreTrue' /\ DropsAreSafe'
  <2>1. pc'[t] = FirstCall[r.kind] /\ UNCHANGED <<sub, acked, turnedAway>> /\ OthersKept(t)
    BY <1>3 DEF Begin, Goto, OthersKept, AnswersInv, TypeOK, tables, replies
  <2>2. FirstCall[r.kind] \notin {"seal_drop", "draft_purge"}
    BY FirstCallOfRequest
  <2>3. SealsStay
    BY <2>1 DEF SealsStay, Sealed
  <2> QED
    BY <2>1, <2>2, <2>3, AnswersStay, DropsStaySafe
<1>4. CASE Crash
  <2>1. UNCHANGED <<sub, acked, turnedAway>> /\ \A t \in Threads : pc'[t] = "idle"
    BY <1>4 DEF Crash, tables, replies
  <2>2. SealsStay
    BY <2>1 DEF SealsStay, Sealed
  <2> QED
    BY <1>1, <2>1, <2>2, AnswersStay DEF DropsAreSafe, AnswersInv
<1>5. CASE UNCHANGED <<sub, acked, turnedAway, pc, req>>
  <2>1. SealsStay
    BY <1>5 DEF SealsStay, Sealed
  <2>2. AnswersAreTrue'
    BY <1>5, <2>1, AnswersStay
  <2>3. DropsAreSafe'
    BY <1>5 DEF DropsAreSafe, AnswersInv, Sealed, SealedFor, Key
  <2> QED
    BY <1>1, <2>2, <2>3 DEF AnswersInv
<1> QED
  BY <1>1, <1>2, <1>3, <1>4, <1>5
     DEF AnswersInv, Next, Tick, ChangeRoster, vars, tables, replies

LEMMA InitAnswers == Init => AnswersInv
  BY InitTyped DEF Init, AnswersInv, DropsAreSafe, AnswersAreTrue

\* Whatever a client was told about a seal -- recorded, or already submitted --
\* is true then and for ever after, also across failing calls and restarts.
THEOREM AnswersEverTrue == Spec => []AnswersAreTrue
  BY InitAnswers, NextKeepsAnswers, PTL DEF Spec, AnswersInv

\* The steps that touch the pinned deadlines or the drafts.
LEMMA OtherStepsKeepTables ==
  ASSUME TypeOK, NEW t \in Threads, Step(t)
  PROVE  /\ session' = session \/ Pin(t) \/ DeleteWrite(t)
         /\ \/ draft' = draft \/ DraftPurge(t) \/ DraftWrite(t) \/ SealDrop(t)
            \/ DeleteWrite(t)
<1> USE DEF ReplyOnly, Proceed, tables
<1>1. CASE LaunchStep(t)
  BY <1>1 DEF LaunchStep, LaunchExam, LaunchSubmitted, LaunchVisible, LaunchResume,
     LaunchPhone, LaunchCleared, LaunchTicks, Pin
<1>2. CASE DashStep(t)
  BY <1>2 DEF DashStep, DashExam, DashVisible, DashSubmitted, DashSession, DashCleared
<1>3. CASE DraftStep(t)
  BY <1>3 DEF DraftStep, DraftExam, DraftSubmitted, DraftPurge, DraftRead, DraftWrite
<1>4. CASE TeacherStep(t)
  BY <1>4 DEF TeacherStep, PatchExam, PatchWrite, DeleteRead, DeleteList
<1>5. CASE SealStep(t)
  BY <1>5 DEF SealStep, SealExam, SealReplay, SealSession, SealState, SealCap, SealLate,
     SealLock, SealCheck, SealInsert, SealConflict, SealDrop
<1>6. CASE StoreRaises(t)
  BY <1>6 DEF StoreRaises
<1>7. CASE ParkStep(t)
  BY <1>7 DEF ParkStep, ParkExam, ParkWrite
<1> QED
  BY <1>1, <1>2, <1>3, <1>4, <1>5, <1>6, <1>7 DEF Step, HandlerStep

\* One step of the deadlines.
LEMMA NextKeepsDeadlines ==
  ASSUME TypeOK, [Next]_vars, NEW k \in Sittings,
         session[k] # None, session'[k] # session[k]
  PROVE  session'[k] = None /\ exam'[k[1]] = None
<1>1. PICK t \in Threads : Step(t)
  BY DEF Next, Begin, Tick, Crash, ChangeRoster, vars, tables
<1>2. CASE Pin(t)
  BY <1>2 DEF Pin, GetOrCreateSession, TypeOK, StoreTypeOK
<1>3. CASE DeleteWrite(t)
  <2>1. k[1] = req[t].exam /\ session'[k] = None
    BY <1>3 DEF DeleteWrite, DeleteExam, TypeOK, StoreTypeOK
  <2>2. k[1] \in Exams
    BY DEF Sittings
  <2> QED
    BY <1>3, <2>1, <2>2 DEF DeleteWrite, DeleteExam, TypeOK, StoreTypeOK
<1> QED
  BY <1>1, <1>2, <1>3, OtherStepsKeepTables

\* A pinned deadline is never moved, by either start route or by a PATCH; it
\* goes only with its exam.
THEOREM DeadlineStaysPinned == Spec => DeadlinePinned
<1>1. TypeOK /\ [Next]_vars =>
        [\A k \in Sittings : session[k] # None /\ session'[k] # session[k]
            => session'[k] = None /\ exam'[k[1]] = None]_vars
  BY NextKeepsDeadlines
<1> QED
  BY <1>1, TypeCorrect, PTL DEF Spec, DeadlinePinned

\* One step of the drafts.
LEMMA NextKeepsDrafts ==
  ASSUME AnswersInv, [Next]_vars, NEW k \in Sittings, draft[k], ~draft'[k]
  PROVE  SealedFor(k) \/ exam'[k[1]] = None
<1> USE DEF AnswersInv
<1>1. PICK t \in Threads : Step(t)
  BY DEF Next, Begin, Tick, Crash, ChangeRoster, vars, tables
<1>2. CASE DraftPurge(t)
  <2>1. k = Key(t)
    BY <1>2 DEF DraftPurge, DeleteDraft, TypeOK, StoreTypeOK
  <2> QED
    BY <1>2, <2>1 DEF DraftPurge, DropsAreSafe
<1>3. CASE DraftWrite(t)
  BY <1>3 DEF DraftWrite, PutDraft, TypeOK, StoreTypeOK
<1>4. CASE SealDrop(t)
  <2>1. k = Key(t)
    BY <1>4 DEF SealDrop, DeleteDraft, TypeOK, StoreTypeOK
  <2>2. /\ req[t].uuid \in Uuids /\ Key(t) = Owner[req[t].uuid]
        /\ Sealed(req[t].uuid)
    BY <1>4, RequestOfHandler, HandledIsPartOfTypeOK
       DEF SealDrop, DropsAreSafe, SealPoints, HandledOK
  <2> QED
    BY <2>1, <2>2 DEF SealedFor, Sealed
<1>5. CASE DeleteWrite(t)
  <2>1. k[1] = req[t].exam /\ k[1] \in Exams
    BY <1>5 DEF DeleteWrite, DeleteExam, TypeOK, StoreTypeOK, Sittings
  <2> QED
    BY <1>5, <2>1 DEF DeleteWrite, DeleteExam, TypeOK, StoreTypeOK
<1> QED
  BY <1>1, <1>2, <1>3, <1>4, <1>5, OtherStepsKeepTables

\* Saved writing is dropped only once a submission of the sitting is on record,
\* or with the exam.
THEOREM DraftEverKept == Spec => DraftKeptUntilSealed
<1>1. AnswersInv /\ [Next]_vars =>
        [\A k \in Sittings :
           draft[k] /\ ~draft'[k] => SealedFor(k) \/ exam'[k[1]] = None]_vars
  BY NextKeepsDrafts
<1> QED
  BY <1>1, InitAnswers, NextKeepsAnswers, PTL DEF Spec, DraftKeptUntilSealed
-----------------------------------------------------------------------------
(* Refinement: the routes implement SittingPromise.                         *)

Work == [u \in Uuids |-> IF sub[u] = None THEN "none"
                         ELSE IF sub[u].one THEN "sitting" ELSE "loose"]

\* What a step does to the abstract state, if anything.
LEMMA AbstractlySilent ==
  ASSUME TypeOK, NEW t \in Threads, Step(t)
  PROVE  \/ UNCHANGED <<session, sub, acked, turnedAway>>
         \/ Pin(t) \/ DeleteWrite(t) \/ SealInsert(t) \/ SealDrop(t) \/ SealConflict(t)
         \/ SealCheck(t)
<1>1. CASE session' # session
  BY <1>1, OtherStepsKeepTables
<1>2. CASE session' = session
  <2>1. CASE AnswersNothing(t)
    BY <1>2, <2>1 DEF AnswersNothing
  <2>2. CASE DraftSubmitted(t) \/ SealReplay(t)
    BY <2>2 DEF DraftSubmitted, SealReplay, Proceed, tables, replies
  <2> QED
    BY <2>1, <2>2, SilentSteps
<1> QED
  BY <1>1, <1>2

LEMMA PinIsPin ==
  ASSUME TypeOK, NEW t \in Threads, Pin(t)
  PROVE  Promise!Pin(Key(t)) \/ UNCHANGED <<session, sub, acked, turnedAway>>
<1>1. Key(t) \in Sittings /\ loc[t].ticks \in Nat \cup {None}
  BY RequestOfHandler, HandledIsPartOfTypeOK
     DEF Pin, StudentPoints, HandledOK, ThreadsOK, Locals
<1>2. CASE loc[t].ticks = None \/ session[Key(t)] # None
  BY <1>1, <1>2 DEF Pin, GetOrCreateSession, TypeOK, StoreTypeOK, replies
<1>3. CASE loc[t].ticks # None /\ session[Key(t)] = None
  <2>1. session' = [session EXCEPT ![Key(t)] = now + loc[t].ticks]
    BY <1>3 DEF Pin, GetOrCreateSession, TypeOK, StoreTypeOK
  <2>2. now + loc[t].ticks \in Nat
    BY <1>1, <1>3 DEF TypeOK, StoreTypeOK
  <2>3. session'[Key(t)] = now + loc[t].ticks
    BY <1>1, <2>1 DEF TypeOK, StoreTypeOK
  <2> QED
    BY <1>3, <2>1, <2>2, <2>3 DEF Pin, Promise!Pin, replies
<1> QED
  BY <1>2, <1>3

LEMMA DeleteForgets ==
  ASSUME TypeOK, NEW t \in Threads, DeleteWrite(t)
  PROVE  Promise!ForgetExam(req[t].exam) /\ req[t].exam \in Exams
<1>1. req[t].exam \in Exams
  BY RequestOfHandler, HandledIsPartOfTypeOK DEF DeleteWrite, DeletePoints, HandledOK
<1> QED
  BY <1>1 DEF DeleteWrite, DeleteExam, Promise!ForgetExam, Sittings, replies

LEMMA InsertRecords ==
  ASSUME OneSealInv, NEW t \in Threads, SealInsert(t)
  PROVE  \E u \in Uuids : Promise!RecordSitting(u) \/ Promise!RecordLoose(u)
<1> USE DEF OneSealInv
<1>1. PICK u \in Uuids : u = req[t].uuid /\ Key(t) = Owner[u]
  BY RequestOfHandler, HandledIsPartOfTypeOK DEF SealInsert, SealPoints, HandledOK
<1> DEFINE row == [one |-> OneSitting(t), late |-> loc[t].late, asked |-> loc[t].asked,
                   held |-> loc[t].held, at |-> now]
<1>2. /\ sub' = [sub EXCEPT ![u] = row] /\ sub[u] = None /\ pc[t] = "seal_insert"
      /\ UNCHANGED <<session, acked, turnedAway>>
  BY <1>1 DEF SealInsert, PutSubmission, replies
<1>3. row # None
  <2>1. loc[t] \in Locals /\ now \in Nat /\ OneSitting(t) \in BOOLEAN
    BY DEF TypeOK, StoreTypeOK, OneSitting
  <2>2. row \in Submission
    BY <2>1 DEF Submission, Locals
  <2> QED
    BY <2>2, NoRecordAssumption
<1>4. CASE OneSitting(t)
  <2>1. Work' = [Work EXCEPT ![u] = "sitting"]
    BY <1>2, <1>3, <1>4 DEF Work, TypeOK, StoreTypeOK
  <2>2. \A v \in Uuids : Owner[v] = Owner[u] => Work[v] # "sitting"
    BY <1>1, <1>2, <1>4 DEF CheckStillHolds, SealedOneSitting, Sealed, Work
  <2>3. Work[u] = "none"
    BY <1>2 DEF Work
  <2>4. Promise!RecordSitting(u)
    BY <1>2, <2>1, <2>2, <2>3 DEF Promise!RecordSitting, Work
  <2> QED
    BY <2>4
<1>5. CASE ~OneSitting(t)
  <2>1. Work' = [Work EXCEPT ![u] = "loose"]
    BY <1>2, <1>3, <1>5 DEF Work, TypeOK, StoreTypeOK
  <2>2. Work[u] = "none"
    BY <1>2 DEF Work
  <2>3. Promise!RecordLoose(u)
    BY <1>2, <2>1, <2>2 DEF Promise!RecordLoose, Work
  <2> QED
    BY <2>3
<1> QED
  BY <1>4, <1>5

\* The steps that answer a seal.
LEMMA AnswersAreAnswers ==
  ASSUME AnswersInv, NEW t \in Threads,
         SealDrop(t) \/ SealConflict(t) \/ SealCheck(t)
  PROVE  \/ \E u \in Uuids : Promise!Confirm(u) \/ Promise!Refuse(u)
         \/ UNCHANGED <<session, sub, acked, turnedAway>>
<1>1. PICK u \in Uuids : u = req[t].uuid /\ Key(t) = Owner[u]
  BY RequestOfHandler, HandledIsPartOfTypeOK
     DEF AnswersInv, SealDrop, SealConflict, SealCheck, SealPoints, HandledOK
<1>2. \A v \in Uuids : Sealed(v) => Promise!Recorded(v)
  BY DEF Sealed, Promise!Recorded
<1>3. CASE SealDrop(t)
  <2>1. Sealed(u)
    BY <1>1, <1>3 DEF SealDrop, AnswersInv, DropsAreSafe
  <2>2. Promise!Confirm(u)
    BY <1>1, <1>2, <1>3, <2>1 DEF SealDrop, Promise!Confirm
  <2> QED
    BY <2>2
<1>4. CASE SealConflict(t)
  <2>1. Sealed(u) /\ UNCHANGED <<session, sub, turnedAway>>
        /\ (acked' = acked \cup {u} \/ acked' = acked)
    BY <1>1, <1>4 DEF SealConflict, Sealed, tables
  <2>2. CASE acked' = acked \cup {u}
    BY <1>2, <2>1, <2>2 DEF Promise!Confirm
  <2>3. CASE acked' = acked
    BY <2>1, <2>3
  <2> QED
    BY <2>1, <2>2, <2>3
<1>5. CASE SealCheck(t) /\ SealedFor(Key(t))
  <2>1. PICK v \in Uuids : Sealed(v) /\ Owner[v] = Owner[u]
    BY <1>1, <1>5 DEF SealedFor, Sealed
  <2>2. Promise!Refuse(u)
    BY <1>1, <1>2, <1>5, <2>1 DEF SealCheck, Promise!Refuse, tables
  <2> QED
    BY <2>2
<1>6. CASE SealCheck(t) /\ ~SealedFor(Key(t))
  BY <1>6 DEF SealCheck, Proceed, tables, replies
<1> QED
  BY <1>3, <1>4, <1>5, <1>6

LEMMA InitKeepsPromise == Init => Promise!Init
  BY DEF Init, StoreInit, Promise!Init, Sittings

LEMMA NextKeepsPromise ==
  OneSealInv /\ AnswersInv /\ [Next]_vars => [Promise!Next]_(Promise!promise)
<1> SUFFICES ASSUME OneSealInv, AnswersInv, [Next]_vars
             PROVE  Promise!Next \/ UNCHANGED <<session, sub, acked, turnedAway>>
  BY DEF Promise!promise
<1>1. ASSUME NEW t \in Threads, Step(t)
      PROVE  Promise!Next \/ UNCHANGED <<session, sub, acked, turnedAway>>
  <2>1. CASE Pin(t)
    <3>1. Key(t) \in Exams \X Students
      BY <2>1, RequestOfHandler, HandledIsPartOfTypeOK
         DEF Pin, StudentPoints, HandledOK, AnswersInv, Sittings
    <3> QED
      BY <2>1, <3>1, PinIsPin DEF Promise!Next, AnswersInv
  <2>2. CASE DeleteWrite(t)
    BY <2>2, DeleteForgets DEF Promise!Next, AnswersInv
  <2>3. CASE SealInsert(t)
    BY <2>3, InsertRecords DEF Promise!Next
  <2>4. CASE SealDrop(t) \/ SealConflict(t) \/ SealCheck(t)
    BY <2>4, AnswersAreAnswers DEF Promise!Next
  <2> QED
    BY <1>1, <2>1, <2>2, <2>3, <2>4, AbstractlySilent DEF AnswersInv
<1>2. CASE ~\E t \in Threads : Step(t)
  BY <1>2 DEF Next, Begin, Tick, Crash, ChangeRoster, vars, tables, replies
<1> QED
  BY <1>1, <1>2

\* The routes implement the abstract record: seen through deadlines, recorded
\* work and answers, each of their behaviours is one SittingPromise allows.
THEOREM RoutesKeepPromise == Spec => KeepsPromise
<1>1. Spec => [](OneSealInv /\ AnswersInv)
  BY InitOneSeal, NextKeepsOneSeal, InitAnswers, NextKeepsAnswers, PTL DEF Spec
<1> QED
  BY <1>1, InitKeepsPromise, NextKeepsPromise, PTL DEF Spec, KeepsPromise, Promise!Spec
============================================================================
