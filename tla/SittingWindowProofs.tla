------------------------ MODULE SittingWindowProofs ------------------------
(***************************************************************************)
(* More theorems about Sitting: what a start or a seal has read of the     *)
(* exam, the phone and the deadline still justifies what it writes, though *)
(* the teacher, the clock and other threads went on meanwhile.             *)
(***************************************************************************)
EXTENDS SittingProofs

-----------------------------------------------------------------------------
(* What is remembered: versions holds every row an exam ever had.           *)

ExamsRemembered == \A e \in Exams : exam[e] # None => exam[e] \in versions[e]

\* A handler's copy of a row is one that was stored, and its reading of the
\* clock lies in the past.
RowsRemembered ==
  \A t \in Threads : loc[t].row # None =>
    req[t].exam \in Exams /\ loc[t].row \in versions[req[t].exam]
AskedBefore == \A t \in Threads : loc[t].asked <= now

MemoryInv == TypeOK /\ ExamsRemembered /\ RowsRemembered /\ AskedBefore

\* Time and history only go forward.
Onward ==
  /\ now <= now'
  /\ \A e \in Exams : versions[e] \subseteq versions'[e]

LEMMA NextIsOnward ==
  ASSUME TypeOK, [Next]_vars
  PROVE  Onward /\ (ExamsRemembered => ExamsRemembered')
<1>1. CASE \E t \in Threads : Step(t)
  <2>1. now' = now /\ Recall
    BY <1>1 DEF Step
  <2>2. TypeOK'
    BY NextTyped
  <2>3. \A e \in Exams : versions'[e] = versions[e] \cup ({exam'[e]} \ {None})
    BY <2>1 DEF Recall
  <2> QED
    BY <2>1, <2>3 DEF Onward, ExamsRemembered, TypeOK, StoreTypeOK
<1>2. ASSUME NEW t \in Threads, NEW r \in Requests, Begin(t, r)
      PROVE  now' = now /\ versions' = versions /\ exam' = exam
  BY <1>2 DEF Begin, tables
<1>3. ASSUME now' = now \/ now' = now + 1, versions' = versions, exam' = exam
      PROVE  Onward /\ (ExamsRemembered => ExamsRemembered')
  BY <1>3 DEF Onward, ExamsRemembered, TypeOK, StoreTypeOK
<1>4. CASE Tick \/ Crash \/ (\E c \in Courses, s \in Students : ChangeRoster(c, s))
           \/ UNCHANGED vars
  BY <1>3, <1>4 DEF Tick, Crash, ChangeRoster, vars, tables
<1> QED
  BY <1>1, <1>2, <1>3, <1>4 DEF Next

\* Once a stored version was in a state, it was in that state for ever.
LEMMA WasStays ==
  ASSUME TypeOK, TypeOK', Onward, NEW e \in Exams, NEW state, Was(e, state)
  PROVE  Was(e, state)'
<1>1. PICK row \in versions[e], at \in 0..now : ExamState(row, at) = state
  BY DEF Was
<1>2. row \in versions'[e] /\ at \in 0..now'
  BY <1>1 DEF Onward, TypeOK, StoreTypeOK
<1> QED
  BY <1>1, <1>2 DEF Was

-----------------------------------------------------------------------------
(* The frames.                                                              *)

\* The handler returned, or still has its request and what it read on arrival,
\* and its row is the one it had or the stored one.
Answered(t) == pc'[t] = "idle" /\ req'[t] = NoRequest /\ loc'[t] = NoLocals
GoesOn(t) ==
  /\ req'[t] = req[t]
  /\ loc'[t].asked = loc[t].asked /\ loc'[t].held = loc[t].held
  /\ loc'[t].row # None => loc'[t].row \in {loc[t].row, exam[req[t].exam]}

LEMMA StepFrames ==
  ASSUME TypeOK, NEW t \in Threads, Step(t)
  PROVE  pc[t] # "idle" /\ OthersKept(t) /\ (Answered(t) \/ GoesOn(t))
<1> USE DEF TypeOK, OthersKept, Answered, GoesOn, ReplyOnly, Reply, Proceed, Goto, GetExam,
     FailOpen, Locals
<1>1. CASE LaunchStep(t)
  <2>1. CASE LaunchExam(t) \/ LaunchSubmitted(t) \/ LaunchVisible(t) \/ LaunchResume(t)
    BY <2>1 DEF LaunchExam, LaunchSubmitted, LaunchVisible, LaunchResume
  <2>2. CASE LaunchPhone(t) \/ LaunchCleared(t) \/ Pin(t)
    BY <2>2 DEF LaunchPhone, LaunchCleared, Pin
  <2>3. CASE LaunchTicks(t)
    BY <2>3 DEF LaunchTicks
  <2> QED
    BY <1>1, <2>1, <2>2, <2>3 DEF LaunchStep
<1>2. CASE DashStep(t)
  <2>1. CASE DashExam(t)
    BY <2>1 DEF DashExam
  <2>2. CASE DashVisible(t) \/ DashSubmitted(t)
    BY <2>2 DEF DashVisible, DashSubmitted
  <2>3. CASE DashSession(t) \/ DashCleared(t)
    BY <2>3 DEF DashSession, DashCleared
  <2> QED
    BY <1>2, <2>1, <2>2, <2>3 DEF DashStep
<1>3. CASE DraftStep(t) \/ ParkStep(t) \/ StoreRaises(t)
  BY <1>3 DEF DraftStep, DraftExam, DraftSubmitted, DraftPurge, DraftRead, DraftWrite,
     ParkStep, ParkExam, ParkWrite, StoreRaises, RaisingCalls
<1>4. CASE TeacherStep(t)
  BY <1>4 DEF TeacherStep, PatchExam, PatchWrite, DeleteRead, DeleteList, DeleteWrite
<1>5. CASE SealStep(t)
  BY <1>5 DEF SealStep, SealExam, SealReplay, SealSession, SealState, SealCap, SealLate,
     SealLock, SealCheck, SealInsert, SealConflict, SealDrop
<1> QED
  BY <1>1, <1>2, <1>3, <1>4, <1>5 DEF Step, HandlerStep

\* A thread with a handler's step to make has a request for some exam.
LEMMA HandlersHaveExams ==
  ASSUME TypeOK, NEW t \in Threads, pc[t] # "idle"
  PROVE  req[t].exam \in Exams
BY RequestOfHandler, HandledIsPartOfTypeOK DEF HandledOK, TypeOK, Points

\* History and frames are kept by every step.
LEMMA NextKeepsMemory ==
  ASSUME MemoryInv, [Next]_vars
  PROVE  MemoryInv'
<1> USE DEF MemoryInv
<1>1. TypeOK' /\ Onward /\ ExamsRemembered'
  BY NextTyped, NextIsOnward
<1>2. ASSUME NEW t \in Threads, OthersKept(t),
             loc'[t].row # None =>
               req'[t].exam \in Exams /\ loc'[t].row \in versions'[req'[t].exam],
             loc'[t].asked <= now'
      PROVE  RowsRemembered' /\ AskedBefore'
  <2>1. ASSUME NEW s \in Threads \ {t}
        PROVE  /\ loc'[s].row # None =>
                    req'[s].exam \in Exams /\ loc'[s].row \in versions'[req'[s].exam]
               /\ loc'[s].asked <= now'
    <3>1. loc'[s] = loc[s] /\ req'[s] = req[s] /\ loc[s].asked \in Nat
      BY <1>2 DEF OthersKept, TypeOK, Locals
    <3> QED
      BY <1>1, <3>1 DEF RowsRemembered, AskedBefore, Onward, TypeOK, StoreTypeOK
  <2> QED
    BY <1>2, <2>1 DEF RowsRemembered, AskedBefore
<1>3. ASSUME NEW t \in Threads, Step(t)
      PROVE  RowsRemembered' /\ AskedBefore'
  <2>1. OthersKept(t) /\ (Answered(t) \/ GoesOn(t)) /\ now' = now /\ pc[t] # "idle"
    BY <1>3, StepFrames DEF Step
  <2>2. CASE Answered(t)
    BY <1>1, <1>2, <2>1, <2>2 DEF Answered, NoLocals, TypeOK, StoreTypeOK
  <2>3. CASE GoesOn(t)
    <3>1. loc'[t].row # None => req[t].exam \in Exams
      BY <2>1, HandlersHaveExams
    <3> QED
      BY <1>1, <1>2, <2>1, <2>3, <3>1
         DEF GoesOn, RowsRemembered, AskedBefore, ExamsRemembered, Onward
  <2> QED
    BY <2>1, <2>2, <2>3
<1>4. ASSUME NEW t \in Threads, NEW r \in Requests, Begin(t, r)
      PROVE  RowsRemembered' /\ AskedBefore'
  <2>1. OthersKept(t) /\ loc'[t].row = None
        /\ (loc'[t].asked = now \/ loc'[t].asked = 0) /\ now' = now
    BY <1>4 DEF Begin, OthersKept, Goto, NoLocals, TypeOK
  <2> QED
    BY <1>2, <2>1 DEF TypeOK, StoreTypeOK
<1>5. CASE Crash
  <2>1. \A t \in Threads : loc'[t].row = None /\ loc'[t].asked = 0
    BY <1>5 DEF Crash, NoLocals
  <2> QED
    BY <1>1, <2>1 DEF RowsRemembered, AskedBefore, TypeOK, StoreTypeOK
<1>6. CASE UNCHANGED <<loc, req>>
  BY <1>1, <1>6 DEF RowsRemembered, AskedBefore, Onward, TypeOK, StoreTypeOK, Locals
<1> QED
  BY <1>1, <1>3, <1>4, <1>5, <1>6 DEF Next, Tick, ChangeRoster, vars

LEMMA InitMemory == Init => MemoryInv
<1> SUFFICES ASSUME Init PROVE MemoryInv
  OBVIOUS
<1>1. TypeOK
  BY InitTyped
<1>2. \A t \in Threads : loc[t].row = None /\ loc[t].asked = 0
  BY DEF Init, NoLocals
<1>3. ExamsRemembered
  BY DEF Init, ExamsRemembered
<1> QED
  BY <1>1, <1>2, <1>3 DEF MemoryInv, RowsRemembered, AskedBefore, TypeOK, StoreTypeOK
-----------------------------------------------------------------------------
(* Nothing begins, and nothing is recorded, before the exam was open.       *)

WereOpen == {e \in Exams : Was(e, "open")}
WereClosed == {e \in Exams : Was(e, "closed")}
Opened == WereOpen \cup WereClosed

\* NothingBeforeOpening, said of these sets.
InTime ==
  /\ \A k \in Sittings : session[k] # None => k[1] \in WereOpen
  /\ \A u \in Uuids : SealedOneSitting(u) => Owner[u][1] \in Opened

LEMMA InTimeIsNothingBeforeOpening == InTime <=> NothingBeforeOpening
<1>1. \A k \in Sittings : k[1] \in Exams
  BY DEF Sittings
<1>2. \A u \in Uuids : Owner[u][1] \in Exams
  BY OwnerAssumption
<1> QED
  BY <1>1, <1>2 DEF InTime, NothingBeforeOpening, WereOpen, WereClosed, Opened

\* Where a start has established that its exam was open, and a seal under the
\* one-sitting rule that it was open or had closed.
OpenPoints == {"launch_phone", "launch_cleared", "launch_ticks", "dash_cleared", "pin"}
OpenedPoints == {"seal_cap", "seal_late", "seal_lock", "seal_check", "seal_insert"}

ThreadSawOpening(t) ==
  /\ pc[t] \in OpenPoints => req[t].exam \in WereOpen
  /\ pc[t] \in OpenedPoints /\ OneSitting(t) => req[t].exam \in Opened

WindowInv == MemoryInv /\ (\A t \in Threads : ThreadSawOpening(t)) /\ InTime

\* A row in a handler's hands shows the state its exam had when it was judged.
LEMMA RowShows ==
  ASSUME MemoryInv, NEW t \in Threads, loc[t].row # None, NEW at \in 0..now
  PROVE  /\ ExamState(loc[t].row, at) = "open" => req[t].exam \in WereOpen
         /\ ExamState(loc[t].row, at) = "closed" => req[t].exam \in WereClosed
BY DEF MemoryInv, RowsRemembered, Was, WereOpen, WereClosed

\* So does a session row a read finds: the sitting began in time.
LEMMA SessionShows ==
  ASSUME WindowInv, NEW t \in Threads, Key(t) \in Sittings,
         NEW held \in GetSession(Key(t)), held # None
  PROVE  req[t].exam \in WereOpen
<1>1. session[Key(t)] # None /\ Key(t)[1] = req[t].exam
  BY DEF GetSession, FailOpen, Key
<1> QED
  BY <1>1 DEF WindowInv, InTime

\* A request is first taken to a read, never to where something was established.
LEMMA FirstCallsAreReads ==
  ASSUME NEW r \in Requests
  PROVE  FirstCall[r.kind] \notin OpenPoints \cup OpenedPoints \cup {"launch_ticks", "seal_state"}
<1>1. r.kind \in {"launch", "dashboard", "getdraft", "putdraft", "scan", "override", "seal",
                 "patch", "delete"}
  BY DEF Requests, StudentRequests, SealRequests, PatchRequests, DeleteRequests
<1> QED
  BY <1>1 DEF FirstCall, OpenPoints, OpenedPoints

\* The moving thread goes on only with what it has seen.
LEMMA StepSeesOpening ==
  ASSUME WindowInv, NEW t \in Threads, Step(t)
  PROVE  /\ pc'[t] \in OpenPoints => req[t].exam \in WereOpen
         /\ pc'[t] \in OpenedPoints /\ loc'[t].row # None => req[t].exam \in Opened
<1> USE DEF WindowInv, MemoryInv, OpenPoints, OpenedPoints
<1>1. /\ pc[t] \in StudentPoints \cup SealPoints => Key(t) \in Sittings
      /\ loc[t].asked \in 0..now /\ now \in 0..now
      /\ pc[t] \in RowPoints => loc[t].row # None
      /\ TypeOK
  BY RequestOfHandler, HandledIsPartOfTypeOK
     DEF HandledOK, AskedBefore, TypeOK, StoreTypeOK, Locals, FramesOK
<1> DEFINE Goal == /\ pc'[t] \in OpenPoints => req[t].exam \in WereOpen
                   /\ pc'[t] \in OpenedPoints /\ loc'[t].row # None => req[t].exam \in Opened
<1>2. ASSUME pc'[t] = "idle" PROVE Goal
  BY <1>2
<1>3. \A p : Goto(t, p) => pc'[t] = p
  BY DEF Goto, TypeOK
<1>4. Reply(t) => pc'[t] = "idle"
  BY DEF Reply, TypeOK
<1> USE DEF ReplyOnly, Proceed, StudentPoints, SealPoints, RowPoints
<1>5. CASE LaunchExam(t) \/ LaunchSubmitted(t)
  BY <1>2, <1>3, <1>4, <1>5 DEF LaunchExam, LaunchSubmitted
<1>6. CASE LaunchVisible(t)
  <2>1. /\ ExamState(loc[t].row, now) = "open" => req[t].exam \in WereOpen
        /\ ExamState(loc[t].row, now) = "closed" => req[t].exam \in WereClosed
    BY <1>1, <1>6, RowShows DEF LaunchVisible
  <2> QED
    BY <1>3, <1>4, <1>6, <2>1 DEF LaunchVisible
<1>7. CASE LaunchResume(t)
  BY <1>1, <1>3, <1>4, <1>7, SessionShows DEF LaunchResume
<1>8. CASE LaunchPhone(t) \/ LaunchCleared(t) \/ LaunchTicks(t)
  BY <1>3, <1>4, <1>8 DEF LaunchPhone, LaunchCleared, LaunchTicks, ThreadSawOpening
<1>9. CASE DashExam(t) \/ DashVisible(t) \/ DashSubmitted(t)
  BY <1>3, <1>4, <1>9 DEF DashExam, DashVisible, DashSubmitted
<1>10. CASE DashSession(t)
  <2>1. /\ ExamState(loc[t].row, loc[t].asked) = "open" => req[t].exam \in WereOpen
        /\ ExamState(loc[t].row, loc[t].asked) = "closed" => req[t].exam \in WereClosed
    BY <1>1, <1>10, RowShows DEF DashSession
  <2> QED
    BY <1>1, <1>3, <1>4, <1>10, <2>1, SessionShows DEF DashSession
<1>11. CASE DashCleared(t)
  BY <1>3, <1>4, <1>11 DEF DashCleared, ThreadSawOpening
<1>12. CASE DraftStep(t) \/ ParkStep(t) \/ TeacherStep(t) \/ StoreRaises(t) \/ Pin(t)
  BY <1>3, <1>4, <1>12
     DEF DraftStep, DraftExam, DraftSubmitted, DraftPurge, DraftRead, DraftWrite, ParkStep,
         ParkExam, ParkWrite, StoreRaises, TeacherStep, PatchExam, PatchWrite, DeleteRead,
         DeleteList, DeleteWrite, Pin
<1>13. CASE SealExam(t)
  BY <1>3, <1>13 DEF SealExam
<1>14. CASE SealReplay(t)
  BY <1>3, <1>14 DEF SealReplay, OneSitting
<1>15. CASE SealSession(t)
  BY <1>1, <1>3, <1>15, SessionShows DEF SealSession, Opened
<1>16. CASE SealState(t)
  <2>1. /\ ExamState(loc[t].row, now) = "open" => req[t].exam \in WereOpen
        /\ ExamState(loc[t].row, now) = "closed" => req[t].exam \in WereClosed
    BY <1>1, <1>16, RowShows DEF SealState
  <2> QED
    BY <1>3, <1>4, <1>16, <2>1 DEF SealState, Opened, ExamState
<1>17. CASE SealCap(t) \/ SealLate(t) \/ SealLock(t) \/ SealCheck(t)
  <2>1. pc'[t] # "idle" => loc'[t].row = loc[t].row
    BY <1>3, <1>4, <1>17 DEF SealCap, SealLate, SealLock, SealCheck, TypeOK, Locals
  <2>2. pc[t] \in OpenedPoints /\ pc'[t] \in OpenedPoints \cup {"idle"}
    BY <1>3, <1>4, <1>17 DEF SealCap, SealLate, SealLock, SealCheck
  <2> QED
    BY <2>1, <2>2 DEF ThreadSawOpening, OneSitting
<1>18. CASE SealInsert(t) \/ SealConflict(t) \/ SealDrop(t)
  BY <1>3, <1>4, <1>18 DEF SealInsert, SealConflict, SealDrop
<1> QED
  BY <1>5, <1>6, <1>7, <1>8, <1>9, <1>10, <1>11, <1>12, <1>13, <1>14, <1>15, <1>16,
     <1>17, <1>18 DEF Step, HandlerStep, LaunchStep, DashStep, SealStep

\* A session begins only at Pin,
LEMMA SessionsBeginAtPin ==
  ASSUME TypeOK, NEW t \in Threads, Step(t), NEW k \in Sittings,
         session[k] = None, session'[k] # None
  PROVE  Pin(t) /\ k = Key(t) /\ k[1] = req[t].exam /\ pc[t] = "pin"
<1>1. CASE Pin(t)
  BY <1>1 DEF Pin, GetOrCreateSession, TypeOK, StoreTypeOK, Key
<1>2. CASE DeleteWrite(t)
  BY <1>2 DEF DeleteWrite, DeleteExam
<1> QED
  BY <1>1, <1>2, OtherStepsKeepTables

\* and a row is recorded only at SealInsert, with what the seal has decided.
LEMMA RowsComeFromInserts ==
  ASSUME TypeOK, NEW t \in Threads, Step(t), NEW u \in Uuids, sub'[u] # sub[u]
  PROVE  /\ SealInsert(t) /\ pc[t] = "seal_insert"
         /\ Owner[u] = Key(t) /\ Owner[u][1] = req[t].exam
         /\ sub'[u].one = OneSitting(t) /\ sub'[u].late = loc[t].late
         /\ sub'[u].asked = loc[t].asked /\ sub'[u].held = loc[t].held
         /\ sub'[u].at = now
<1>1. SealInsert(t)
  BY AbstractlySilent DEF Pin, DeleteWrite, SealDrop, SealConflict, SealCheck, Proceed, tables
<1>2. Key(t) = Owner[req[t].uuid]
  BY <1>1, RequestOfHandler, HandledIsPartOfTypeOK DEF HandledOK, SealInsert, SealPoints
<1> QED
  BY <1>1, <1>2 DEF SealInsert, PutSubmission, TypeOK, StoreTypeOK, Key

LEMMA NextKeepsWindow ==
  ASSUME WindowInv, [Next]_vars
  PROVE  WindowInv'
<1> USE DEF WindowInv
<1>1. MemoryInv' /\ TypeOK /\ TypeOK' /\ Onward
  BY NextKeepsMemory, NextIsOnward DEF MemoryInv
<1>2. /\ WereOpen \subseteq WereOpen' /\ WereClosed \subseteq WereClosed'
      /\ Opened \subseteq Opened'
  BY <1>1, WasStays DEF WereOpen, WereClosed, Opened
<1>3. ASSUME NEW s \in Threads, pc'[s] = pc[s], req'[s] = req[s], loc'[s] = loc[s]
      PROVE  ThreadSawOpening(s)'
  <2>1. pc[s] # "idle" => req[s].exam \in Exams
    BY <1>1, HandlersHaveExams
  <2> QED
    BY <1>2, <1>3, <2>1 DEF ThreadSawOpening, OneSitting, OpenPoints, OpenedPoints
<1>4. ASSUME UNCHANGED <<session, sub>>
      PROVE  InTime'
  BY <1>2, <1>4 DEF InTime, SealedOneSitting, Sealed
<1>5. ASSUME NEW t \in Threads, Step(t)
      PROVE  WindowInv'
  <2>1. OthersKept(t) /\ (Answered(t) \/ GoesOn(t)) /\ req[t].exam \in Exams
    BY <1>1, <1>5, StepFrames, HandlersHaveExams
  <2>2. ThreadSawOpening(t)'
    <3>1. CASE Answered(t)
      BY <3>1 DEF Answered, ThreadSawOpening, OpenPoints, OpenedPoints
    <3>2. CASE GoesOn(t)
      BY <1>2, <1>5, <2>1, <3>2, StepSeesOpening DEF GoesOn, ThreadSawOpening, OneSitting
    <3> QED
      BY <2>1, <3>1, <3>2
  <2>3. \A s \in Threads : ThreadSawOpening(s)'
    BY <1>3, <2>1, <2>2 DEF OthersKept
  <2>4. ASSUME NEW k \in Sittings, session'[k] # None
        PROVE  k[1] \in WereOpen'
    <3>1. CASE session[k] # None
      BY <1>2, <3>1 DEF InTime
    <3>2. CASE session[k] = None
      <4>1. pc[t] = "pin" /\ k[1] = req[t].exam
        BY <1>1, <1>5, <2>4, <3>2, SessionsBeginAtPin
      <4> QED
        BY <1>2, <4>1 DEF ThreadSawOpening, OpenPoints
    <3> QED
      BY <3>1, <3>2
  <2>5. ASSUME NEW u \in Uuids, SealedOneSitting(u)'
        PROVE  Owner[u][1] \in Opened'
    <3>1. CASE sub'[u] = sub[u]
      BY <1>2, <2>5, <3>1 DEF InTime, SealedOneSitting, Sealed
    <3>2. CASE sub'[u] # sub[u]
      <4>1. /\ pc[t] = "seal_insert" /\ Owner[u][1] = req[t].exam
            /\ sub'[u].one = OneSitting(t)
        BY <1>1, <1>5, <3>2, RowsComeFromInserts
      <4>2. OneSitting(t)
        BY <2>5, <4>1 DEF SealedOneSitting
      <4> QED
        BY <1>2, <4>1, <4>2 DEF ThreadSawOpening, OpenedPoints
    <3> QED
      BY <3>1, <3>2
  <2> QED
    BY <1>1, <2>3, <2>4, <2>5 DEF InTime
<1>6. ASSUME NEW t \in Threads, NEW r \in Requests, Begin(t, r)
      PROVE  WindowInv'
  <2>1. OthersKept(t) /\ pc'[t] = FirstCall[r.kind] /\ UNCHANGED <<session, sub>>
    BY <1>1, <1>6 DEF Begin, Goto, OthersKept, TypeOK, tables
  <2>2. FirstCall[r.kind] \notin OpenPoints \cup OpenedPoints
    BY FirstCallsAreReads
  <2> QED
    BY <1>1, <1>3, <1>4, <2>1, <2>2 DEF OthersKept, ThreadSawOpening
<1>7. CASE Crash
  <2>1. \A s \in Threads : pc'[s] = "idle"
    BY <1>7 DEF Crash
  <2>2. UNCHANGED <<session, sub>>
    BY <1>7 DEF Crash, tables
  <2> QED
    BY <1>1, <1>4, <2>1, <2>2 DEF ThreadSawOpening, OpenPoints, OpenedPoints
<1>8. CASE UNCHANGED <<session, sub, pc, req, loc>>
  BY <1>1, <1>3, <1>4, <1>8
<1> QED
  BY <1>5, <1>6, <1>7, <1>8 DEF Next, Tick, ChangeRoster, vars, tables

LEMMA InitWindow == Init => WindowInv
<1> SUFFICES ASSUME Init PROVE WindowInv
  OBVIOUS
<1>1. MemoryInv
  BY InitMemory
<1> QED
  BY <1>1 DEF Init, StoreInit, WindowInv, ThreadSawOpening, OpenPoints, OpenedPoints,
     InTime, SealedOneSitting, Sealed

\* Whatever the interleaving of starts, seals, PATCHes, deletions, failing calls
\* and restarts: no sitting begins before some stored version of its exam was
\* open, and no work is recorded under the one-sitting rule before it was open
\* or closed.
THEOREM NothingStartsEarly == Spec => []NothingBeforeOpening
  BY InitWindow, NextKeepsWindow, InTimeIsNothingBeforeOpening, PTL DEF Spec, WindowInv
-----------------------------------------------------------------------------
(* Where no exam is deleted: the phone, and the late tag.                   *)

NoDeletes == \A t \in Threads : pc[t] \notin DeletePoints

LEMMA HandlersKind ==
  ASSUME TypeOK, NEW t \in Threads, pc[t] # "idle", pc[t] \notin DeletePoints
  PROVE  req[t].kind # "delete"
<1>1. pc[t] \in StudentPoints \cup SealPoints \cup PatchPoints
  BY DEF TypeOK, Points
<1> QED
  BY <1>1 DEF TypeOK, FramesOK, StudentRequests, SealRequests, PatchRequests

\* A step cannot enter the handler that deletes but through its request.
LEMMA NextDeletesNothing ==
  ASSUME TypeOK, NoDeletes, "delete" \notin Kinds, [Next]_vars
  PROVE  NoDeletes' /\ \A t \in Threads : ~DeleteWrite(t)
<1>1. ASSUME NEW t \in Threads PROVE ~DeleteWrite(t)
  BY DEF NoDeletes, DeletePoints, DeleteWrite
<1>2. ASSUME NEW t \in Threads, Step(t)
      PROVE  NoDeletes'
  <2>1. /\ OthersKept(t) /\ (Answered(t) \/ GoesOn(t))
        /\ pc[t] # "idle" /\ pc[t] \notin DeletePoints
    BY <1>2, StepFrames DEF NoDeletes
  <2>2. pc'[t] \in DeletePoints => req'[t].kind = "delete"
    BY <1>2, StepTyped DEF TypeOK, FramesOK, DeleteRequests
  <2>3. pc'[t] \notin DeletePoints
    <3>1. CASE Answered(t)
      BY <3>1 DEF Answered, DeletePoints
    <3>2. CASE GoesOn(t)
      <4>1. req[t].kind # "delete"
        BY <1>2, <2>1, HandlersKind
      <4> QED
        BY <2>2, <3>2, <4>1 DEF GoesOn
    <3> QED
      BY <2>1, <3>1, <3>2
  <2> QED
    BY <2>1, <2>3 DEF OthersKept, NoDeletes
<1>3. ASSUME NEW t \in Threads, NEW r \in Requests, Begin(t, r)
      PROVE  NoDeletes'
  <2>1. FirstCall[r.kind] \notin DeletePoints
    <3>1. r.kind # "delete"
      BY <1>3 DEF Begin
    <3>2. FirstCall[r.kind] \in DeletePoints => r.kind = "delete"
      BY FirstCallOfRequest DEF DeleteRequests
    <3> QED
      BY <3>1, <3>2
  <2> QED
    BY <1>3, <2>1 DEF Begin, Goto, NoDeletes, TypeOK
<1>4. CASE Crash
  BY <1>1, <1>4 DEF Crash, NoDeletes, DeletePoints
<1>5. CASE UNCHANGED pc
  BY <1>1, <1>5 DEF NoDeletes
<1> QED
  BY <1>1, <1>2, <1>3, <1>4, <1>5 DEF Next, Tick, ChangeRoster, vars
\* A sitting whose student parked the phone, or whose exam did not ask for it.
Parked == {k \in Sittings : k \in cleared \/ \E row \in versions[k[1]] : ~row.phone}

PhoneInv ==
  /\ MemoryInv /\ NoDeletes
  /\ \A t \in Threads : pc[t] \in {"launch_ticks", "pin"} => Key(t) \in Parked
  /\ \A k \in Sittings : session[k] # None => k \in Parked

LEMMA OnlyParkingChangesPhones ==
  ASSUME NEW t \in Threads, Step(t)
  PROVE  cleared' = cleared \/ ParkWrite(t) \/ DeleteWrite(t)
<1> USE DEF ReplyOnly, Proceed, tables
<1>1. CASE LaunchStep(t)
  BY <1>1 DEF LaunchStep, LaunchExam, LaunchSubmitted, LaunchVisible, LaunchResume,
     LaunchPhone, LaunchCleared, LaunchTicks, Pin
<1>2. CASE DashStep(t)
  BY <1>2 DEF DashStep, DashExam, DashVisible, DashSubmitted, DashSession, DashCleared
<1>3. CASE DraftStep(t) \/ ParkStep(t) \/ TeacherStep(t) \/ StoreRaises(t)
  BY <1>3 DEF DraftStep, DraftExam, DraftSubmitted, DraftPurge, DraftRead, DraftWrite,
     ParkStep, ParkExam, TeacherStep, PatchExam, PatchWrite, DeleteRead, DeleteList,
     StoreRaises
<1>4. CASE SealStep(t)
  BY <1>4 DEF SealStep, SealExam, SealReplay, SealSession, SealState, SealCap, SealLate,
     SealLock, SealCheck, SealInsert, SealConflict, SealDrop
<1> QED
  BY <1>1, <1>2, <1>3, <1>4 DEF Step, HandlerStep

LEMMA ParkedStays ==
  ASSUME TypeOK, Onward, [Next]_vars, \A t \in Threads : ~DeleteWrite(t)
  PROVE  Parked \subseteq Parked'
<1>1. cleared \subseteq cleared'
  <2>1. ASSUME NEW t \in Threads, Step(t)
        PROVE  cleared \subseteq cleared'
    BY <2>1, OnlyParkingChangesPhones DEF ParkWrite, PutPhonePark
  <2> QED
    BY <2>1 DEF Next, Begin, Tick, Crash, ChangeRoster, vars, tables
<1>2. \A k \in Sittings : versions[k[1]] \subseteq versions'[k[1]]
  BY DEF Onward, Sittings
<1> QED
  BY <1>1, <1>2 DEF Parked

\* The moving thread reaches the pin only with the phone seen to.
LEMMA StepSeesPhone ==
  ASSUME PhoneInv, NEW t \in Threads, Step(t)
  PROVE  pc'[t] \in {"launch_ticks", "pin"} => Key(t) \in Parked
<1> USE DEF PhoneInv, MemoryInv
<1>1. /\ pc[t] \in StudentPoints => Key(t) \in Sittings /\ Key(t)[1] = req[t].exam
      /\ pc[t] \in RowPoints => loc[t].row # None
      /\ \A p : Goto(t, p) => pc'[t] = p
      /\ Reply(t) => pc'[t] = "idle"
  BY RequestOfHandler, HandledIsPartOfTypeOK
     DEF HandledOK, TypeOK, FramesOK, Goto, Reply, Key
<1>2. ASSUME loc[t].row # None, ~loc[t].row.phone, Key(t) \in Sittings
      PROVE  Key(t) \in Parked
  BY <1>2 DEF RowsRemembered, Parked, Key
<1>3. ASSUME NEW held \in GetSession(Key(t)), held # None, Key(t) \in Sittings
      PROVE  Key(t) \in Parked
  BY <1>3 DEF GetSession, FailOpen
<1> USE DEF ReplyOnly, Proceed, StudentPoints, RowPoints
<1>4. CASE LaunchPhone(t)
  BY <1>1, <1>2, <1>3, <1>4 DEF LaunchPhone
<1>5. CASE LaunchCleared(t)
  BY <1>1, <1>5 DEF LaunchCleared, Parked
<1>6. CASE LaunchTicks(t)
  BY <1>6 DEF LaunchTicks
<1>7. CASE DashSession(t)
  BY <1>1, <1>2, <1>3, <1>7 DEF DashSession
<1>8. CASE DashCleared(t)
  BY <1>1, <1>8 DEF DashCleared, Parked
<1>9. CASE \/ LaunchExam(t) \/ LaunchSubmitted(t) \/ LaunchVisible(t) \/ LaunchResume(t)
           \/ Pin(t) \/ DashExam(t) \/ DashVisible(t) \/ DashSubmitted(t)
  BY <1>1, <1>9 DEF LaunchExam, LaunchSubmitted, LaunchVisible, LaunchResume, Pin,
     DashExam, DashVisible, DashSubmitted
<1>10. CASE DraftStep(t) \/ ParkStep(t) \/ TeacherStep(t) \/ StoreRaises(t)
  BY <1>1, <1>10
     DEF DraftStep, DraftExam, DraftSubmitted, DraftPurge, DraftRead, DraftWrite, ParkStep,
         ParkExam, ParkWrite, StoreRaises, TeacherStep, PatchExam, PatchWrite, DeleteRead,
         DeleteList, DeleteWrite
<1>11. CASE SealStep(t)
  BY <1>1, <1>11 DEF SealStep, SealExam, SealReplay, SealSession, SealState, SealCap,
     SealLate, SealLock, SealCheck, SealInsert, SealConflict, SealDrop
<1> QED
  BY <1>4, <1>5, <1>6, <1>7, <1>8, <1>9, <1>10, <1>11
     DEF Step, HandlerStep, LaunchStep, DashStep

LEMMA NextKeepsPhone ==
  ASSUME "delete" \notin Kinds, PhoneInv, [Next]_vars
  PROVE  PhoneInv'
<1> USE DEF PhoneInv
<1>1. /\ MemoryInv' /\ TypeOK /\ NoDeletes'
      /\ \A t \in Threads : ~DeleteWrite(t)
      /\ Parked \subseteq Parked'
  BY NextKeepsMemory, NextIsOnward, NextDeletesNothing, ParkedStays DEF MemoryInv
<1>2. ASSUME NEW s \in Threads, pc'[s] = pc[s], req'[s] = req[s],
             pc'[s] \in {"launch_ticks", "pin"}
      PROVE  Key(s)' \in Parked'
  BY <1>1, <1>2 DEF Key
<1>3. ASSUME NEW t \in Threads, Step(t)
      PROVE  PhoneInv'
  <2>1. OthersKept(t) /\ (Answered(t) \/ GoesOn(t))
    BY <1>1, <1>3, StepFrames
  <2>2. pc'[t] \in {"launch_ticks", "pin"} => Key(t)' \in Parked'
    BY <1>1, <1>3, <2>1, StepSeesPhone DEF Answered, GoesOn, Key
  <2>3. \A s \in Threads : pc'[s] \in {"launch_ticks", "pin"} => Key(s)' \in Parked'
    BY <1>2, <2>1, <2>2 DEF OthersKept
  <2>4. ASSUME NEW k \in Sittings, session'[k] # None
        PROVE  k \in Parked'
    BY <1>1, <1>3, <2>4, SessionsBeginAtPin
  <2> QED
    BY <1>1, <2>3, <2>4
<1>4. ASSUME NEW t \in Threads, NEW r \in Requests, Begin(t, r)
      PROVE  PhoneInv'
  <2>1. OthersKept(t) /\ pc'[t] = FirstCall[r.kind] /\ UNCHANGED session
    BY <1>1, <1>4 DEF Begin, Goto, OthersKept, TypeOK, tables
  <2>2. FirstCall[r.kind] \notin {"launch_ticks", "pin"}
    BY FirstCallsAreReads DEF OpenPoints
  <2> QED
    BY <1>1, <1>2, <2>1, <2>2 DEF OthersKept
<1>5. CASE Crash
  <2>1. UNCHANGED session /\ \A s \in Threads : pc'[s] = "idle"
    BY <1>5 DEF Crash, tables
  <2> QED
    BY <1>1, <2>1
<1>6. CASE UNCHANGED <<session, pc, req>>
  BY <1>1, <1>2, <1>6
<1> QED
  BY <1>3, <1>4, <1>5, <1>6 DEF Next, Tick, ChangeRoster, vars, tables

LEMMA InitPhone == Init => PhoneInv
<1> SUFFICES ASSUME Init PROVE PhoneInv
  OBVIOUS
<1>1. MemoryInv
  BY InitMemory
<1> QED
  BY <1>1 DEF Init, StoreInit, PhoneInv, NoDeletes, DeletePoints

\* As long as no exam is deleted: a sitting that began without the phone being
\* parked or overridden began under a version of the exam that did not ask for
\* it, by whichever route and however the teacher patched the exam meanwhile.
THEOREM PhoneSeenToFirst ==
  ASSUME "delete" \notin Kinds
  PROVE  Spec => []PhoneClearedFirst
<1>1. PhoneInv => PhoneClearedFirst
  BY DEF PhoneInv, PhoneClearedFirst, Parked
<1>2. PhoneInv /\ [Next]_vars => PhoneInv'
  BY NextKeepsPhone
<1> QED
  BY <1>1, <1>2, InitPhone, PTL DEF Spec
\* The tag a seal carries once it has been judged, for a sitting it knows of.
FairTag(late, asked, held, at) ==
  IF late THEN at > held + Grace ELSE asked <= held + Grace

BeforeTag == {"seal_exam", "seal_replay", "seal_session", "seal_cap", "seal_late"}
AfterTag == {"seal_lock", "seal_check", "seal_insert"}

\* A seal that found a deadline on arrival still finds it, so it is not judged
\* by the exam's window and is tagged by that deadline alone.
ThreadTagsFairly(t) ==
  loc[t].held # None =>
    /\ pc[t] # "seal_state"
    /\ pc[t] \in BeforeTag \cup AfterTag => session[Key(t)] = loc[t].held
    /\ pc[t] \in BeforeTag => ~loc[t].late
    /\ pc[t] \in AfterTag =>
         FairTag(loc[t].late, loc[t].asked, loc[t].held, now)

LateInv ==
  MemoryInv /\ NoDeletes /\ (\A t \in Threads : ThreadTagsFairly(t)) /\ LateTagIsFair

\* The moving thread, as long as no read fails.
LEMMA StepTagsFairly ==
  ASSUME LateInv, ~StoreFaults, NEW t \in Threads, Step(t), loc[t].held # None,
         loc'[t].held = loc[t].held, loc'[t].asked = loc[t].asked
  PROVE  /\ pc'[t] # "seal_state"
         /\ pc'[t] \in BeforeTag => pc[t] \in BeforeTag /\ ~loc'[t].late
         /\ pc'[t] \in AfterTag =>
              /\ pc[t] \in BeforeTag \cup AfterTag
              /\ FairTag(loc'[t].late, loc[t].asked, loc[t].held, now)
<1> USE DEF LateInv, MemoryInv, BeforeTag, AfterTag, ThreadTagsFairly
<1>1. /\ \A p : Goto(t, p) => pc'[t] = p
      /\ Reply(t) => pc'[t] = "idle"
      /\ loc[t].held \in Nat /\ loc[t].asked \in Nat /\ loc[t].late \in BOOLEAN
      /\ now \in Nat /\ loc[t].asked <= now
  BY DEF TypeOK, StoreTypeOK, Goto, Reply, Locals, AskedBefore
<1> USE DEF ReplyOnly, Proceed
<1>2. CASE LaunchStep(t)
  BY <1>1, <1>2 DEF LaunchStep, LaunchExam, LaunchSubmitted, LaunchVisible, LaunchResume,
     LaunchPhone, LaunchCleared, LaunchTicks, Pin
<1>3. CASE DashStep(t)
  BY <1>1, <1>3 DEF DashStep, DashExam, DashVisible, DashSubmitted, DashSession, DashCleared
<1>4. CASE DraftStep(t) \/ ParkStep(t) \/ TeacherStep(t) \/ StoreRaises(t)
  BY <1>1, <1>4
     DEF DraftStep, DraftExam, DraftSubmitted, DraftPurge, DraftRead, DraftWrite, ParkStep,
         ParkExam, ParkWrite, StoreRaises, TeacherStep, PatchExam, PatchWrite, DeleteRead,
         DeleteList, DeleteWrite
<1>5. CASE SealExam(t)
  <2>1. loc'[t].late = loc[t].late
    BY <1>5 DEF SealExam, TypeOK, Locals
  <2> QED
    BY <1>1, <1>5, <2>1 DEF SealExam
<1>6. CASE SealReplay(t) \/ SealCap(t)
  BY <1>1, <1>6 DEF SealReplay, SealCap
<1>7. CASE SealSession(t)
  <2>1. GetSession(Key(t)) = {loc[t].held}
    BY <1>7 DEF SealSession, GetSession, FailOpen
  <2> QED
    BY <1>1, <1>7, <2>1 DEF SealSession
<1>8. CASE SealState(t)
  BY <1>8 DEF SealState
<1>9. CASE SealLate(t)
  <2>1. GetSession(Key(t)) = {loc[t].held}
    BY <1>9 DEF SealLate, GetSession, FailOpen
  <2>2. loc'[t].late = (now > loc[t].held + Grace)
    BY <1>9, <2>1 DEF SealLate, TypeOK, Locals
  <2>3. FairTag(loc'[t].late, loc[t].asked, loc[t].held, now)
    <3>1. CASE now > loc[t].held + Grace
      <4>1. loc'[t].late
        BY <2>2, <3>1, Zenon
      <4> QED
        BY <3>1, <4>1 DEF FairTag
    <3>2. CASE ~(now > loc[t].held + Grace)
      <4>1. ~loc'[t].late
        BY <2>2, <3>2, Zenon
      <4>2. loc[t].asked <= loc[t].held + Grace
        BY <1>1, <3>2, GraceAssumption
      <4> QED
        BY <4>1, <4>2 DEF FairTag
    <3> QED
      BY <3>1, <3>2
  <2> QED
    BY <1>1, <1>9, <2>3 DEF SealLate
<1>10. CASE SealLock(t) \/ SealCheck(t)
  <2>1. pc[t] \in AfterTag
    BY <1>10 DEF SealLock, SealCheck
  <2>2. pc'[t] = "idle" \/ (pc'[t] \in AfterTag \ BeforeTag /\ loc' = loc)
    BY <1>1, <1>10 DEF SealLock, SealCheck
  <2> QED
    BY <2>1, <2>2
<1>11. CASE SealInsert(t) \/ SealConflict(t) \/ SealDrop(t)
  BY <1>1, <1>11 DEF SealInsert, SealConflict, SealDrop
<1> QED
  BY <1>2, <1>3, <1>4, <1>5, <1>6, <1>7, <1>8, <1>9, <1>10, <1>11
     DEF Step, HandlerStep, SealStep

LEMMA NextKeepsLate ==
  ASSUME "delete" \notin Kinds, ~StoreFaults, LateInv, [Next]_vars
  PROVE  LateInv'
<1> USE DEF LateInv
<1>1. /\ MemoryInv' /\ TypeOK /\ TypeOK' /\ NoDeletes' /\ Onward
      /\ \A t \in Threads : ~DeleteWrite(t)
  BY NextKeepsMemory, NextIsOnward, NextDeletesNothing DEF MemoryInv
<1>2. \A k \in Sittings : session[k] # None => session'[k] = session[k]
  <2>1. ASSUME NEW k \in Sittings, session[k] # None, session'[k] # session[k]
        PROVE  FALSE
    <3>1. PICK t \in Threads : Step(t)
      BY <2>1 DEF Next, Begin, Tick, Crash, ChangeRoster, vars, tables
    <3>2. Pin(t)
      BY <1>1, <2>1, <3>1, OtherStepsKeepTables
    <3> QED
      BY <1>1, <2>1, <3>2 DEF Pin, GetOrCreateSession, TypeOK, StoreTypeOK
  <2> QED
    BY <2>1
<1>3. \A t \in Threads : pc[t] \in BeforeTag \cup AfterTag =>
        Key(t) \in Sittings /\ loc[t].held \in Nat \cup {None}
  BY <1>1, RequestOfHandler, HandledIsPartOfTypeOK
     DEF HandledOK, BeforeTag, AfterTag, SealPoints, TypeOK, Locals
<1>4. ASSUME NEW late, NEW asked, NEW held \in Nat, FairTag(late, asked, held, now)
      PROVE  FairTag(late, asked, held, now')
  BY <1>1, <1>4, GraceAssumption DEF FairTag, Onward, TypeOK, StoreTypeOK
<1>5. ASSUME NEW s \in Threads, pc'[s] = pc[s], req'[s] = req[s], loc'[s] = loc[s]
      PROVE  ThreadTagsFairly(s)'
  <2>1. pc[s] \in BeforeTag \cup AfterTag => Key(s)' = Key(s)
    BY <1>5 DEF Key
  <2> QED
    BY <1>2, <1>3, <1>4, <1>5, <2>1 DEF ThreadTagsFairly
<1>6. ASSUME UNCHANGED sub
      PROVE  LateTagIsFair'
  BY <1>6 DEF LateTagIsFair, Sealed
<1>7. ASSUME NEW t \in Threads, Step(t)
      PROVE  LateInv'
  <2>1. OthersKept(t) /\ (Answered(t) \/ GoesOn(t)) /\ now' = now
    BY <1>1, <1>7, StepFrames DEF Step
  <2>2. ThreadTagsFairly(t)'
    <3>1. CASE Answered(t)
      BY <3>1 DEF Answered, ThreadTagsFairly, BeforeTag, AfterTag
    <3>2. CASE GoesOn(t)
      <4> SUFFICES ASSUME loc[t].held # None PROVE ThreadTagsFairly(t)'
        BY <3>2 DEF GoesOn, ThreadTagsFairly
      <4>1. /\ pc'[t] # "seal_state"
            /\ pc'[t] \in BeforeTag => pc[t] \in BeforeTag /\ ~loc'[t].late
            /\ pc'[t] \in AfterTag =>
                 /\ pc[t] \in BeforeTag \cup AfterTag
                 /\ FairTag(loc'[t].late, loc[t].asked, loc[t].held, now)
        BY <1>7, <3>2, StepTagsFairly DEF GoesOn
      <4>2. pc'[t] \in BeforeTag \cup AfterTag => session'[Key(t)] = loc[t].held
        BY <1>2, <1>3, <4>1 DEF ThreadTagsFairly
      <4>3. Key(t)' = Key(t)
        BY <3>2 DEF GoesOn, Key
      <4> QED
        BY <2>1, <3>2, <4>1, <4>2, <4>3 DEF GoesOn, ThreadTagsFairly
    <3> QED
      BY <2>1, <3>1, <3>2
  <2>3. \A s \in Threads : ThreadTagsFairly(s)'
    BY <1>5, <2>1, <2>2 DEF OthersKept
  <2>4. ASSUME NEW u \in Uuids, Sealed(u)', sub'[u].held # None
        PROVE  FairTag(sub'[u].late, sub'[u].asked, sub'[u].held, sub'[u].at)
    <3>1. CASE sub'[u] = sub[u]
      BY <2>4, <3>1 DEF LateTagIsFair, Sealed, FairTag
    <3>2. CASE sub'[u] # sub[u]
      BY <1>1, <1>7, <2>4, <3>2, RowsComeFromInserts DEF ThreadTagsFairly, AfterTag
    <3> QED
      BY <3>1, <3>2
  <2>5. LateTagIsFair'
    BY <2>4 DEF LateTagIsFair, FairTag, Sealed
  <2> QED
    BY <1>1, <2>3, <2>5
<1>8. ASSUME NEW t \in Threads, NEW r \in Requests, Begin(t, r)
      PROVE  LateInv'
  <2>1. /\ OthersKept(t) /\ UNCHANGED sub /\ session' = session
        /\ pc'[t] = FirstCall[r.kind] /\ req'[t] = r
        /\ ~loc'[t].late
        /\ loc'[t].held # None => loc'[t].held = session[<<r.exam, r.student>>]
    BY <1>1, <1>8 DEF Begin, Goto, OthersKept, TypeOK, tables, NoLocals
  <2>2. FirstCall[r.kind] \notin AfterTag \cup {"seal_state"}
    BY FirstCallsAreReads DEF OpenedPoints, AfterTag
  <2>3. ThreadTagsFairly(t)'
    BY <2>1, <2>2 DEF ThreadTagsFairly, Key
  <2> QED
    BY <1>1, <1>5, <1>6, <2>1, <2>3 DEF OthersKept
<1>9. CASE Crash
  <2>1. UNCHANGED sub /\ \A s \in Threads : pc'[s] = "idle"
    BY <1>9 DEF Crash, tables
  <2> QED
    BY <1>1, <1>6, <2>1 DEF ThreadTagsFairly, BeforeTag, AfterTag
<1>10. CASE UNCHANGED <<sub, pc, req, loc>>
  BY <1>1, <1>5, <1>6, <1>10
<1> QED
  BY <1>7, <1>8, <1>9, <1>10 DEF Next, Tick, ChangeRoster, vars, tables

LEMMA InitLate == Init => LateInv
<1> SUFFICES ASSUME Init PROVE LateInv
  OBVIOUS
<1>1. MemoryInv
  BY InitMemory
<1>2. \A t \in Threads : loc[t].held = None
  BY DEF Init, NoLocals
<1> QED
  BY <1>1, <1>2 DEF Init, StoreInit, LateInv, NoDeletes, DeletePoints, ThreadTagsFairly,
     LateTagIsFair, Sealed

\* As long as no store call fails and no exam is deleted: work handed in by the
\* deadline the student had, plus the margin, is never tagged late, and untagged
\* work was never asked to be recorded after it.
THEOREM LateTagsAreFair ==
  ASSUME "delete" \notin Kinds, ~StoreFaults
  PROVE  Spec => []LateTagIsFair
<1>1. LateInv /\ [Next]_vars => LateInv'
  BY NextKeepsLate
<1> QED
  BY <1>1, InitLate, PTL DEF Spec, LateInv
============================================================================
