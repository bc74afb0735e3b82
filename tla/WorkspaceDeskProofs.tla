----------------------- MODULE WorkspaceDeskProofs -----------------------
(***************************************************************************)
(* Theorems about Workspace: the wall of phone tiles, exams and courses,   *)
(* parked phones and formation pathways.                                   *)
(***************************************************************************)
EXTENDS WorkspaceProofs

-----------------------------------------------------------------------------
(* The wall of tiles.                                                       *)

\* An opening that has seen no live session, and no other opening since.
OpeningSees ==
  \A t \in Threads :
    th[t] # Idle /\ th[t].pc = "newtoken" /\ th[t].fresh => ~Live

WallInv == OpeningSees /\ TilesGoWithSession

LEMMA TilesAct ==
  ASSUME TypeInv, TilesGoWithSession, NEW t \in Threads, Act(t)
  PROVE  TilesGoWithSession'
<1>1. lost \subseteq lost'
  BY LostGrows
<1> SUFFICES ASSUME "late beat" \notin lost', NEW k \in tiles'
             PROVE  session' # None /\ session'.token = k
  BY DEF TilesGoWithSession, Without
<1>2. \A j \in tiles : session # None /\ session.token = j
  BY <1>1 DEF TilesGoWithSession, Without
<1>3. CASE Purge(t) \/ CloseWall(t) \/ ReadToken(t) \/ OwnedWall(t)
  <2>1. (session' = session /\ tiles' = tiles) \/ (session # None /\ Drop)
    BY <1>3 DEF Purge, CloseWall, ReadToken, OwnedWall, wall
  <2> QED
    BY <1>2, <2>1 DEF Drop
<1>4. CASE ReadWall(t)
  BY <1>2, <1>4 DEF ReadWall
<1>5. CASE OpenWall(t)
  BY <1>2, <1>5 DEF OpenWall, Superseded
<1>6. CASE Beat(t)
  BY <1>2, <1>6 DEF Beat
<1> QED
  BY <1>2, <1>3, <1>4, <1>5, <1>6, Writers DEF TileStep

LEMMA OpeningAct ==
  ASSUME TypeInv, OpeningSees, NEW t \in Threads, Act(t)
  PROVE  OpeningSees'
<1> SUFFICES ASSUME NEW s \in Threads, th'[s] # Idle, th'[s].pc = "newtoken", th'[s].fresh
             PROVE  ~Live'
  BY DEF OpeningSees
<1>1. CASE s = t
  <2>1. ReadWall(t)
    BY <1>1, Arrivals
  <2>2. ~Live
    BY <1>1, <2>1, SetTo DEF ReadWall, SameToken, Finish
  <2>3. session' = session
    BY <2>1 DEF ReadWall
  <2> QED
    BY <2>2, <2>3 DEF Live
<1>2. CASE s # t
  <2>1. th[s] = th'[s] /\ th[s] # Idle
    BY <1>2, OthersKept
  <2>2. ~Live
    BY <2>1 DEF OpeningSees
  <2>3. ~OpenWall(t)
    <3>1. SUFFICES ASSUME OpenWall(t) PROVE FALSE
      OBVIOUS
    <3>2. s \in Others(t) /\ At(s, "newtoken")
      BY <1>2, <2>1 DEF Others, Busy, At
    <3>3. th'[s] = [th[s] EXCEPT !.fresh = FALSE]
      BY <1>2, <3>1, <3>2 DEF OpenWall, SetOver
    <3>4. th[s] \in Job
      BY <1>2, OthersKept
    <3> QED
      BY <2>1, <3>3, <3>4 DEF Job
  <2>4. session' = session \/ session' = None
    BY <2>3, Writers DEF TileStep, Purge, ReadWall, ReadToken, Beat, OwnedWall, CloseWall,
       wall, Drop
  <2> QED
    BY <2>2, <2>4 DEF Live
<1> QED
  BY <1>1, <1>2

LEMMA WallNext ==
  ASSUME TypeInv, WallInv, [Next]_vars
  PROVE  WallInv'
<1>1. ASSUME NEW t \in Threads, Act(t) PROVE WallInv'
  BY <1>1, TilesAct, OpeningAct DEF WallInv
<1>2. ASSUME NEW t \in Threads, Begin(t) PROVE WallInv'
  <2>1. /\ UNCHANGED <<session, tiles, lost>>
        /\ \A s \in Threads \ {t} : th'[s] = th[s]
        /\ th'[t].pc # "newtoken"
    BY <1>2, BeginWrites, BeginSound DEF Firsts
  <2> QED
    BY <2>1 DEF WallInv, OpeningSees, TilesGoWithSession, Live, Without
<1>3. ASSUME \/ (\E i \in Issued : Expire(i)) /\ UNCHANGED <<wall, scenario, begun>>
             \/ Rotate /\ UNCHANGED <<wall, scenario, begun>>
             \/ Grow /\ UNCHANGED <<tables, scenario, begun>>
             \/ UNCHANGED vars
      PROVE  WallInv'
  <2>1. UNCHANGED <<th, lost, tiles>> /\ (session' = session \/ Grow)
    BY <1>3, PassWrites
  <2>2. session' = session \/ (session' # None /\ session # None
                                 /\ session'.token = session.token /\ session'.age # "live")
    <3>1. CASE Grow
      <4>1. session \in Session /\ session # None
        BY <3>1 DEF Grow, TypeInv, TypeOK, WallOK
      <4>2. session' # None
        <5>1. session' \in Session
          BY <3>1, <4>1 DEF Grow, Session, Ages
        <5> QED
          BY <5>1, NoSessionAssumption
      <4>3. session'.token = session.token /\ session'.age # "live"
        BY <3>1, <4>1 DEF Grow, Session
      <4> QED
        BY <4>1, <4>2, <4>3
    <3> QED
      BY <2>1, <3>1
  <2> QED
    BY <2>1, <2>2 DEF WallInv, OpeningSees, TilesGoWithSession, Live, Without
<1> QED
  BY <1>1, <1>2, <1>3, Steps

LEMMA WallStays == Spec => [](TypeInv /\ WallInv)
<1>1. Init => WallInv
  BY DEF Init, TilesInit, WallInv, OpeningSees, TilesGoWithSession
<1>2. WallInv /\ TypeInv /\ [Next]_vars => WallInv'
  BY WallNext
<1> QED
  BY <1>1, <1>2, TypesStay, PTL DEF Spec

\* TilesGoWithSession: whatever opens, purges and closes at once, no phone's
\* tile outlives its session (park_open, park_purge and park_delete take the
\* beats with them), unless a beat was written after the session had gone.
THEOREM TilesGo == Spec => []TilesGoWithSession
BY WallStays, PTL DEF WallInv

\* TokenStands: an opening of a live session hands back its token
\* (open_park_session); only an opening that had not seen another one's
\* session replaces it.
THEOREM TokenStays == Spec => TokenStands
<1>1. TypeInv /\ WallInv /\ [Next]_vars => [Stranded => "crossed walls" \in lost']_vars
  <2> SUFFICES ASSUME TypeInv, WallInv, [Next]_vars, Stranded
               PROVE  "crossed walls" \in lost'
    OBVIOUS
  <2>1. session \in Session \cup {None}
    BY DEF TypeInv, TypeOK, WallOK
  <2>2. session' # session /\ session # None /\ session' # None /\ Live
        /\ session'.token # session.token
    BY DEF Stranded, Live
  <2>3. ASSUME NEW t \in Threads, Act(t) PROVE "crossed walls" \in lost'
    <3>1. OpenWall(t)
      BY <2>2, <2>3, Writers DEF TileStep, Purge, ReadWall, ReadToken, Beat, OwnedWall,
         CloseWall, wall, Drop
    <3>2. ~th[t].fresh
      <4>1. th[t] # Idle /\ th[t].pc = "newtoken"
        BY <3>1, Here DEF OpenWall
      <4> QED
        BY <2>2, <4>1 DEF WallInv, OpeningSees
    <3> QED
      BY <3>1, <3>2 DEF OpenWall
  <2>4. ASSUME NEW t \in Threads, Begin(t) PROVE FALSE
    BY <2>2, <2>4, BeginWrites
  <2>5. ASSUME \/ (\E i \in Issued : Expire(i)) /\ UNCHANGED <<wall, scenario, begun>>
               \/ Rotate /\ UNCHANGED <<wall, scenario, begun>>
               \/ Grow /\ UNCHANGED <<tables, scenario, begun>>
               \/ UNCHANGED vars
        PROVE  FALSE
    <3>1. Grow
      BY <2>2, <2>5, PassWrites
    <3> QED
      BY <2>1, <2>2, <3>1 DEF Grow, Session, Ages
  <2> QED
    BY <2>3, <2>4, <2>5, Steps
<1> QED
  BY <1>1, WallStays, PTL DEF Spec, TokenStands

-----------------------------------------------------------------------------
(* Exams.                                                                   *)

Editing == {"create", "patch", "release"}

\* A request that holds its copy of an exam's row.
Holds(job) ==
  job # Idle /\ job.req.op \in Editing /\ job.pc \in {"named", "exams", "putexam"}

Last(row) == IF row = None THEN Blank ELSE row

\* A copy that nobody has written over is what its request makes of the row
\* that is there.
CopiesSee ==
  \A t \in Threads :
    Holds(th[t]) /\ th[t].fresh => th[t].doc = Edited(th[t], Last(exam[th[t].req.exam]))

EditsInv == CopiesSee /\ EditsKept

\* An edit depends on the request alone, and on the row where it keeps fields.
LEMMA EditedSame ==
  ASSUME NEW job, NEW next, next.req = job.req, next.n = job.n
  PROVE  /\ \A row : Edited(next, row) = Edited(job, row)
         /\ job.req.op = "create" => \A row, other : Edited(job, row) = Edited(job, other)
BY DEF Edited, FieldsOf, Fields

\* The steps of a request that holds its copy: it makes it, or keeps it.
LEMMA CopyMoves ==
  ASSUME TypeInv, NEW t \in Threads, Act(t), Holds(th'[t])
  PROVE  /\ th'[t].req = th[t].req /\ th'[t].n = th[t].n /\ th[t].req.exam \in Exams
         /\ exam' = exam /\ want' = want /\ course' = course /\ roster' = roster
         /\ \/ /\ CreateExam(t) /\ th[t].req.op = "create"
               /\ th'[t].doc = Edited(th[t], Blank)
               /\ th'[t].pc = BeforePut(th[t].req)
            \/ /\ ReadExam(t) /\ exam[th[t].req.exam] # None
               /\ th[t].req.op \in {"patch", "release"}
               /\ th'[t].doc = Edited(th[t], exam[th[t].req.exam])
               /\ th'[t].pc = AfterExam(th[t].req)
            \/ /\ NamedCourse(t) \/ CountExams(t)
               /\ Holds(th[t]) /\ th'[t].doc = th[t].doc /\ th'[t].fresh = th[t].fresh
               /\ NamedCourse(t) => th[t].req.course \in course
<1> DEFINE job == th[t]
           e == job.req.exam
<1>1. Turn(t) /\ th'[t] # Idle
  BY ActMoves, MovesTurn DEF Holds
<1>2. th'[t].req = job.req /\ th'[t].n = job.n /\ job # Idle
  BY <1>1 DEF Turn, Follows
<1>3. job.req.op \in Editing /\ e \in Exams
  <2>1. job \in Job /\ Asked(job.req)
    BY <1>2 DEF TypeInv, FramesOK, Sound
  <2> QED
    BY <1>2, <2>1 DEF Holds, Asked, OfExam, Editing
<1>4. CreateExam(t) \/ ReadExam(t) \/ NamedCourse(t) \/ CountExams(t)
  <2>1. ~ReadCourse(t)
    BY <1>3 DEF ReadCourse, Editing
  <2> QED
    BY <1>1, <2>1, Arrivals DEF Holds
<1>5. UNCHANGED <<exam, want, course, roster>>
  BY <1>4 DEF CreateExam, ReadExam, NamedCourse, CountExams, tables, desk
<1>6. job \in Job /\ th \in [Threads -> Job \cup {Idle}] /\ Framed(job)
  BY <1>2 DEF TypeInv, TypeOK, FramesOK, Sound
<1>7. CASE CreateExam(t)
  <2>1. job.req.op = "create"
    BY <1>6, <1>7 DEF CreateExam, At, Framed, Fits, Routed
  <2> DEFINE row == Edited(job, Blank)
             pc == BeforePut(job.req)
  <2>2. Set(t, [job EXCEPT !.doc = row, !.fresh = TRUE, !.pc = pc])
    BY <1>7 DEF CreateExam
  <2> HIDE DEF row, pc
  <2>3. th'[t].doc = row /\ th'[t].pc = pc
    BY <1>6, <2>2 DEF Set, Job
  <2> QED
    BY <1>2, <1>3, <1>5, <1>7, <2>1, <2>3 DEF row, pc
<1>8. CASE ReadExam(t)
  <2> DEFINE row == Edited(job, exam[e])
             pc == AfterExam(job.req)
  <2>1. job.req.op \in {"patch", "release"}
    BY <1>3, <1>6, <1>8 DEF ReadExam, At, Framed, Fits, Routed, Editing
  <2>2. exam[e] # None /\ Set(t, [job EXCEPT !.doc = row, !.fresh = TRUE, !.pc = pc])
    BY <1>1, <1>8, <2>1, SetTo DEF ReadExam, Finish
  <2> HIDE DEF row, pc
  <2>3. th'[t].doc = row /\ th'[t].pc = pc
    BY <1>6, <2>2 DEF Set, Job
  <2> QED
    BY <1>2, <1>3, <1>5, <1>8, <2>1, <2>2, <2>3 DEF row, pc
<1>9. CASE NamedCourse(t) \/ CountExams(t)
  <2>1. Holds(job)
    BY <1>2, <1>3, <1>9 DEF Holds, NamedCourse, CountExams, At
  <2>2. /\ \/ Go(t, "exams") \/ Go(t, "putexam")
           \/ Set(t, [job EXCEPT !.pc = "putexam", !.counted = TRUE])
        /\ NamedCourse(t) => job.req.course \in course
    BY <1>1, <1>9, SetTo DEF NamedCourse, CountExams, Finish
  <2>3. th'[t].doc = job.doc /\ th'[t].fresh = job.fresh
    BY <1>6, <2>2 DEF Go, Set, Job
  <2> QED
    BY <1>2, <1>3, <1>5, <1>9, <2>1, <2>2, <2>3
<1> QED
  BY <1>4, <1>7, <1>8, <1>9

\* A copy stays fresh only while its row stays.
LEMMA CopiesStay ==
  ASSUME TypeInv, NEW t \in Threads, Act(t), NEW s \in Threads, s # t,
         Holds(th'[s]), th'[s].fresh
  PROVE  /\ th'[s] = th[s] /\ Holds(th[s]) /\ th[s].fresh /\ th[s].req.exam \in Exams
         /\ exam'[th[s].req.exam] = exam[th[s].req.exam]
         /\ DeleteCourse(t) => th[s].req.course # th[t].req.course
<1> DEFINE e == th[s].req.exam
<1>1. /\ th'[s] = th[s] /\ th[s] # Idle /\ th[s] \in Job /\ Sound(th[s])
  BY OthersKept DEF Holds
<1>2. e \in Exams /\ th[s].req.op \in Editing
  BY <1>1 DEF Sound, Asked, OfExam, Holds, Editing
<1>3. s \in Others(t)
  BY <1>1 DEF Others, Busy
<1>4. ASSUME NEW R, SetOver(t, Idle, R) PROVE s \notin R
  <2>1. s \in R => th'[s] = [th[s] EXCEPT !.fresh = FALSE]
    BY <1>4 DEF SetOver
  <2>2. s \in R => ~th'[s].fresh
    BY <1>1, <2>1 DEF Job
  <2> QED
    BY <2>2
<1>5. exam'[e] = exam[e]
  <2>1. exam \in [Exams -> Exam \cup {None}]
    BY DEF TypeInv, TypeOK, DeskOK
  <2>2. CASE PutExam(t) \/ DeleteExam(t)
    <3>1. SetOver(t, Idle, Holding(t, th[t].req.exam))
      BY <2>2 DEF PutExam, DeleteExam
    <3>2. s \notin Holding(t, th[t].req.exam)
      BY <1>4, <3>1
    <3>3. e # th[t].req.exam
      BY <1>2, <1>3, <3>2 DEF Holding, Editing
    <3>4. PutExam(t) => exam' = [exam EXCEPT ![th[t].req.exam] = PutRow(th[t])]
      BY DEF PutExam
    <3>5. DeleteExam(t) => exam' = [exam EXCEPT ![th[t].req.exam] = None]
      BY DEF DeleteExam, DropExam
    <3> QED
      BY <1>2, <2>1, <2>2, <3>3, <3>4, <3>5
  <2> QED
    BY <2>2, Writers
<1>6. DeleteCourse(t) => th[s].req.course # th[t].req.course
  <2> SUFFICES ASSUME DeleteCourse(t) PROVE th[s].req.course # th[t].req.course
    OBVIOUS
  <2>1. SetOver(t, Idle, {o \in Others(t) : th[o].req.course = th[t].req.course})
    BY DEF DeleteCourse
  <2>2. s \notin {o \in Others(t) : th[o].req.course = th[t].req.course}
    BY <1>4, <2>1
  <2> QED
    BY <1>3, <2>2
<1> QED
  BY <1>1, <1>2, <1>5, <1>6

LEMMA CopiesAct ==
  ASSUME TypeInv, CopiesSee, NEW t \in Threads, Act(t)
  PROVE  CopiesSee'
<1> SUFFICES ASSUME NEW s \in Threads, Holds(th'[s]), th'[s].fresh
             PROVE  th'[s].doc = Edited(th'[s], Last(exam'[th'[s].req.exam]))
  BY DEF CopiesSee, Holds, Last, Edited, FieldsOf, Blank
<1>1. CASE s = t
  <2> DEFINE row == Last(exam[th[t].req.exam])
  <2>1. th'[t].req = th[t].req /\ th'[t].n = th[t].n /\ exam' = exam
    BY <1>1, CopyMoves
  <2>2. th'[t].doc = Edited(th[t], row)
    <3>1. CASE th[t].req.op = "create" /\ th'[t].doc = Edited(th[t], Blank)
      BY <3>1, EditedSame
    <3>2. CASE exam[th[t].req.exam] # None /\ th'[t].doc = Edited(th[t], exam[th[t].req.exam])
      BY <3>2 DEF Last
    <3>3. CASE Holds(th[t]) /\ th'[t].doc = th[t].doc /\ th'[t].fresh = th[t].fresh
      BY <1>1, <3>3 DEF CopiesSee
    <3> QED
      BY <1>1, <3>1, <3>2, <3>3, CopyMoves
  <2>3. Edited(th'[t], row) = Edited(th[t], row)
    BY <2>1, EditedSame
  <2> QED
    BY <1>1, <2>1, <2>2, <2>3
<1>2. CASE s # t
  <2>1. /\ th'[s] = th[s] /\ Holds(th[s]) /\ th[s].fresh
        /\ exam'[th[s].req.exam] = exam[th[s].req.exam]
    BY <1>2, CopiesStay
  <2> QED
    BY <2>1 DEF CopiesSee
<1> QED
  BY <1>1, <1>2

LEMMA EditsAct ==
  ASSUME TypeInv, CopiesSee, EditsKept, NEW t \in Threads, Act(t)
  PROVE  EditsKept'
<1> SUFFICES ASSUME "stale exam" \notin lost'
             PROVE  exam' = want'
  BY DEF EditsKept, Without
<1>1. exam = want
  BY LostGrows DEF EditsKept, Without
<1>2. CASE PutExam(t)
  <2> DEFINE job == th[t]
             e == job.req.exam
  <2>1. job.fresh /\ job # Idle /\ job.pc = "putexam" /\ e \in Exams
        /\ job.req.op \in Editing
    <3>1. job # Idle /\ job.pc = "putexam" /\ Asked(job.req) /\ Fits(job, "putexam")
      BY <1>2, Here DEF PutExam
    <3>2. job.req.op \in Editing
      BY <3>1 DEF Fits, Routed, Editing
    <3> QED
      BY <1>2, <3>1, <3>2 DEF PutExam, Asked, OfExam, Editing
  <2>2. job.doc = Edited(job, Last(exam[e]))
    BY <2>1 DEF CopiesSee, Holds
  <2>3. /\ exam' = [exam EXCEPT ![e] = job.doc]
        /\ want' = [want EXCEPT ![e] = Edited(job, Last(want[e]))]
    BY <1>2 DEF PutExam, PutRow, Last
  <2> QED
    BY <1>1, <2>2, <2>3
<1>3. CASE DeleteExam(t)
  BY <1>1, <1>3 DEF DeleteExam, DropExam
<1> QED
  BY <1>1, <1>2, <1>3, Writers

LEMMA EditsNext ==
  ASSUME TypeInv, EditsInv, [Next]_vars
  PROVE  EditsInv'
<1>1. ASSUME NEW t \in Threads, Act(t) PROVE EditsInv'
  BY <1>1, CopiesAct, EditsAct DEF EditsInv
<1>2. ASSUME NEW t \in Threads, Begin(t) PROVE EditsInv'
  <2>1. /\ UNCHANGED <<exam, want, lost>>
        /\ \A s \in Threads \ {t} : th'[s] = th[s]
        /\ th'[t].pc \notin {"named", "exams", "putexam"}
    BY <1>2, BeginWrites, BeginSound DEF Firsts
  <2>2. CopiesSee'
    <3> SUFFICES ASSUME NEW s \in Threads, Holds(th'[s]), th'[s].fresh
                 PROVE  th'[s].doc = Edited(th'[s], Last(exam'[th'[s].req.exam]))
      BY DEF CopiesSee, Holds, Last, Edited, FieldsOf, Blank
    <3>1. s # t /\ th'[s] = th[s]
      BY <2>1 DEF Holds
    <3>2. th[s].doc = Edited(th[s], Last(exam[th[s].req.exam]))
      BY <3>1 DEF EditsInv, CopiesSee
    <3> QED
      BY <2>1, <3>1, <3>2
  <2> QED
    BY <2>1, <2>2 DEF EditsInv, EditsKept, Without
<1>3. ASSUME UNCHANGED <<th, exam, want, lost>> PROVE EditsInv'
  <2>1. CopiesSee'
    <3> SUFFICES ASSUME NEW s \in Threads, Holds(th'[s]), th'[s].fresh
                 PROVE  th'[s].doc = Edited(th'[s], Last(exam'[th'[s].req.exam]))
      BY DEF CopiesSee, Holds, Last, Edited, FieldsOf, Blank
    <3>1. th[s].doc = Edited(th[s], Last(exam[th[s].req.exam]))
      BY <1>3 DEF EditsInv, CopiesSee
    <3> QED
      BY <1>3, <3>1
  <2> QED
    BY <1>3, <2>1 DEF EditsInv, EditsKept, Without
<1> QED
  BY <1>1, <1>2, <1>3, Steps, PassWrites

LEMMA EditsStay == Spec => [](TypeInv /\ EditsInv)
<1>1. Init => EditsInv
  <2> SUFFICES ASSUME Init PROVE EditsInv
    OBVIOUS
  <2>1. want = exam /\ \A t \in Threads : th[t] = Idle
    BY DEF Init, InitDesk
  <2> QED
    BY <2>1 DEF EditsInv, CopiesSee, EditsKept, Holds
<1>2. EditsInv /\ TypeInv /\ [Next]_vars => EditsInv'
  BY EditsNext
<1> QED
  BY <1>1, <1>2, TypesStay, PTL DEF Spec

\* EditsKept: however creations, patches, releases and deletions of an exam
\* overlap (each reads the row, edits it and puts it back whole), the row is
\* what all of them asked for, as long as none was put over a row that its
\* request had not seen.
THEOREM EditsStand == Spec => []EditsKept
BY EditsStay, PTL DEF EditsInv

-----------------------------------------------------------------------------
(* Exams and their courses.                                                 *)

Unharmed == Without({"stale exam", "stale course", "fault"})

\* Whoever is to look a course up was given one.
NamedAsks ==
  \A t \in Threads : Holds(th[t]) /\ th[t].pc = "named" => NeedsCourse(th[t].req)

\* A copy that is past the lookup is of an exam whose course exists.
CopiesOnCourse ==
  Unharmed =>
    \A t \in Threads :
      Holds(th[t]) /\ th[t].fresh /\ th[t].pc # "named" => th[t].doc.course \in course \cup {None}

\* A deletion that has seen every exam of its course gone.
DropSees ==
  Unharmed =>
    \A t \in Threads :
      th[t] # Idle /\ th[t].pc = "dropcourse" /\ th[t].fresh =>
        \A e \in Listed : exam[e].course # th[t].req.course

CourseInv == NamedAsks /\ CopiesOnCourse /\ DropSees /\ ExamOnCourse

LEMMA UnharmedBefore ==
  ASSUME NEW t \in Threads, Act(t), Unharmed'
  PROVE  Unharmed
BY LostGrows DEF Unharmed, Without

\* The course of a row that a request makes.
LEMMA EditedCourse ==
  ASSUME NEW job, NEW row, job.req.op \in Editing
  PROVE  /\ Edited(job, row).course = job.req.course \/ Edited(job, row).course = row.course
         /\ NeedsCourse(job.req) => Edited(job, row).course = job.req.course
         /\ ~NeedsCourse(job.req) =>
              \/ Edited(job, row).course = None
              \/ job.req.op # "create" /\ Edited(job, row).course = row.course
BY DEF Edited, FieldsOf, Fields, NeedsCourse, Editing

LEMMA NamedAct ==
  ASSUME TypeInv, NamedAsks, NEW t \in Threads, Act(t)
  PROVE  NamedAsks'
<1> SUFFICES ASSUME NEW s \in Threads, Holds(th'[s]), th'[s].pc = "named"
             PROVE  NeedsCourse(th'[s].req)
  BY DEF NamedAsks, Holds, NeedsCourse, FieldsOf
<1>1. CASE s = t
  <2>1. CASE th'[t].pc = BeforePut(th[t].req)
    BY <1>1, <2>1, CopyMoves DEF BeforePut
  <2>2. CASE th[t].req.op \in {"patch", "release"} /\ th'[t].pc = AfterExam(th[t].req)
    BY <1>1, <2>2, CopyMoves DEF AfterExam, BeforePut
  <2>3. CASE NamedCourse(t) \/ CountExams(t)
    <3>1. ~To(t, {"exams", "putexam"}) /\ ~To(t, {"putexam"})
      BY <1>1 DEF To, Holds
    <3> QED
      BY <2>3, <3>1, DeskLeads
  <2> QED
    BY <1>1, <2>1, <2>2, <2>3, CopyMoves
<1>2. CASE s # t
  <2>1. th[s] # Idle /\ th'[s].pc = th[s].pc /\ th'[s].req = th[s].req
    BY <1>2, OthersKept DEF Holds
  <2> QED
    BY <2>1 DEF NamedAsks, Holds
<1> QED
  BY <1>1, <1>2

LEMMA OnCourseAct ==
  ASSUME TypeInv, CopiesSee, CourseInv, NEW t \in Threads, Act(t)
  PROVE  CopiesOnCourse'
<1> SUFFICES ASSUME Unharmed', NEW s \in Threads, Holds(th'[s]), th'[s].fresh,
                    th'[s].pc # "named"
             PROVE  th'[s].doc.course \in course' \cup {None}
  BY DEF CopiesOnCourse, Holds
<1>1. Unharmed
  BY UnharmedBefore
<1> DEFINE job == th[t]
<1>2. CASE s = t
  <2>1. course' = course /\ job.req.op \in Editing
    BY <1>2, CopyMoves DEF Holds
  <2>2. CASE job.req.op = "create" /\ th'[t].doc = Edited(job, Blank)
             /\ th'[t].pc = BeforePut(job.req)
    <3>1. ~NeedsCourse(job.req)
      BY <1>2, <2>2 DEF BeforePut
    <3> QED
      BY <1>2, <2>1, <2>2, <3>1, EditedCourse
  <2>3. CASE /\ exam[job.req.exam] # None /\ job.req.op \in {"patch", "release"}
             /\ th'[t].doc = Edited(job, exam[job.req.exam])
             /\ th'[t].pc = AfterExam(job.req)
    <3>1. ~NeedsCourse(job.req)
      BY <1>2, <2>3 DEF AfterExam, BeforePut, NeedsCourse
    <3>2. exam[job.req.exam].course \in course \cup {None}
      BY <1>1, <1>2, <2>3, CopyMoves DEF CourseInv, ExamOnCourse, Unharmed, Listed
    <3> QED
      BY <1>2, <2>1, <2>3, <3>1, <3>2, EditedCourse
  <2>4. CASE /\ NamedCourse(t) \/ CountExams(t)
             /\ Holds(job) /\ th'[t].doc = job.doc /\ th'[t].fresh = job.fresh
             /\ NamedCourse(t) => job.req.course \in course
    <3>1. CASE job.pc = "named"
      <4>1. NeedsCourse(job.req) /\ job.doc = Edited(job, Last(exam[job.req.exam]))
        BY <1>2, <2>4, <3>1 DEF CourseInv, NamedAsks, CopiesSee
      <4>2. job.doc.course = job.req.course
        BY <2>1, <4>1, EditedCourse
      <4>3. NamedCourse(t)
        BY <2>4, <3>1 DEF CountExams, At
      <4> QED
        BY <1>2, <2>1, <2>4, <4>2, <4>3
    <3>2. CASE job.pc # "named"
      BY <1>1, <1>2, <2>1, <2>4, <3>2 DEF CourseInv, CopiesOnCourse
    <3> QED
      BY <3>1, <3>2
  <2> QED
    BY <1>2, <2>2, <2>3, <2>4, CopyMoves
<1>3. CASE s # t
  <2> DEFINE e == th[s].req.exam
             c == job.req.course
  <2>1. /\ th'[s] = th[s] /\ Holds(th[s]) /\ th[s].fresh /\ e \in Exams
        /\ DeleteCourse(t) => th[s].req.course # c
    BY <1>3, CopiesStay
  <2>2. th[s].doc.course \in course \cup {None}
    BY <1>1, <2>1 DEF CourseInv, CopiesOnCourse
  <2>3. CASE DeleteCourse(t)
    <3>1. job # Idle /\ job.pc = "dropcourse" /\ c \in Courses
      BY <2>3, Here DEF DeleteCourse, Fits, Routed, Asked, OfCourse
    <3>2. job.fresh
      BY <2>3 DEF DeleteCourse, Unharmed, Without
    <3>3. \A x \in Listed : exam[x].course # c
      BY <1>1, <3>1, <3>2 DEF CourseInv, DropSees
    <3>4. Last(exam[e]).course # c
      BY <2>1, <3>1, <3>3, NamesAssumption DEF Last, Blank, Listed
    <3>5. th[s].doc = Edited(th[s], Last(exam[e])) /\ th[s].req.op \in Editing
      BY <2>1 DEF CopiesSee, Holds
    <3>6. th[s].doc.course # c
      BY <2>1, <2>3, <3>4, <3>5, EditedCourse
    <3>7. course' = course \ {c}
      BY <2>3 DEF DeleteCourse, DropCourse
    <3> QED
      BY <2>1, <2>2, <3>6, <3>7
  <2>4. CASE ~DeleteCourse(t)
    <3>1. course \subseteq course'
      BY <2>4, Writers DEF PutCourse
    <3> QED
      BY <2>1, <2>2, <3>1
  <2> QED
    BY <2>3, <2>4
<1> QED
  BY <1>2, <1>3

LEMMA DropSeesAct ==
  ASSUME TypeInv, DropSees, NEW t \in Threads, Act(t)
  PROVE  DropSees'
<1> SUFFICES ASSUME Unharmed', NEW s \in Threads, th'[s] # Idle, th'[s].pc = "dropcourse",
                    th'[s].fresh, NEW e \in Exams, exam'[e] # None
             PROVE  exam'[e].course # th'[s].req.course
  BY DEF DropSees, Listed
<1>1. Unharmed
  BY UnharmedBefore
<1>2. CASE s = t
  <2>1. CourseExams(t)
    BY <1>2, Arrivals
  <2>2. /\ Turn(t) /\ ~Finish(t) /\ "fault" \notin lost' /\ exam' = exam
    BY <1>2, <2>1, ActMoves, MovesTurn, SetTo DEF Unharmed, Without, CourseExams, tables,
       desk, Finish
  <2>3. ~\E x \in Listed : exam[x].course = th[t].req.course
    BY <2>1, <2>2 DEF CourseExams
  <2>4. th'[t].req = th[t].req
    BY <1>2, <2>2 DEF Turn, Follows
  <2> QED
    BY <1>2, <2>2, <2>3, <2>4 DEF Listed
<1>3. CASE s # t
  <2>1. th'[s] = th[s] /\ th[s] # Idle /\ th[s] \in Job
    BY <1>3, OthersKept
  <2>2. ~PutExam(t) /\ ~DeleteExam(t)
    <3> SUFFICES ASSUME PutExam(t) \/ DeleteExam(t) PROVE FALSE
      OBVIOUS
    <3>1. SetOver(t, Idle, Holding(t, th[t].req.exam))
      BY DEF PutExam, DeleteExam
    <3>2. s \in Holding(t, th[t].req.exam)
      BY <1>3, <2>1 DEF Holding, Others, Busy, At
    <3>3. th'[s] = [th[s] EXCEPT !.fresh = FALSE]
      BY <1>3, <3>1, <3>2 DEF SetOver
    <3> QED
      BY <2>1, <3>3 DEF Job
  <2>3. exam' = exam
    BY <2>2, Writers
  <2> QED
    BY <1>1, <2>1, <2>3 DEF DropSees, Listed
<1> QED
  BY <1>2, <1>3

LEMMA ExamCourseAct ==
  ASSUME TypeInv, CourseInv, NEW t \in Threads, Act(t)
  PROVE  ExamOnCourse'
<1> SUFFICES ASSUME Unharmed', NEW e \in Exams, exam'[e] # None
             PROVE  exam'[e].course \in course' \cup {None}
  BY DEF ExamOnCourse, Listed, Unharmed
<1>1. Unharmed
  BY UnharmedBefore
<1>2. exam[e] # None => exam[e].course \in course \cup {None}
  BY <1>1 DEF CourseInv, ExamOnCourse, Listed, Unharmed
<1> DEFINE job == th[t]
<1>3. CASE PutExam(t)
  <2>1. course' = course
    BY <1>3 DEF PutExam
  <2>2. Holds(job) /\ job.pc # "named"
    <3>1. job # Idle /\ job.pc = "putexam" /\ Fits(job, "putexam")
      BY <1>3, Here DEF PutExam
    <3> QED
      BY <3>1 DEF Fits, Routed, Holds, Editing
  <2>3. job.fresh
    BY <1>3 DEF PutExam, Unharmed, Without
  <2>4. job.doc.course \in course \cup {None}
    BY <1>1, <2>2, <2>3 DEF CourseInv, CopiesOnCourse
  <2>5. exam' = [exam EXCEPT ![job.req.exam] = job.doc]
    BY <1>3 DEF PutExam, PutRow
  <2>6. exam \in [Exams -> Exam \cup {None}]
    BY DEF TypeInv, TypeOK, DeskOK
  <2> QED
    BY <1>2, <2>1, <2>4, <2>5, <2>6
<1>4. CASE DeleteExam(t)
  <2>1. course' = course /\ exam' = [exam EXCEPT ![job.req.exam] = None]
    BY <1>4 DEF DeleteExam, DropExam
  <2>2. exam \in [Exams -> Exam \cup {None}]
    BY DEF TypeInv, TypeOK, DeskOK
  <2> QED
    BY <1>2, <2>1, <2>2
<1>5. CASE DeleteCourse(t)
  <2>1. job # Idle /\ job.pc = "dropcourse"
    BY <1>5, Here DEF DeleteCourse
  <2>2. job.fresh
    BY <1>5 DEF DeleteCourse, Unharmed, Without
  <2>3. \A x \in Listed : exam[x].course # job.req.course
    BY <1>1, <2>1, <2>2 DEF CourseInv, DropSees
  <2>4. exam' = exam /\ course' = course \ {job.req.course}
    BY <1>5 DEF DeleteCourse, DropCourse, desk
  <2> QED
    BY <1>2, <2>3, <2>4 DEF Listed
<1>6. CASE ~PutExam(t) /\ ~DeleteExam(t) /\ ~DeleteCourse(t)
  <2>1. exam' = exam /\ course \subseteq course'
    BY <1>6, Writers DEF PutCourse
  <2> QED
    BY <1>2, <2>1
<1> QED
  BY <1>3, <1>4, <1>5, <1>6

LEMMA CourseNext ==
  ASSUME TypeInv, EditsInv, CourseInv, [Next]_vars
  PROVE  CourseInv'
<1>1. ASSUME NEW t \in Threads, Act(t) PROVE CourseInv'
  BY <1>1, NamedAct, OnCourseAct, DropSeesAct, ExamCourseAct DEF EditsInv, CourseInv
<1>2. ASSUME NEW t \in Threads, Begin(t) PROVE CourseInv'
  <2>1. /\ UNCHANGED <<exam, course, lost>>
        /\ \A s \in Threads \ {t} : th'[s] = th[s]
        /\ th'[t].pc \notin {"named", "exams", "putexam", "dropcourse"}
    BY <1>2, BeginWrites, BeginSound DEF Firsts
  <2>2. NamedAsks'
    BY <2>1 DEF CourseInv, NamedAsks, Holds, NeedsCourse, FieldsOf
  <2>3. CopiesOnCourse'
    BY <2>1 DEF CourseInv, CopiesOnCourse, Holds, Unharmed, Without
  <2>4. DropSees' /\ ExamOnCourse'
    BY <2>1 DEF CourseInv, DropSees, ExamOnCourse, Listed, Unharmed, Without
  <2> QED
    BY <2>2, <2>3, <2>4 DEF CourseInv
<1>3. ASSUME UNCHANGED <<th, exam, course, lost>> PROVE CourseInv'
  <2>1. NamedAsks'
    BY <1>3 DEF CourseInv, NamedAsks, Holds, NeedsCourse, FieldsOf
  <2>2. CopiesOnCourse'
    BY <1>3 DEF CourseInv, CopiesOnCourse, Holds, Unharmed, Without
  <2>3. DropSees' /\ ExamOnCourse'
    BY <1>3 DEF CourseInv, DropSees, ExamOnCourse, Listed, Unharmed, Without
  <2> QED
    BY <2>1, <2>2, <2>3 DEF CourseInv
<1> QED
  BY <1>1, <1>2, <1>3, Steps, PassWrites

\* ExamOnCourse: a course is deleted only when the exams are all on others,
\* and an exam is put only on a course that was there; neither undoes the
\* other in whatever order their requests read and write, unless one wrote
\* over what it had not seen or a listing of the exams failed.
THEOREM ExamsOnCourses == Spec => []ExamOnCourse
<1>1. Init => CourseInv
  <2> SUFFICES ASSUME Init PROVE CourseInv
    OBVIOUS
  <2>1. \A t \in Threads : th[t] = Idle
    BY DEF Init
  <2>2. PICK sc \in Scenarios : course = sc.courses /\ InitDesk(sc)
    BY DEF Init
  <2>3. sc.first \in course
    BY <2>2, ScenarioAssumption
  <2>4. \A e \in Exams : exam[e] # None => exam[e].course = sc.first
    BY <2>2 DEF InitDesk, Blank
  <2> QED
    BY <2>1, <2>3, <2>4
       DEF CourseInv, NamedAsks, CopiesOnCourse, DropSees, ExamOnCourse, Listed, Holds
<1>2. CourseInv /\ TypeInv /\ EditsInv /\ [Next]_vars => CourseInv'
  BY CourseNext
<1>3. CourseInv => ExamOnCourse
  BY DEF CourseInv
<1> QED
  BY <1>1, <1>2, <1>3, EditsStay, PTL DEF Spec

-----------------------------------------------------------------------------
(* Parked phones.                                                           *)

\* A scan that goes on has the time of a parking.
ScansKnow ==
  \A t \in Threads :
    th[t] # Idle /\ th[t].req.op = "scan" /\ th[t].pc \in {"readpark", "writepark"} =>
      th[t].at # 0

\* A copy of a phone's row that nobody has written over is what the request
\* changes in it, unless the row is gone.
ParksSee ==
  \A t \in Threads :
    th[t] # Idle /\ th[t].pc = "writepark" /\ th[t].fresh =>
      Row(th[t]) = None \/ th[t].doc = MergePark(th[t], Row(th[t]))

ParkInv == ScansKnow /\ ParksSee

\* A change of a phone's row neither parks it anew nor takes its clearance.
LEMMA MergeKeeps ==
  ASSUME NEW job, NEW row \in Park, job.req.op \in {"scan", "beat", "override"},
         job.req.op = "scan" => job.at # 0
  PROVE  /\ row.over => MergePark(job, row).over
         /\ row.at # 0 => MergePark(job, row).at # 0
BY DEF MergePark, Park

LEMMA ScansAct ==
  ASSUME TypeInv, ScansKnow, NEW t \in Threads, Act(t)
  PROVE  ScansKnow'
<1> SUFFICES ASSUME NEW s \in Threads, th'[s] # Idle, th'[s].req.op = "scan",
                    th'[s].pc \in {"readpark", "writepark"}
             PROVE  th'[s].at # 0
  BY DEF ScansKnow
<1>1. CASE s = t
  <2> DEFINE job == th[t]
  <2>1. th'[t].req = job.req /\ job # Idle
    BY <1>1, ActMoves, MovesTurn DEF Turn, Follows
  <2>2. job \in Job /\ Asked(job.req) /\ Framed(job) /\ th \in [Threads -> Job \cup {Idle}]
    BY <2>1 DEF TypeInv, TypeOK, FramesOK, Sound
  <2>3. Since(t) \/ ReadPark(t)
    <3>1. Since(t) \/ Parked(t) \/ ReadExam(t) \/ ReadPark(t)
      BY <1>1, Arrivals
    <3>2. ~Parked(t)
      BY <1>1, <2>1, <2>2 DEF Parked, At, Framed, Fits, Routed
    <3>3. CASE ReadExam(t)
      <4> DEFINE pc == AfterExam(job.req)
      <4>1. pc = "since"
        BY <1>1, <2>1 DEF AfterExam
      <4>2. Finish(t) \/ Go(t, pc)
        BY <1>1, <2>1, <3>3 DEF ReadExam
      <4>3. th'[t] = Idle \/ th'[t].pc = "since"
        BY <2>2, <4>1, <4>2, SetTo DEF Finish, Go, Set, Job
      <4> QED
        BY <1>1, <4>3
    <3> QED
      BY <3>1, <3>2, <3>3
  <2>4. CASE Since(t)
    <3> DEFINE at == IF Row(job) = None \/ Row(job).at = 0 THEN job.n ELSE Row(job).at
    <3>1. job.n # 0
      BY <2>4, Here DEF Since
    <3>2. at # 0
      BY <3>1
    <3>3. Set(t, [job EXCEPT !.at = at, !.pc = "readpark"])
      BY <2>4 DEF Since
    <3> HIDE DEF at
    <3>4. th'[t].at = at
      BY <2>2, <3>3 DEF Set, Job
    <3> QED
      BY <1>1, <3>2, <3>4
  <2>5. CASE ReadPark(t)
    <3> DEFINE doc == MergePark(job, IF Row(job) = None THEN NoPark ELSE Row(job))
    <3>1. job.pc = "readpark" /\ Set(t, [job EXCEPT !.doc = doc, !.fresh = TRUE,
                                                    !.pc = "writepark"])
      BY <2>5 DEF ReadPark, At
    <3> HIDE DEF doc
    <3>2. th'[t].at = job.at
      BY <2>2, <3>1 DEF Set, Job
    <3> QED
      BY <1>1, <2>1, <3>1, <3>2 DEF ScansKnow
  <2> QED
    BY <2>3, <2>4, <2>5
<1>2. CASE s # t
  BY <1>2, OthersKept DEF ScansKnow
<1> QED
  BY <1>1, <1>2

\* Whose rows of phones a step writes.
LEMMA ParkWrites ==
  ASSUME TypeInv, NEW t \in Threads, Act(t), NEW e \in Exams, NEW s \in Students
  PROVE  \/ park'[e][s] = park[e][s]
         \/ park'[e][s] = None
         \/ /\ WritePark(t) /\ e = th[t].req.exam /\ s = th[t].who
            /\ park'[e][s] = th[t].doc
<1>1. park \in [Exams -> [Students -> Park \cup {None}]]
  BY DEF TypeInv, TypeOK, DeskOK
<1>2. CASE WritePark(t)
  <2> DEFINE x == th[t].req.exam
             p == th[t].who
  <2>1. x \in Exams /\ p \in Students
    BY <1>2, Here DEF WritePark, Fits, Routed, Asked, OfExam, OfStudent
  <2>2. park' = [park EXCEPT ![x] = [park[x] EXCEPT ![p] = th[t].doc]]
    BY <1>1, <1>2, <2>1 DEF WritePark
  <2> QED
    BY <1>1, <1>2, <2>1, <2>2
<1>3. CASE DeleteExam(t)
  BY <1>1, <1>3 DEF DeleteExam, DropExam
<1>4. CASE Wipe(t)
  <2>1. park' = [x \in Exams |-> [park[x] EXCEPT ![th[t].who] = None]]
    BY <1>4 DEF Wipe, DropStudent
  <2> QED
    BY <1>1, <2>1
<1> QED
  BY <1>2, <1>3, <1>4, Writers

LEMMA ParksAct ==
  ASSUME TypeInv, ParksSee, NEW t \in Threads, Act(t)
  PROVE  ParksSee'
<1> SUFFICES ASSUME NEW s \in Threads, th'[s] # Idle, th'[s].pc = "writepark", th'[s].fresh
             PROVE  \/ park'[th'[s].req.exam][th'[s].who] = None
                    \/ th'[s].doc = MergePark(th'[s], park'[th'[s].req.exam][th'[s].who])
  BY DEF ParksSee, Row, MergePark
<1>1. CASE s = t
  <2> DEFINE job == th[t]
             row == IF Row(job) = None THEN NoPark ELSE Row(job)
             doc == MergePark(job, row)
  <2>1. ReadPark(t)
    BY <1>1, Arrivals
  <2>2. job \in Job /\ th \in [Threads -> Job \cup {Idle}]
    BY <2>1, Here, Working DEF ReadPark
  <2>3. park' = park /\ Set(t, [job EXCEPT !.doc = doc, !.fresh = TRUE, !.pc = "writepark"])
    BY <2>1 DEF ReadPark, tables, desk
  <2> HIDE DEF doc
  <2>4. th'[t].doc = doc /\ th'[t].req = job.req /\ th'[t].who = job.who
        /\ th'[t].at = job.at
    BY <2>2, <2>3 DEF Set, Job
  <2>5. CASE Row(job) # None
    <3>1. doc = MergePark(job, park[job.req.exam][job.who])
      BY <2>5 DEF doc, Row
    <3>2. MergePark(th'[t], park[job.req.exam][job.who])
            = MergePark(job, park[job.req.exam][job.who])
      BY <2>4 DEF MergePark
    <3> QED
      BY <1>1, <2>3, <2>4, <3>1, <3>2
  <2>6. CASE Row(job) = None
    BY <1>1, <2>3, <2>4, <2>6 DEF Row
  <2> QED
    BY <2>5, <2>6
<1>2. CASE s # t
  <2> DEFINE job == th[s]
             e == job.req.exam
             p == job.who
  <2>1. th'[s] = job /\ job # Idle /\ job \in Job /\ Sound(job)
    BY <1>2, OthersKept
  <2>2. e \in Exams /\ p \in Students
    BY <1>2, <2>1 DEF Sound, Framed, Fits, Routed, Asked, OfExam, OfStudent
  <2>3. park[e][p] = None \/ job.doc = MergePark(job, park[e][p])
    BY <1>2, <2>1 DEF ParksSee, Row
  <2>4. ~(WritePark(t) /\ e = th[t].req.exam /\ p = th[t].who)
    <3> SUFFICES ASSUME WritePark(t), e = th[t].req.exam, p = th[t].who PROVE FALSE
      OBVIOUS
    <3>1. s \in {o \in Others(t) : At(o, "writepark") /\ SameRow(th[o], th[t])}
      BY <1>2, <2>1 DEF Others, Busy, At, SameRow
    <3>2. th'[s] = [th[s] EXCEPT !.fresh = FALSE]
      BY <1>2, <3>1 DEF WritePark, SetOver
    <3> QED
      BY <2>1, <3>2 DEF Job
  <2>5. park'[e][p] = park[e][p] \/ park'[e][p] = None
    BY <2>2, <2>4, ParkWrites
  <2> QED
    BY <2>1, <2>3, <2>5
<1> QED
  BY <1>1, <1>2

LEMMA ParkNext ==
  ASSUME TypeInv, ParkInv, [Next]_vars
  PROVE  ParkInv'
<1>1. ASSUME NEW t \in Threads, Act(t) PROVE ParkInv'
  BY <1>1, ScansAct, ParksAct DEF ParkInv
<1>2. ASSUME NEW t \in Threads, Begin(t) PROVE ParkInv'
  <2>1. /\ park' = park
        /\ \A s \in Threads \ {t} : th'[s] = th[s]
        /\ th'[t].pc \notin {"readpark", "writepark"}
    BY <1>2, BeginWrites, BeginSound DEF Firsts
  <2> QED
    BY <2>1 DEF ParkInv, ScansKnow, ParksSee, Row, MergePark
<1>3. ASSUME UNCHANGED <<th, park>> PROVE ParkInv'
  BY <1>3 DEF ParkInv, ScansKnow, ParksSee, Row, MergePark
<1> QED
  BY <1>1, <1>2, <1>3, Steps, PassWrites

LEMMA ParkStays == Spec => [](TypeInv /\ ParkInv)
<1>1. Init => ParkInv
  <2>1. Init => \A t \in Threads : th[t] = Idle
    BY DEF Init
  <2> QED
    BY <2>1 DEF ParkInv, ScansKnow, ParksSee
<1>2. ParkInv /\ TypeInv /\ [Next]_vars => ParkInv'
  BY ParkNext
<1> QED
  BY <1>1, <1>2, TypesStay, PTL DEF Spec

\* ClearanceKept: a scan, a beat or an override changes only its own fields
\* of the phone's row (put_phone_park), so that none takes back a parking or
\* a teacher's override, unless it wrote over a row it had not seen.
THEOREM ClearanceStays == Spec => ClearanceKept
<1>1. TypeInv /\ ParkInv /\ [Next]_vars => [Uncleared => "stale park" \in lost']_vars
  <2> SUFFICES ASSUME TypeInv, ParkInv, [Next]_vars, Uncleared
               PROVE  "stale park" \in lost'
    OBVIOUS
  <2>1. PICK e \in Exams, s \in Students :
          /\ park[e][s] # None /\ park'[e][s] # None
          /\ \/ park[e][s].over /\ ~park'[e][s].over
             \/ park[e][s].at # 0 /\ park'[e][s].at = 0
    BY DEF Uncleared
  <2>2. park'[e][s] # park[e][s]
    BY <2>1
  <2>3. ASSUME NEW t \in Threads, Act(t) PROVE "stale park" \in lost'
    <3> DEFINE job == th[t]
    <3>1. WritePark(t) /\ e = job.req.exam /\ s = job.who /\ park'[e][s] = job.doc
      BY <2>1, <2>2, <2>3, ParkWrites
    <3>2. job # Idle /\ job.pc = "writepark" /\ Fits(job, "writepark")
      BY <3>1, Here DEF WritePark
    <3>3. job.req.op \in {"scan", "beat", "override"} /\ (job.req.op = "scan" => job.at # 0)
      BY <3>2 DEF Fits, Routed, ParkInv, ScansKnow
    <3>4. CASE job.fresh
      <4>1. job.doc = MergePark(job, park[e][s])
        BY <2>1, <3>1, <3>2, <3>4 DEF ParkInv, ParksSee, Row
      <4>2. park[e][s] \in Park
        BY <2>1 DEF TypeInv, TypeOK, DeskOK
      <4> QED
        BY <2>1, <3>1, <3>3, <4>1, <4>2, MergeKeeps
    <3>5. CASE ~job.fresh
      BY <3>1, <3>5 DEF WritePark
    <3> QED
      BY <3>4, <3>5
  <2>4. ASSUME NEW t \in Threads, Begin(t) PROVE FALSE
    BY <2>2, <2>4, BeginWrites
  <2> QED
    BY <2>2, <2>3, <2>4, Steps, PassWrites
<1> QED
  BY <1>1, ParkStays, PTL DEF Spec, ClearanceKept

-----------------------------------------------------------------------------
(* Formation pathways.                                                      *)

\* A row counts the sessions it was given.
Counts(row) ==
  /\ row.step <= row.given
  /\ row.cleared => row.given >= FormationSteps
  /\ Without({"stale path"}) =>
       row.step = row.given /\ row.open = (row.step < FormationSteps)

RowsCount == \A p \in DOMAIN path : path[p] # None => Counts(path[p])

\* A step is one that its row was given; it is the last of a row that nobody
\* has stepped since.
StepsKnow ==
  \A t \in Threads :
    th[t] # Idle /\ th[t].pc = "step" =>
      /\ th[t].doc.id \in DOMAIN path
      /\ path[th[t].doc.id] # None =>
           /\ th[t].doc.step <= path[th[t].doc.id].given
           /\ th[t].fresh /\ Without({"stale path"}) =>
                th[t].doc.step = path[th[t].doc.id].step /\ path[th[t].doc.id].open

Unraced == Without({"raced path", "stale path", "fault"})

\* The open pathways of a student, in a table.
Opens(rows, s) == {p \in DOMAIN rows : rows[p] # None /\ rows[p].who = s /\ rows[p].open}

\* An opening that has seen no open pathway, and no other opening since.
OpeningsSee ==
  Unraced =>
    \A t \in Threads :
      th[t] # Idle /\ th[t].pc = "newpath" /\ th[t].fresh => Opens(path, th[t].who) = {}

OneOpen == Unraced => \A s \in Students : Cardinality(Opens(path, s)) <= 1

PathInv == RowsCount /\ StepsKnow /\ OpeningsSee /\ OneOpen

LEMMA OpensAre == \A s : OpenPathways(s) = Opens(path, s)
BY DEF OpenPathways, PathwaysOf, Opens

\* A row after a step: as it was, new, or stepped.
LEMMA RowAfter ==
  ASSUME TypeInv, NEW t \in Threads, Act(t), NEW p \in DOMAIN path', path'[p] # None
  PROVE  \/ p \in DOMAIN path /\ path'[p] = path[p]
         \/ /\ OpenPathway(t) /\ p = Len(path) + 1 /\ p \notin DOMAIN path
            /\ path'[p] = [who |-> th[t].who, step |-> 0, open |-> TRUE, at |-> Later,
                           given |-> 0, cleared |-> FALSE]
         \/ LET s == th[t].doc.step
                step == IF s < FormationSteps THEN s + 1 ELSE FormationSteps
            IN /\ StepOn(t) /\ p \in DOMAIN path /\ path[p] # None /\ th[t].doc.id = p
               /\ s \in 0..FormationSteps
               /\ path'[p].who = path[p].who /\ path'[p].step = step
               /\ path'[p].open = ~(step >= FormationSteps)
               /\ path'[p].given = path[p].given + 1
               /\ path'[p].cleared = (path[p].cleared \/ step >= FormationSteps)
<1>1. path \in Seq(Pathway \cup {None}) /\ Len(path) \in Nat /\ DOMAIN path = 1..Len(path)
  BY PathwayRows
<1>2. CASE OpenPathway(t) /\ th[t].who \in Students
      /\ path' = Append(path, [who |-> th[t].who, step |-> 0, open |-> TRUE,
                               at |-> Later, given |-> 0, cleared |-> FALSE])
  <2> DEFINE row == [who |-> th[t].who, step |-> 0, open |-> TRUE, at |-> Later,
                     given |-> 0, cleared |-> FALSE]
  <2>1. row \in Pathway
    BY <1>2, LaterNumber, StepsAssumption DEF Pathway
  <2> HIDE DEF row
  <2>2. /\ path' \in Seq(Pathway \cup {None}) /\ Len(path') = Len(path) + 1
        /\ \A i \in 1..Len(path) : path'[i] = path[i]
        /\ path'[Len(path) + 1] = row
    BY <1>1, <1>2, <2>1, AppendProperties DEF row
  <2>3. DOMAIN path' = 1..(Len(path) + 1)
    BY <2>2, LenProperties
  <2>4. p \in 1..Len(path) \/ p = Len(path) + 1
    BY <1>1, <2>3
  <2> QED
    BY <1>1, <1>2, <2>2, <2>4 DEF row
<1>3. CASE \E q \in DOMAIN path :
             LET s == th[t].doc.step
                 step == IF s < FormationSteps THEN s + 1 ELSE FormationSteps
             IN /\ StepOn(t) /\ path[q] # None /\ th[t].doc.id = q
                /\ s \in 0..FormationSteps
                /\ path' = [path EXCEPT ![q] = Stepped(path[q], step, Completes(step))]
  <2> DEFINE s == th[t].doc.step
             step == IF s < FormationSteps THEN s + 1 ELSE FormationSteps
             done == Completes(step)
  <2>1. PICK q \in DOMAIN path :
          /\ StepOn(t) /\ path[q] # None /\ th[t].doc.id = q /\ s \in 0..FormationSteps
          /\ path' = [path EXCEPT ![q] = Stepped(path[q], step, done)]
    BY <1>3
  <2>2. path[q] \in Pathway /\ step \in 0..FormationSteps /\ done \in BOOLEAN
    BY <2>1, PathwayRows, StepsAssumption DEF Completes
  <2> DEFINE row == Stepped(path[q], step, done)
  <2>3. /\ row.who = path[q].who /\ row.step = step /\ row.open = ~done
        /\ row.given = path[q].given + 1 /\ row.cleared = (path[q].cleared \/ done)
    BY <2>2, SteppedRow
  <2>4. path' = [path EXCEPT ![q] = row]
    BY <2>1
  <2> HIDE DEF row
  <2>5. p \in DOMAIN path /\ (p = q => path'[p] = row) /\ (p # q => path'[p] = path[p])
    BY <2>4
  <2>6. done <=> step >= FormationSteps
    BY DEF Completes
  <2> HIDE DEF done, step
  <2>7. CASE p = q
    BY <2>1, <2>3, <2>5, <2>6, <2>7 DEF step
  <2> QED
    BY <2>5, <2>7
<1>4. CASE path' = [q \in DOMAIN path |->
                      IF q \in PathwaysOf(th[t].who) THEN None ELSE path[q]]
  BY <1>4
<1>5. CASE path' = path
  BY <1>5
<1> QED
  BY <1>2, <1>3, <1>4, <1>5, PathWrites

\* What a step knows of the row it is about to write.
LEMMA StepBefore ==
  ASSUME TypeInv, PathInv, NEW t \in Threads, StepOn(t), path[th[t].doc.id] # None
  PROVE  /\ th[t].doc.step <= path[th[t].doc.id].given
         /\ th[t].doc.id \in DOMAIN path
         /\ Without({"stale path"})' =>
              /\ th[t].doc.step = path[th[t].doc.id].step /\ path[th[t].doc.id].open
              /\ Without({"stale path"}) /\ th[t].fresh
<1>1. th[t] # Idle /\ th[t].pc = "step"
  BY Here DEF StepOn
<1>2. "stale path" \notin lost' => "stale path" \notin lost /\ th[t].fresh
  BY DEF StepOn
<1> QED
  BY <1>1, <1>2 DEF PathInv, StepsKnow, Without

LEMMA RowsAct ==
  ASSUME TypeInv, PathInv, NEW t \in Threads, Act(t)
  PROVE  RowsCount'
<1> DEFINE Counted(row) ==
             /\ row.step <= row.given
             /\ row.cleared => row.given >= FormationSteps
             /\ "stale path" \notin lost' =>
                  row.step = row.given /\ row.open = (row.step < FormationSteps)
<1> SUFFICES ASSUME NEW p \in DOMAIN path', path'[p] # None
             PROVE  Counted(path'[p])
  BY DEF RowsCount, Counts, Without
<1>1. FormationSteps \in Nat /\ FormationSteps # 0 /\ lost \subseteq lost'
  BY StepsAssumption, LostGrows
<1>2. CASE p \in DOMAIN path /\ path'[p] = path[p]
  BY <1>1, <1>2 DEF PathInv, RowsCount, Counts, Without
<1>3. CASE path'[p] = [who |-> th[t].who, step |-> 0, open |-> TRUE, at |-> Later,
                       given |-> 0, cleared |-> FALSE]
  <2>1. TRUE = (0 < FormationSteps)
    BY <1>1
  <2>2. /\ path'[p].step = 0 /\ path'[p].given = 0 /\ path'[p].open = TRUE
        /\ path'[p].cleared = FALSE
    BY <1>3
  <2>3. path'[p].open = (path'[p].step < FormationSteps)
    BY <2>1, <2>2
  <2>4. path'[p].step <= path'[p].given /\ path'[p].step = path'[p].given
    BY <2>2
  <2>5. ~path'[p].cleared
    BY <2>2
  <2> QED
    BY <2>3, <2>4, <2>5
<1>4. CASE LET s == th[t].doc.step
               step == IF s < FormationSteps THEN s + 1 ELSE FormationSteps
           IN /\ StepOn(t) /\ p \in DOMAIN path /\ path[p] # None /\ th[t].doc.id = p
              /\ s \in 0..FormationSteps
              /\ path'[p].who = path[p].who /\ path'[p].step = step
              /\ path'[p].open = ~(step >= FormationSteps)
              /\ path'[p].given = path[p].given + 1
              /\ path'[p].cleared = (path[p].cleared \/ step >= FormationSteps)
  <2> DEFINE s == th[t].doc.step
             g == path[p].given
             step == IF s < FormationSteps THEN s + 1 ELSE FormationSteps
  <2>1. g \in Nat /\ s \in 0..FormationSteps /\ path[p].step \in 0..FormationSteps
    BY <1>4, PathwayRows
  <2>2. s <= g /\ (path[p].cleared => g >= FormationSteps)
    BY <1>4, StepBefore DEF PathInv, RowsCount, Counts
  <2>3. "stale path" \notin lost' => s = g /\ s < FormationSteps
    <3> SUFFICES ASSUME "stale path" \notin lost' PROVE s = g /\ s < FormationSteps
      OBVIOUS
    <3>1. s = path[p].step /\ path[p].open /\ Without({"stale path"})
      BY <1>4, StepBefore DEF Without
    <3>2. path[p].step = g /\ path[p].open = (path[p].step < FormationSteps)
      BY <1>4, <3>1 DEF PathInv, RowsCount, Counts
    <3> QED
      BY <3>1, <3>2
  <2>4. /\ path'[p].step = step /\ path'[p].open = ~(step >= FormationSteps)
        /\ path'[p].given = g + 1
        /\ path'[p].cleared = (path[p].cleared \/ step >= FormationSteps)
    BY <1>4
  <2>5. step <= g + 1 /\ (step >= FormationSteps => g + 1 >= FormationSteps)
        /\ step \in Nat
    BY <1>1, <2>1, <2>2
  <2>6. "stale path" \notin lost' => step = g + 1
    BY <2>1, <2>3
  <2>10. s \in Nat /\ g \in Nat
    BY <1>1, <2>1
  <2> HIDE DEF s, g, step
  <2>7. path'[p].step <= path'[p].given
    BY <2>4, <2>5
  <2>8. path'[p].cleared => path'[p].given >= FormationSteps
    <3>1. path'[p].cleared => path[p].cleared \/ step >= FormationSteps
      BY <2>4
    <3>2. path[p].cleared => g >= FormationSteps
      BY <2>2
    <3>3. path'[p].given = g + 1
      BY <2>4
    <3> QED
      BY <1>1, <2>5, <2>10, <3>1, <3>2, <3>3
  <2>9. "stale path" \notin lost' =>
          path'[p].step = path'[p].given /\ path'[p].open = (path'[p].step < FormationSteps)
    <3>1. (~(step >= FormationSteps)) = (step < FormationSteps)
      BY <1>1, <2>5
    <3> QED
      BY <2>4, <2>6, <3>1
  <2> QED
    BY <2>7, <2>8, <2>9
<1> HIDE DEF Counted
<1> QED
  BY <1>2, <1>3, <1>4, RowAfter

\* Rows stay where they are, and are given more.
LEMMA RowsGrow ==
  ASSUME TypeInv, NEW t \in Threads, Act(t), NEW p \in DOMAIN path
  PROVE  /\ p \in DOMAIN path'
         /\ path'[p] # None =>
              /\ path[p] # None /\ path[p].given \in Nat
              /\ path'[p].given >= path[p].given
              /\ ~(StepOn(t) /\ th[t].doc.id = p) => path'[p] = path[p]
<1>1. path \in Seq(Pathway \cup {None}) /\ Len(path) \in Nat /\ DOMAIN path = 1..Len(path)
  BY PathwayRows
<1>2. p \in DOMAIN path'
  <2>1. CASE OpenPathway(t) /\ th[t].who \in Students
        /\ path' = Append(path, [who |-> th[t].who, step |-> 0, open |-> TRUE,
                                 at |-> Later, given |-> 0, cleared |-> FALSE])
    <3> DEFINE row == [who |-> th[t].who, step |-> 0, open |-> TRUE, at |-> Later,
                       given |-> 0, cleared |-> FALSE]
    <3>1. row \in Pathway
      BY <2>1, LaterNumber, StepsAssumption DEF Pathway
    <3> HIDE DEF row
    <3>2. path' \in Seq(Pathway \cup {None}) /\ Len(path') = Len(path) + 1
      BY <1>1, <2>1, <3>1, AppendProperties DEF row
    <3>3. DOMAIN path' = 1..(Len(path) + 1)
      BY <3>2, LenProperties
    <3> QED
      BY <1>1, <3>3
  <2>2. CASE path' = path
    BY <2>2
  <2>3. CASE path' = [q \in DOMAIN path |->
                        IF q \in PathwaysOf(th[t].who) THEN None ELSE path[q]]
    BY <2>3
  <2>4. CASE \E q \in DOMAIN path :
               LET s == th[t].doc.step
                   step == IF s < FormationSteps THEN s + 1 ELSE FormationSteps
               IN /\ StepOn(t) /\ path[q] # None /\ th[t].doc.id = q
                  /\ s \in 0..FormationSteps
                  /\ path' = [path EXCEPT ![q] = Stepped(path[q], step, Completes(step))]
    <3>1. \E q, row : path' = [path EXCEPT ![q] = row]
      BY <2>4
    <3> QED
      BY <3>1
  <2> QED
    BY <2>1, <2>2, <2>3, <2>4, PathWrites
<1>3. ASSUME path'[p] # None
      PROVE  /\ path[p] # None /\ path'[p].given >= path[p].given
             /\ ~(StepOn(t) /\ th[t].doc.id = p) => path'[p] = path[p]
             /\ path[p].given \in Nat
  <2>1. \/ path'[p] = path[p]
        \/ /\ StepOn(t) /\ path[p] # None /\ th[t].doc.id = p
           /\ path'[p].given = path[p].given + 1
    BY <1>2, <1>3, RowAfter
  <2>2. path[p] # None /\ path[p].given \in Nat
    BY <1>3, <2>1, PathwayRows
  <2> QED
    BY <2>1, <2>2
<1> QED
  BY <1>2, <1>3

LEMMA StepsAct ==
  ASSUME TypeInv, PathInv, NEW t \in Threads, Act(t)
  PROVE  StepsKnow'
<1> DEFINE Knows(job) ==
             /\ job.doc.id \in DOMAIN path'
             /\ path'[job.doc.id] # None =>
                  /\ job.doc.step <= path'[job.doc.id].given
                  /\ job.fresh /\ "stale path" \notin lost' =>
                       job.doc.step = path'[job.doc.id].step /\ path'[job.doc.id].open
<1> SUFFICES ASSUME NEW s \in Threads, th'[s] # Idle, th'[s].pc = "step"
             PROVE  Knows(th'[s])
  BY DEF StepsKnow, Without
<1>1. CASE s = t
  <2> DEFINE job == th[t]
             p == Found(job.who)
             doc == [id |-> p, step |-> path[p].step]
  <2>1. Reach(t)
    BY <1>1, Arrivals
  <2>2. job \in Job /\ th \in [Threads -> Job \cup {Idle}]
    BY <2>1, Here, Working DEF Reach
  <2>3. /\ path' = path /\ lost' = lost /\ p # None
        /\ Set(t, [job EXCEPT !.pc = "step", !.doc = doc, !.fresh = TRUE])
    BY <1>1, <2>1, SetTo DEF Reach, tables, desk, Finish
  <2>4. th'[t].doc = doc
    BY <2>2, <2>3 DEF Set, Job
  <2>5. p \in DOMAIN path /\ path[p] # None /\ path[p].open
    BY <2>3, FoundOpen DEF OpenPathways, PathwaysOf
  <2>6. path[p].step <= path[p].given
    BY <2>5 DEF PathInv, RowsCount, Counts
  <2>7. doc.id = p /\ doc.step = path[p].step
    OBVIOUS
  <2> HIDE DEF doc, p
  <2> QED
    BY <1>1, <2>3, <2>4, <2>5, <2>6, <2>7
<1>2. CASE s # t
  <2> DEFINE job == th[s]
             id == job.doc.id
  <2>1. /\ job # Idle /\ job \in Job /\ job.pc = "step" /\ th'[s].doc = job.doc
        /\ th'[s].fresh => th'[s] = job
    BY <1>2, OthersKept
  <2>2. /\ id \in DOMAIN path
        /\ path[id] # None =>
             /\ job.doc.step <= path[id].given
             /\ job.fresh /\ "stale path" \notin lost =>
                  job.doc.step = path[id].step /\ path[id].open
    BY <2>1 DEF PathInv, StepsKnow, Without
  <2>3. job.doc.step \in 0..FormationSteps
    BY <2>1 DEF TypeInv, FramesOK, Sound, Framed, Fits, Reached
  <2>4. id \in DOMAIN path' /\ th'[s].doc.id = id
    BY <2>1, <2>2, RowsGrow
  <2>5. ASSUME path'[id] # None
        PROVE  /\ job.doc.step <= path'[id].given
               /\ th'[s].fresh /\ "stale path" \notin lost' =>
                    job.doc.step = path'[id].step /\ path'[id].open
    <3>1. /\ path[id] # None /\ path[id].given \in Nat
          /\ path'[id].given >= path[id].given
          /\ ~(StepOn(t) /\ th[t].doc.id = id) => path'[id] = path[id]
      BY <2>2, <2>5, RowsGrow
    <3>2. job.doc.step <= path'[id].given
      <4> DEFINE step == job.doc.step
                 old == path[id].given
                 new == path'[id].given
      <4>1. new \in Nat
        <5>1. path'[id] \in Pathway \cup {None}
          BY <2>4, PathTyped, ElementOfSeq, LenProperties
        <5> QED
          BY <2>5, <5>1 DEF Pathway
      <4>2. step <= old
        BY <2>2, <3>1
      <4>3. step \in Nat
        BY <2>3, StepsAssumption
      <4>4. old \in Nat /\ new >= old
        BY <3>1
      <4> HIDE DEF step, old, new
      <4>5. step <= new
        BY <4>1, <4>2, <4>3, <4>4
      <4> QED
        BY <4>5 DEF step, new
    <3>3. ASSUME th'[s].fresh, "stale path" \notin lost'
          PROVE  job.doc.step = path'[id].step /\ path'[id].open
      <4>1. ~(StepOn(t) /\ th[t].doc.id = id)
        <5> SUFFICES ASSUME StepOn(t), th[t].doc.id = id PROVE FALSE
          OBVIOUS
        <5>1. s \in {o \in Others(t) : At(o, "step") /\ th[o].doc.id = th[t].doc.id}
          BY <1>2, <2>1 DEF Others, Busy, At
        <5>2. th'[s] = [th[s] EXCEPT !.fresh = FALSE]
          BY <1>2, <5>1 DEF StepOn, SetOver
        <5> QED
          BY <2>1, <3>3, <5>2 DEF Job
      <4>2. job.fresh /\ "stale path" \notin lost
        BY <2>1, <3>3, LostGrows
      <4> QED
        BY <2>2, <3>1, <4>1, <4>2
    <3> QED
      BY <3>2, <3>3
  <2> QED
    BY <2>1, <2>4, <2>5
<1> QED
  BY <1>1, <1>2

\* The open pathways of a student after a step that nothing raced: those
\* there were, and the one it has opened.
LEMMA OpensAfter ==
  ASSUME TypeInv, PathInv, NEW t \in Threads, Act(t), Unraced', NEW s
  PROVE  \/ Opens(path', s) \subseteq Opens(path, s)
         \/ /\ OpenPathway(t) /\ th[t].who = s /\ th[t].fresh
            /\ Opens(path', s) \subseteq Opens(path, s) \cup {Len(path) + 1}
<1>1. ASSUME NEW p \in Opens(path', s), p \notin Opens(path, s)
      PROVE  OpenPathway(t) /\ th[t].who = s /\ p = Len(path) + 1
  <2>1. p \in DOMAIN path' /\ path'[p] # None /\ path'[p].who = s /\ path'[p].open
    BY <1>1 DEF Opens
  <2>2. ~(p \in DOMAIN path /\ path'[p] = path[p])
    BY <1>1, <2>1 DEF Opens
  <2>3. ~(StepOn(t) /\ p \in DOMAIN path /\ path[p] # None /\ th[t].doc.id = p
            /\ path'[p].who = path[p].who)
    <3> SUFFICES ASSUME StepOn(t), p \in DOMAIN path, path[p] # None, th[t].doc.id = p,
                        path'[p].who = path[p].who
                 PROVE  FALSE
      OBVIOUS
    <3>1. path[p].open
      BY StepBefore DEF Unraced, Without
    <3> QED
      BY <1>1, <2>1, <3>1 DEF Opens
  <2> QED
    BY <2>1, <2>2, <2>3, RowAfter
<1>2. OpenPathway(t) => th[t].fresh \/ path' = path
  BY DEF OpenPathway, Unraced, Without
<1> QED
  BY <1>1, <1>2

LEMMA UnracedBefore ==
  ASSUME NEW t \in Threads, Act(t), Unraced'
  PROVE  Unraced
BY LostGrows DEF Unraced, Without

LEMMA OneOpenAct ==
  ASSUME TypeInv, PathInv, NEW t \in Threads, Act(t)
  PROVE  OneOpen'
<1> SUFFICES ASSUME Unraced', NEW s \in Students
             PROVE  Cardinality(Opens(path', s)) <= 1
  BY DEF OneOpen, Opens
<1>1. Unraced
  BY UnracedBefore
<1>2. /\ IsFiniteSet(Opens(path, s)) /\ Cardinality(Opens(path, s)) <= 1
      /\ Cardinality(Opens(path, s)) \in Nat
  BY <1>1, PathwayRows, OpensAre, FS_CardinalityType DEF PathInv, OneOpen
<1>3. CASE Opens(path', s) \subseteq Opens(path, s)
  <2>1. /\ Cardinality(Opens(path', s)) <= Cardinality(Opens(path, s))
        /\ Cardinality(Opens(path', s)) \in Nat
    BY <1>2, <1>3, FS_Subset, FS_CardinalityType
  <2> QED
    BY <1>2, <2>1
<1>4. CASE /\ OpenPathway(t) /\ th[t].who = s /\ th[t].fresh
           /\ Opens(path', s) \subseteq Opens(path, s) \cup {Len(path) + 1}
  <2>1. th[t] # Idle /\ th[t].pc = "newpath"
    BY <1>4, Here DEF OpenPathway
  <2>2. Opens(path, s) = {}
    BY <1>1, <1>4, <2>1 DEF PathInv, OpeningsSee
  <2>3. Opens(path', s) = {} \/ Opens(path', s) = {Len(path) + 1}
    BY <1>4, <2>2
  <2>4. Cardinality(Opens(path', s)) \in {0, 1}
    BY <2>3, FS_EmptySet, FS_Singleton
  <2> QED
    BY <2>4
<1> QED
  BY <1>3, <1>4, OpensAfter

LEMMA OpeningsAct ==
  ASSUME TypeInv, PathInv, NEW t \in Threads, Act(t)
  PROVE  OpeningsSee'
<1> SUFFICES ASSUME Unraced', NEW s \in Threads, th'[s] # Idle, th'[s].pc = "newpath",
                    th'[s].fresh
             PROVE  Opens(path', th'[s].who) = {}
  BY DEF OpeningsSee, Opens
<1>1. Unraced
  BY UnracedBefore
<1>2. CASE s = t
  <2>1. ReadOpen(t)
    BY <1>2, Arrivals
  <2>2. path' = path /\ "fault" \notin lost'
    BY <2>1 DEF ReadOpen, tables, desk, Unraced, Without
  <2>3. th[t] \in Job /\ th \in [Threads -> Job \cup {Idle}]
    BY <2>1, Here, Working DEF ReadOpen
  <2>4. /\ ~HasOpen(th[t].who)
        /\ Set(t, [th[t] EXCEPT !.pc = "newpath", !.fresh = TRUE])
    <3>1. \/ HasOpen(th[t].who) /\ Set(t, AfterOpening(th[t]))
          \/ /\ ~HasOpen(th[t].who)
             /\ Set(t, [th[t] EXCEPT !.pc = "newpath", !.fresh = TRUE])
      BY <2>1, <2>2 DEF ReadOpen
    <3>2. AfterOpening(th[t]) = Idle \/ AfterOpening(th[t]).pc = "reach"
      BY <2>3 DEF AfterOpening, Job
    <3>3. Set(t, AfterOpening(th[t])) => th'[t] = AfterOpening(th[t])
      BY SetTo
    <3> QED
      BY <1>2, <3>1, <3>2, <3>3
  <2>5. th'[t].who = th[t].who
    BY <2>3, <2>4 DEF Set, Job
  <2> QED
    BY <1>2, <2>2, <2>4, <2>5, OpensAre DEF HasOpen
<1>3. CASE s # t
  <2>1. th'[s] = th[s] /\ th[s] # Idle /\ th[s] \in Job
    BY <1>3, OthersKept
  <2>2. Opens(path, th[s].who) = {}
    BY <1>1, <2>1 DEF PathInv, OpeningsSee
  <2>3. ASSUME OpenPathway(t), th[t].who = th[s].who PROVE path' = path
    <3> SUFFICES ASSUME path' # path PROVE FALSE
      OBVIOUS
    <3>1. s \in {o \in Others(t) : At(o, "newpath") /\ th[o].who = th[t].who}
      BY <1>3, <2>1, <2>3 DEF Others, Busy, At
    <3>2. th'[s] = [th[s] EXCEPT !.fresh = FALSE]
      BY <1>3, <2>3, <3>1 DEF OpenPathway, SetOver
    <3> QED
      BY <2>1, <3>2 DEF Job
  <2>4. Opens(path', th[s].who) \subseteq Opens(path, th[s].who)
    BY <2>3, OpensAfter
  <2> QED
    BY <2>1, <2>2, <2>4
<1> QED
  BY <1>2, <1>3

LEMMA PathNext ==
  ASSUME TypeInv, PathInv, [Next]_vars
  PROVE  PathInv'
<1>1. ASSUME NEW t \in Threads, Act(t) PROVE PathInv'
  BY <1>1, RowsAct, StepsAct, OpeningsAct, OneOpenAct DEF PathInv
<1>2. ASSUME NEW t \in Threads, Begin(t) PROVE PathInv'
  <2>1. /\ path' = path /\ lost' = lost
        /\ \A s \in Threads \ {t} : th'[s] = th[s]
        /\ th'[t].pc \notin {"step", "newpath"}
    BY <1>2, BeginWrites, BeginSound DEF Firsts
  <2>2. RowsCount' /\ OneOpen'
    BY <2>1 DEF PathInv, RowsCount, Counts, OneOpen, Unraced, Without, Opens
  <2>3. StepsKnow'
    <3> SUFFICES ASSUME NEW s \in Threads, th'[s] # Idle, th'[s].pc = "step"
                 PROVE  /\ th'[s].doc.id \in DOMAIN path'
                        /\ path'[th'[s].doc.id] # None =>
                             /\ th'[s].doc.step <= path'[th'[s].doc.id].given
                             /\ th'[s].fresh /\ "stale path" \notin lost' =>
                                  /\ th'[s].doc.step = path'[th'[s].doc.id].step
                                  /\ path'[th'[s].doc.id].open
      BY DEF StepsKnow, Without
    <3>1. s # t /\ th'[s] = th[s]
      BY <2>1
    <3> QED
      BY <2>1, <3>1 DEF PathInv, StepsKnow, Without
  <2>4. OpeningsSee'
    <3> SUFFICES ASSUME NEW s \in Threads, th'[s] # Idle, th'[s].pc = "newpath",
                        th'[s].fresh,
                        lost' \cap {"raced path", "stale path", "fault"} = {}
                 PROVE  Opens(path', th'[s].who) = {}
      BY DEF OpeningsSee, Unraced, Without
    <3>1. s # t /\ th'[s] = th[s]
      BY <2>1
    <3> QED
      BY <2>1, <3>1 DEF PathInv, OpeningsSee, Unraced, Without
  <2> QED
    BY <2>2, <2>3, <2>4 DEF PathInv
<1>3. ASSUME UNCHANGED <<th, path, lost>> PROVE PathInv'
  <2>1. RowsCount' /\ OneOpen'
    BY <1>3 DEF PathInv, RowsCount, Counts, OneOpen, Unraced, Without, Opens
  <2>2. StepsKnow' /\ OpeningsSee'
    BY <1>3 DEF PathInv, StepsKnow, OpeningsSee, Unraced, Without, Opens
  <2> QED
    BY <2>1, <2>2 DEF PathInv
<1> QED
  BY <1>1, <1>2, <1>3, Steps, PassWrites

\* PathwaysCount: staff and student may advance a pathway at once, each
\* writing the step after the one it read: a row never has a step it was not
\* given, nor clears its submission's flag early; where nobody writes over an
\* unseen row it has every step, and where no opening raced or failed to read
\* a student has one open pathway at most.
THEOREM PathwaysAreCounted == Spec => []PathwaysCount
<1>1. Init => PathInv
  <2> SUFFICES ASSUME Init PROVE PathInv
    OBVIOUS
  <2>1. path = <<>> /\ \A t \in Threads : th[t] = Idle
    BY DEF Init
  <2>2. DOMAIN path = {}
    BY <2>1
  <2>3. \A s : Opens(path, s) = {}
    BY <2>2 DEF Opens
  <2>4. Cardinality({}) <= 1
    BY FS_EmptySet
  <2>5. OneOpen
    BY <2>3, <2>4 DEF OneOpen
  <2>6. RowsCount
    BY <2>2 DEF RowsCount
  <2>7. StepsKnow /\ OpeningsSee
    BY <2>1 DEF StepsKnow, OpeningsSee
  <2> QED
    BY <2>5, <2>6, <2>7 DEF PathInv
<1>2. PathInv /\ TypeInv /\ [Next]_vars => PathInv'
  BY PathNext
<1>3. TypeInv /\ PathInv => PathwaysCount
  <2> SUFFICES ASSUME TypeInv, PathInv, NEW p \in DOMAIN path, path[p] # None
               PROVE  /\ Counts(path[p])
                      /\ Unraced => Cardinality(OpenPathways(path[p].who)) <= 1
    BY DEF PathwaysCount, Counts, Unraced
  <2>1. path[p].who \in Students
    BY PathwayRows
  <2> QED
    BY <2>1, OpensAre DEF PathInv, RowsCount, OneOpen
<1> QED
  BY <1>1, <1>2, <1>3, TypesStay, PTL DEF Spec
=============================================================================
