------------------------------ MODULE Desk ------------------------------
(***************************************************************************)
(* A teacher's desk: courses and exams (routers/bluebook.py) and phones    *)
(* parked before an exam (routers/phone_park.py).  A handler takes one     *)
(* step per store call.  Rows of exams, courses and phones are read whole, *)
(* changed in the handler and written back whole; nothing locks them.      *)
(***************************************************************************)
EXTENDS WorkspaceStore

-----------------------------------------------------------------------------
(* Exams                                                                   *)

Fields == {"title", "course", "park"}

\* The fields a request carries.
FieldsOf(req) ==
  CASE req.op = "create" -> Fields \cup {"out"}
    [] req.op = "patch" -> req.fields
    [] req.op = "release" -> {"out"}

\* The row a request makes of the one it read.
Edited(job, row) ==
  LET sends(f) == f \in FieldsOf(job.req)
  IN [ title  |-> IF sends("title") THEN job.n ELSE row.title,
       course |-> IF sends("course") THEN job.req.course ELSE row.course,
       park   |-> IF sends("park") THEN job.req.on ELSE row.park,
       out    |-> IF sends("out") THEN job.req.op = "release" /\ job.req.on ELSE row.out ]

Blank == [title |-> 0, course |-> None, park |-> FALSE, out |-> FALSE]

\* Mutant: a PATCH does not look the course up.
CreateNeedsCourse(req) == req.op = "create" /\ req.course # None

NeedsCourse(req) ==
  req.op \in {"create", "patch"} /\ "course" \in FieldsOf(req) /\ req.course # None

BeforePut(req) ==
  IF NeedsCourse(req) THEN "named"
  ELSE IF req.op = "create" /\ SelfServe THEN "exams" ELSE "putexam"

CreateExam(t) ==
  LET job == th[t]
  IN /\ At(t, "create")
     /\ Set(t, [job EXCEPT !.doc = Edited(job, Blank), !.fresh = TRUE,
                           !.pc = BeforePut(job.req)])
     /\ UNCHANGED <<tables, lost>>

\* The course that the request names exists.
NamedCourse(t) ==
  LET req == th[t].req
  IN /\ At(t, "named")
     /\ IF req.course \notin course THEN Finish(t)
        ELSE Go(t, IF req.op = "create" /\ SelfServe THEN "exams" ELSE "putexam")
     /\ UNCHANGED <<tables, lost>>

Listed == {e \in Exams : exam[e] # None}

\* Mutant: one exam too many.
PastCap(n) == n > MaxExams

AtCap(n) == n >= MaxExams

\* The cap.  list_bluebook_exams answers [] when it fails.
CountExams(t) ==
  /\ At(t, "exams") /\ th[t].req.op = "create"
  /\ \/ /\ IF AtCap(Cardinality(Listed)) THEN Finish(t)
           ELSE Set(t, [th[t] EXCEPT !.pc = "putexam", !.counted = TRUE])
        /\ lost' = IF \E s \in Others(t) : th[s].counted /\ th[s].req.op = "create"
                   THEN lost \cup {"rush"} ELSE lost
     \/ /\ MayFail /\ Go(t, "putexam")
        /\ lost' = lost \cup {"fault"}
  /\ UNCHANGED tables

\* The handlers of one exam start at its row (_owned_exam, _live_exam_for).
AfterExam(req) ==
  CASE req.op = "patch" -> BeforePut(req)
    [] req.op = "release" -> "putexam"
    [] req.op = "delete" -> "dropexam"
    [] req.op = "scan" -> "since"
    [] req.op = "beat" -> "parked"
    [] req.op = "override" -> "readpark"

ReadExam(t) ==
  LET job == th[t]
      row == exam[job.req.exam]
  IN /\ At(t, "exam")
     /\ IF row = None \/ (job.req.op \in {"scan", "beat"} /\ ~row.park) THEN Finish(t)
        ELSE IF job.req.op \in {"patch", "release"}
        THEN Set(t, [job EXCEPT !.doc = Edited(job, row), !.fresh = TRUE,
                                !.pc = AfterExam(job.req)])
        ELSE Go(t, AfterExam(job.req))
     /\ UNCHANGED <<tables, lost>>

\* Those that hold a copy of the exam's row, or saw its course without it.
Holding(t, e) ==
  {s \in Others(t) : \/ th[s].req.exam = e /\ th[s].req.op \in {"create", "patch", "release"}
                     \/ At(s, "dropcourse")}

\* Mutant: the upsert forgets results_released_at.
PutUnreleased(job) == [job.doc EXCEPT !.out = FALSE]

PutRow(job) == job.doc

\* put_bluebook_exam: an upsert of every column.
PutExam(t) ==
  LET job == th[t]
      e == job.req.exam
  IN /\ At(t, "putexam")
     /\ exam' = [exam EXCEPT ![e] = PutRow(job)]
     /\ want' = [want EXCEPT ![e] = Edited(job, IF @ = None THEN Blank ELSE @)]
     /\ lost' = IF job.fresh THEN lost ELSE lost \cup {"stale exam"}
     /\ SetOver(t, Idle, Holding(t, e))
     /\ UNCHANGED <<people, park, path, course, roster>>

\* An exam with a sealed submission is refused; these have none.
DeleteExam(t) ==
  LET e == th[t].req.exam
  IN /\ At(t, "dropexam")
     /\ DropExam(e)
     /\ SetOver(t, Idle, Holding(t, e))
     /\ UNCHANGED <<people, path, course, roster, lost>>

-----------------------------------------------------------------------------
(* Courses                                                                 *)

ReadCourse(t) ==
  LET req == th[t].req
  IN /\ At(t, "course") /\ req.op \in {"editcourse", "dropcourse"}
     /\ IF req.course \in course
        THEN Set(t, [th[t] EXCEPT !.fresh = TRUE,
                                  !.pc = IF req.op = "editcourse" THEN "putcourse" ELSE "exams"])
        ELSE Finish(t)
     /\ UNCHANGED <<tables, lost>>

\* put_bluebook_course: an upsert, for a new course and for an edit.
PutCourse(t) ==
  /\ At(t, "putcourse")
  /\ course' = course \cup {th[t].req.course}
  /\ lost' = IF th[t].fresh THEN lost ELSE lost \cup {"stale course"}
  /\ Finish(t)
  /\ UNCHANGED <<people, desk, roster>>

\* A course is deleted when the exams, listed first, are all on others.
CourseExams(t) ==
  LET c == th[t].req.course
  IN /\ At(t, "exams") /\ th[t].req.op = "dropcourse"
     /\ \/ /\ IF \E e \in Listed : exam[e].course = c THEN Finish(t)
              ELSE Set(t, [th[t] EXCEPT !.pc = "dropcourse", !.fresh = TRUE])
           /\ UNCHANGED lost
        \/ /\ MayFail /\ Go(t, "dropcourse")
           /\ lost' = lost \cup {"fault"}
     /\ UNCHANGED tables

DeleteCourse(t) ==
  LET c == th[t].req.course
  IN /\ At(t, "dropcourse")
     /\ DropCourse(c)
     /\ SetOver(t, Idle, {s \in Others(t) : th[s].req.course = c})
     /\ lost' = lost \cup (IF th[t].fresh THEN {} ELSE {"stale course"})
                     \cup (IF \E s \in Others(t) : At(s, "count") THEN {"overtaken"} ELSE {})
     /\ UNCHANGED <<user, invite, minted, desk>>

-----------------------------------------------------------------------------
(* Phones                                                                  *)

Row(job) == park[job.req.exam][job.who]
SameRow(j, k) == j.req.exam = k.req.exam /\ j.who = k.who

\* A scan keeps the time of the first one.
Since(t) ==
  LET job == th[t]
      at == IF Row(job) = None \/ Row(job).at = 0 THEN job.n ELSE Row(job).at
  IN /\ At(t, "since")
     /\ Set(t, [job EXCEPT !.at = at, !.pc = "readpark"])
     /\ UNCHANGED <<tables, lost>>

\* A beat of a phone whose row is gone is refused.
Parked(t) ==
  /\ At(t, "parked")
  /\ IF Row(th[t]) = None THEN Finish(t) ELSE Go(t, "readpark")
  /\ UNCHANGED <<tables, lost>>

\* Mutant: the row is replaced by the fields given.
ReplacePark(job, row) ==
  CASE job.req.op = "scan" -> [NoPark EXCEPT !.state = "parked", !.at = job.at]
    [] job.req.op = "beat" -> [NoPark EXCEPT !.state = "resumed"]
    [] job.req.op = "override" -> [NoPark EXCEPT !.over = TRUE]

\* put_phone_park changes the fields given, of the row it reads...
MergePark(job, row) ==
  CASE job.req.op = "scan" -> [row EXCEPT !.state = "parked", !.at = job.at]
    [] job.req.op = "beat" -> [row EXCEPT !.state = "resumed"]
    [] job.req.op = "override" -> [row EXCEPT !.over = TRUE]

ReadPark(t) ==
  LET job == th[t]
      row == IF Row(job) = None THEN NoPark ELSE Row(job)
  IN /\ At(t, "readpark")
     /\ Set(t, [job EXCEPT !.doc = MergePark(job, row), !.fresh = TRUE, !.pc = "writepark"])
     /\ UNCHANGED <<tables, lost>>

\* ... and replaces all of it.
WritePark(t) ==
  LET job == th[t]
      e == job.req.exam
  IN /\ At(t, "writepark")
     /\ park' = [park EXCEPT ![e][job.who] = job.doc]
     /\ lost' = IF job.fresh THEN lost ELSE lost \cup {"stale park"}
     /\ SetOver(t, Idle, {s \in Others(t) : At(s, "writepark") /\ SameRow(th[s], job)})
     /\ UNCHANGED <<people, exam, want, path, course, roster>>

DeskStep(t) ==
  \/ CreateExam(t) \/ NamedCourse(t) \/ CountExams(t) \/ ReadExam(t)
  \/ PutExam(t) \/ DeleteExam(t)
  \/ ReadCourse(t) \/ PutCourse(t) \/ CourseExams(t) \/ DeleteCourse(t)
  \/ Since(t) \/ Parked(t) \/ ReadPark(t) \/ WritePark(t)
=============================================================================
