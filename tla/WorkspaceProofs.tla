------------------------- MODULE WorkspaceProofs -------------------------
(***************************************************************************)
(* Theorems about Workspace, for every set of threads, students, courses,  *)
(* exams and histories, with or without failing store calls: what every    *)
(* point of a handler has established, what each step changes, and types.  *)
(***************************************************************************)
EXTENDS Workspace, FiniteSetTheorems, SequenceTheorems, WellFoundedInduction, TLAPS

LOCAL INSTANCE FiniteSetsExt

-----------------------------------------------------------------------------
(* What each point of a handler has established.                            *)

\* The routes that reach a point.
Routed(op, pc) ==
  /\ pc = "course" => op \in Rostering \cup Linking \cup {"editcourse", "dropcourse"}
  /\ pc \in {"new", "count"} => op \in {"add"} \cup Joining
  /\ pc = "next" => op = "add"
  /\ pc \in {"find", "insert"} => op \in {"add", "join"}
  /\ pc = "password" => op \in {"join", "redeem", "change"}
  /\ pc = "enrol" => op \in {"add", "redeem", "launch"} \cup Joining
  /\ pc = "void" => op \in {"remove", "add", "reissue", "pending", "reset"}
  /\ pc = "issue" => op \in {"add", "reissue", "pending", "reset"}
  /\ pc = "unenrol" => op = "remove"
  /\ pc \in {"member", "holder"} => op = "reissue"
  /\ pc \in {"members", "holders"} => op = "pending"
  /\ pc \in {"look", "redeem", "owner"} => op = "redeem"
  /\ pc = "reset" => op = "reset"
  /\ pc = "verify" => op = "change"
  /\ pc = "active" => op = "enable"
  /\ pc = "voidlinks" => op \in Linking
  /\ pc = "putlink" => op \in {"enable", "regenerate"}
  /\ pc \in {"link", "target"} => op \in Joining
  /\ pc = "account" => op = "join"
  /\ pc = "me" => op = "mejoin"
  /\ pc = "launch" => op = "launch"
  /\ pc \in {"erase", "wipe"} => op = "erase"
  /\ pc = "create" => op = "create"
  /\ pc = "named" => op \in {"create", "patch"}
  /\ pc = "exams" => op \in {"create", "dropcourse"}
  /\ pc = "exam" => op \in {"patch", "release", "delete", "scan", "beat", "override"}
  /\ pc = "putexam" => op \in {"create", "patch", "release"}
  /\ pc = "dropexam" => op = "delete"
  /\ pc = "putcourse" => op \in {"newcourse", "editcourse"}
  /\ pc = "dropcourse" => op = "dropcourse"
  /\ pc = "since" => op = "scan"
  /\ pc = "parked" => op = "beat"
  /\ pc \in {"readpark", "writepark"} => op \in {"scan", "beat", "override"}
  /\ pc = "mine" => op = "session"
  /\ pc \in {"pathway", "newpath"} => op \in {"formation", "session"}
  /\ pc \in {"reach", "step"} => op \in {"advance", "session"}
  /\ pc \in {"purge", "wall", "newtoken"} => op = "openwall"
  /\ pc \in {"token", "tile"} => op = "tilebeat"
  /\ pc \in {"owned", "dropwall"} => op = "closewall"

\* Points that are at a student whatever the request named.
AtStudent == {"find", "insert", "password", "enrol", "void", "issue", "redeem", "owner"}

\* A job that is, or is to be, at a point.
Fits(job, pc) ==
  /\ Routed(job.req.op, pc)
  /\ job.req.op \in OfStudent \/ pc \in AtStudent => job.who \in Students
  /\ job.req.op \in OfCourse => job.to = job.req.course
  /\ job.req.op \in Joining /\ pc \notin {"me", "link"} => job.to \in Courses
  /\ pc = "enrol" => job.to \in Courses
  /\ job.req.op \notin {"add", "pending"} => job.todo = {}
  /\ job.req.op = "redeem" => job.ref \in 1..MaxInvites
  /\ job.req.op \in Joining => job.ref \in 1..MaxLinks
  /\ job.req.op = "tilebeat" => job.ref \in Numbers
  /\ job.req.op = "create" /\ pc # "create" => job.doc \in Exam
  /\ pc \in {"named", "putexam"} => job.doc \in Exam
  /\ pc = "writepark" => job.doc \in Park
  /\ pc = "step" => job.doc \in Reached

Framed(job) == Fits(job, job.pc)

\* What a call names.
Asked(r) ==
  /\ r \in Call
  /\ r.op \in OfStudent => r.who # {}
  /\ r.op \in OfCourse => r.course \in Courses
  /\ r.op \in OfExam => r.exam \in Exams

Sound(job) == job = Idle \/ (job \in Job /\ Asked(job.req) /\ Framed(job))

FramesOK == \A t \in Threads : Sound(th[t])

\* Staff were given the token of the session.
TokenKnown == session # None => session.token \in handed

TypeInv == TypeOK /\ FramesOK /\ TokenKnown

-----------------------------------------------------------------------------
(* What a step does to the jobs.                                            *)

\* A job that another thread's write has made stale, or not.
Kept(job, next) == next = job \/ (job # Idle /\ next = [job EXCEPT !.fresh = FALSE])

\* A handler goes on with its request: what it may change, and where.
Follows(job, next) ==
  /\ job # Idle
  /\ next.req = job.req /\ next.n = job.n /\ next.ref = job.ref
  /\ next.who # job.who => job.pc \in {"next", "find", "enrol", "issue", "holders", "look"}
  /\ next.to # job.to => job.pc \in {"look", "link", "launch"}
  /\ next.counted # job.counted => job.pc \in {"count", "exams"}
  /\ next.made # job.made => job.pc = "password"
  /\ next.over # job.over => job.pc \in {"void", "issue"}
  /\ next.doc # job.doc => job.pc \in {"create", "exam", "readpark", "reach"}

\* A step of thread t leaves the jobs sound, and the others' as they were.
Turn(t) ==
  /\ Sound(th'[t])
  /\ th'[t] # Idle => Follows(th[t], th'[t])
  /\ \A s \in Threads \ {t} : Kept(th[s], th'[s])
  /\ th' \in [Threads -> Job \cup {Idle}]

LEMMA JobFields ==
  ASSUME NEW job \in Job
  PROVE  /\ job # Idle /\ job.pc \in Pcs /\ job.req \in Call /\ job.n \in Numbers
         /\ job.who \in Students \cup {None} /\ job.todo \subseteq Students
         /\ job.to \in Courses \cup {None} /\ job.ref \in Nat /\ job.new \in Nat
         /\ job.counted \in BOOLEAN /\ job.invited \in BOOLEAN /\ job.made \in BOOLEAN
         /\ job.over \subseteq 1..MaxInvites
         /\ job.doc \in Exam \cup Park \cup Reached \cup {None}
         /\ job.fresh \in BOOLEAN /\ job.at \in Nat
BY DEF Job, Idle, Pcs

LEMMA CallFields ==
  ASSUME NEW r \in Call
  PROVE  /\ r.op \in Ops /\ r.who \subseteq Students /\ r.course \in Courses \cup {None}
         /\ r.exam \in Exams \cup {None} /\ r.fields \subseteq Fields /\ r.on \in BOOLEAN
BY DEF Call

\* A thread that is at work has a sound job.
LEMMA Working ==
  ASSUME TypeInv, NEW t \in Threads, Busy(t)
  PROVE  /\ th[t] # Idle /\ th[t] \in Job /\ Asked(th[t].req) /\ Framed(th[t])
         /\ th \in [Threads -> Job \cup {Idle}]
BY DEF TypeInv, TypeOK, FramesOK, Sound, Busy

\* A thread that is at some point is at work.
LEMMA AtIsBusy ==
  ASSUME NEW t \in Threads, NEW pc, pc # "idle", At(t, pc)
  PROVE  Busy(t)
BY DEF At, Busy, Idle

\* One thread's job is replaced.
LEMMA SetTurn ==
  ASSUME TypeInv, NEW t \in Threads, NEW job, Sound(job), Set(t, job),
         job # Idle => Follows(th[t], job)
  PROVE  Turn(t) /\ th'[t] = job /\ \A s \in Threads \ {t} : th'[s] = th[s]
<1>1. th \in [Threads -> Job \cup {Idle}] /\ job \in Job \cup {Idle}
  BY DEF TypeInv, TypeOK, Sound
<1>2. th' = [th EXCEPT ![t] = job]
  BY DEF Set
<1>3. th'[t] = job /\ \A s \in Threads \ {t} : th'[s] = th[s]
  BY <1>1, <1>2
<1>4. th' \in [Threads -> Job \cup {Idle}]
  BY <1>1, <1>2
<1> QED
  BY <1>3, <1>4 DEF Turn, Kept

LEMMA FinishTurn ==
  ASSUME TypeInv, NEW t \in Threads, Finish(t)
  PROVE  Turn(t) /\ th'[t] = Idle /\ \A s \in Threads \ {t} : th'[s] = th[s]
BY SetTurn DEF Finish, Sound

\* A handler goes on at another point.
LEMMA GoTurn ==
  ASSUME TypeInv, NEW t \in Threads, Busy(t), NEW pc \in Pcs, Go(t, pc), Fits(th[t], pc)
  PROVE  /\ Turn(t) /\ th'[t] = [th[t] EXCEPT !.pc = pc]
         /\ \A s \in Threads \ {t} : th'[s] = th[s]
         /\ th'[t].pc = pc /\ th'[t] \in Job
<1> DEFINE job == th[t]
           next == [job EXCEPT !.pc = pc]
<1>1. job # Idle /\ job \in Job /\ Asked(job.req)
  BY Working
<1>2. /\ next \in Job /\ next.pc = pc /\ next.req = job.req /\ next.who = job.who
      /\ next.to = job.to /\ next.todo = job.todo /\ next.ref = job.ref
      /\ next.doc = job.doc
  BY <1>1 DEF Job
<1>3. Follows(job, next)
  BY <1>1 DEF Follows, Job
<1>4. Set(t, next)
  BY DEF Go
<1> HIDE DEF next
<1>5. Framed(next)
  BY <1>2 DEF Framed, Fits
<1>6. Sound(next)
  BY <1>1, <1>2, <1>5 DEF Sound
<1>7. Turn(t) /\ th'[t] = next /\ \A s \in Threads \ {t} : th'[s] = th[s]
  BY <1>3, <1>4, <1>6, SetTurn
<1> QED
  BY <1>2, <1>7 DEF next

\* A handler that ends or goes on at another point.
LEMMA StopOrGo ==
  ASSUME TypeInv, NEW t \in Threads, Busy(t), NEW pc \in Pcs,
         Finish(t) \/ (Go(t, pc) /\ Fits(th[t], pc))
  PROVE  Turn(t) /\ \A s \in Threads \ {t} : th'[s] = th[s]
BY FinishTurn, GoTurn

-----------------------------------------------------------------------------
(* People.                                                                  *)

LEMMA OwnedCourseTurn ==
  ASSUME TypeInv, NEW t \in Threads, OwnedCourse(t)
  PROVE  Turn(t)
<1> DEFINE job == th[t]
           pc == AfterCourse(job)
<1>1. Busy(t) /\ job.pc = "course" /\ job.req.op \in Rostering \cup Linking
  BY AtIsBusy DEF OwnedCourse, At
<1>2. job \in Job /\ Asked(job.req) /\ Framed(job)
  BY <1>1, Working
<1> DEFINE op == job.req.op
<1>3. \/ pc \in {"new", "next"} /\ op = "add"
      \/ pc = "unenrol" /\ op = "remove"
      \/ pc = "member" /\ op = "reissue"
      \/ pc = "members" /\ op = "pending"
      \/ pc = "active" /\ op = "enable"
      \/ pc = "voidlinks" /\ op \in {"regenerate", "disable"}
  BY <1>1, SwitchAssumption DEF AfterCourse, Rostering, Linking
<1>4. pc \in Pcs
  BY <1>3 DEF Pcs
<1>5. Routed(op, pc)
  <2> HIDE DEF op, pc
  <2> QED
    BY <1>3 DEF Routed, Linking, Joining
<1>6. Fits(job, pc)
  BY <1>1, <1>2, <1>3, <1>5 DEF Framed, Fits, AtStudent, Rostering, Linking, Joining
<1>7. Finish(t) \/ Go(t, pc)
  BY DEF OwnedCourse
<1> HIDE DEF pc
<1> QED
  BY <1>1, <1>4, <1>6, <1>7, StopOrGo

LEMMA CountNewTurn ==
  ASSUME TypeInv, NEW t \in Threads, CountNew(t)
  PROVE  Turn(t)
<1> DEFINE job == th[t]
           k == Fresh(job.todo \cup ({job.who} \cap Students))
           next == [job EXCEPT !.new = k, !.pc = "count"]
<1>1. Busy(t) /\ job.pc = "new" /\ Set(t, next)
  BY AtIsBusy DEF CountNew, At
<1>2. job # Idle /\ job \in Job /\ Asked(job.req) /\ Framed(job)
  BY <1>1, Working
<1>3. k \in Nat
  <2>1. job.todo \cup ({job.who} \cap Students) \subseteq Students
    BY <1>2, JobFields
  <2> QED
    BY <2>1, FiniteAssumption, FS_Subset, FS_CardinalityType DEF Fresh
<1> HIDE DEF k
<1>4. /\ next \in Job /\ next.pc = "count" /\ next.req = job.req /\ next.who = job.who
      /\ next.to = job.to /\ next.todo = job.todo /\ next.ref = job.ref
      /\ next.doc = job.doc /\ Follows(job, next)
  <2>1. "count" \in Pcs
    BY DEF Pcs
  <2> QED
    BY <1>2, <1>3, <2>1 DEF Job, Follows
<1> HIDE DEF next
<1>5. Framed(next)
  BY <1>1, <1>2, <1>4 DEF Framed, Fits, Routed, AtStudent
<1> QED
  BY <1>1, <1>2, <1>4, <1>5, SetTurn DEF Sound

\* Whoever is at the one point may go on at the other.
Road(from, to) ==
  \A job \in Job : Asked(job.req) /\ Framed(job) /\ job.pc = from => Fits(job, to)

LEMMA Passes ==
  ASSUME TypeInv, NEW t \in Threads, NEW from, from # "idle", At(t, from),
         NEW to \in Pcs, Finish(t) \/ Go(t, to), Road(from, to)
  PROVE  Turn(t)
<1>1. Busy(t) /\ th[t].pc = from
  BY AtIsBusy DEF At
<1>2. Fits(th[t], to)
  BY <1>1, Working DEF Road
<1> QED
  BY <1>1, <1>2, StopOrGo

\* The steps of people's requests that stop or go on at one point.
LEMMA PlainPeopleTurns ==
  ASSUME TypeInv, NEW t \in Threads,
         Member(t) \/ Holder(t) \/ Redeem(t) \/ Owner(t) \/ ResetRequest(t) \/ Verify(t)
           \/ Me(t) \/ EraseCheck(t) \/ VoidCourseLinks(t)
  PROVE  Turn(t)
<1>1. CASE Member(t)
  <2>1. At(t, "member") /\ (Finish(t) \/ Go(t, "holder"))
    BY <1>1 DEF Member
  <2>2. Road("member", "holder")
    BY DEF Road, Framed, Fits, Routed, AtStudent, OfStudent
  <2> QED
    BY <2>1, <2>2, Passes DEF Pcs
<1>2. CASE Holder(t)
  <2>1. At(t, "holder") /\ (Finish(t) \/ Go(t, "void"))
    BY <1>2 DEF Holder
  <2>2. Road("holder", "void")
    BY DEF Road, Framed, Fits, Routed, AtStudent, OfStudent
  <2> QED
    BY <2>1, <2>2, Passes DEF Pcs
<1>3. CASE Redeem(t)
  <2>1. At(t, "redeem") /\ (Finish(t) \/ Go(t, "owner"))
    BY <1>3 DEF Redeem
  <2>2. Road("redeem", "owner")
    BY DEF Road, Framed, Fits, Routed, AtStudent, OfStudent
  <2> QED
    BY <2>1, <2>2, Passes DEF Pcs
<1>4. CASE Owner(t)
  <2>1. At(t, "owner") /\ (Finish(t) \/ Go(t, "password"))
    BY <1>4 DEF Owner
  <2>2. Road("owner", "password")
    BY DEF Road, Framed, Fits, Routed, AtStudent, OfStudent
  <2> QED
    BY <2>1, <2>2, Passes DEF Pcs
<1>5. CASE ResetRequest(t)
  <2>1. At(t, "reset") /\ (Finish(t) \/ Go(t, "void"))
    BY <1>5 DEF ResetRequest
  <2>2. Road("reset", "void")
    BY DEF Road, Framed, Fits, Routed, AtStudent, OfStudent
  <2> QED
    BY <2>1, <2>2, Passes DEF Pcs
<1>6. CASE Verify(t)
  <2>1. At(t, "verify") /\ (Finish(t) \/ Go(t, "password"))
    BY <1>6 DEF Verify
  <2>2. Road("verify", "password")
    BY DEF Road, Framed, Fits, Routed, AtStudent, OfStudent
  <2> QED
    BY <2>1, <2>2, Passes DEF Pcs
<1>7. CASE Me(t)
  <2>1. At(t, "me") /\ (Finish(t) \/ Go(t, "link"))
    BY <1>7 DEF Me
  <2>2. Road("me", "link")
    BY DEF Road, Framed, Fits, Routed, AtStudent, Joining
  <2> QED
    BY <2>1, <2>2, Passes DEF Pcs
<1>8. CASE EraseCheck(t)
  <2>1. At(t, "erase") /\ (Finish(t) \/ Go(t, "wipe"))
    BY <1>8 DEF EraseCheck
  <2>2. Road("erase", "wipe")
    BY DEF Road, Framed, Fits, Routed, AtStudent, OfStudent
  <2> QED
    BY <2>1, <2>2, Passes DEF Pcs
<1>9. CASE VoidCourseLinks(t)
  <2>1. /\ At(t, "voidlinks")
        /\ Finish(t) \/ (Go(t, "putlink") /\ th[t].req.op # "disable")
    BY <1>9 DEF VoidCourseLinks
  <2>2. Busy(t) /\ th[t].pc = "voidlinks"
    BY <2>1, AtIsBusy DEF At
  <2>3. th[t].req.op # "disable" => Fits(th[t], "putlink")
    BY <2>2, Working DEF Framed, Fits, Routed, AtStudent, OfStudent, Linking, Joining
  <2> QED
    BY <2>1, <2>2, <2>3, StopOrGo DEF Pcs
<1> QED
  BY <1>1, <1>2, <1>3, <1>4, <1>5, <1>6, <1>7, <1>8, <1>9

\* Those that end a request.
LEMMA LastTurns ==
  ASSUME TypeInv, NEW t \in Threads,
         PutCourseLink(t) \/ Wipe(t) \/ PutCourse(t) \/ Beat(t) \/ CloseWall(t) \/ Fail(t)
  PROVE  Turn(t)
<1>1. Finish(t)
  BY DEF PutCourseLink, Wipe, PutCourse, Beat, CloseWall, Fail
<1> QED
  BY <1>1, FinishTurn

\* The next student of a batch.
LEMMA AdvanceSound ==
  ASSUME NEW job \in Job, Asked(job.req), job.req.op \in OfCourse => job.to = job.req.course,
         job.req.op \notin {"add", "pending"} => job.todo = {}, NEW next \in Advance(job)
  PROVE  /\ Sound(next)
         /\ next # Idle =>
              /\ next \in Job /\ job.req.op \in {"add", "pending"}
              /\ next.req = job.req /\ next.n = job.n /\ next.ref = job.ref
              /\ next.to = job.to /\ next.counted = job.counted /\ next.made = job.made
              /\ next.over = job.over /\ next.doc = job.doc /\ next.invited = job.invited
              /\ next.who \in job.todo /\ next.todo = job.todo \ {next.who}
              /\ next.pc = FirstFor(job.req.op)
<1>1. CASE next = Idle
  BY <1>1 DEF Sound
<1>2. CASE next # Idle
  <2>1. job.todo # {} /\ job.req.op \in {"add", "pending"} /\ job.todo \subseteq Students
    BY <1>2, JobFields DEF Advance
  <2> DEFINE pc == FirstFor(job.req.op)
  <2>2. PICK s \in job.todo : next = [job EXCEPT !.who = s, !.todo = @ \ {s}, !.pc = pc]
    BY <2>1 DEF Advance
  <2>3. pc \in {"find", "void"} /\ (pc = "find" <=> job.req.op = "add")
    BY <2>1 DEF FirstFor
  <2>4. pc \in Pcs
    BY <2>3 DEF Pcs
  <2>5. Routed(job.req.op, pc)
    BY <2>1, <2>3 DEF Routed
  <2>6. s \in Students /\ job.todo \ {s} \subseteq Students
    BY <2>1
  <2> HIDE DEF pc
  <2>7. /\ next \in Job /\ next.who = s /\ next.todo = job.todo \ {s} /\ next.pc = pc
        /\ next.req = job.req /\ next.n = job.n /\ next.ref = job.ref
        /\ next.to = job.to /\ next.counted = job.counted /\ next.made = job.made
        /\ next.over = job.over /\ next.doc = job.doc /\ next.invited = job.invited
    BY <2>2, <2>4, <2>6 DEF Job
  <2>8. Framed(next)
    BY <2>1, <2>3, <2>5, <2>6, <2>7 DEF Framed, Fits, Joining
  <2> QED
    BY <2>1, <2>7, <2>8 DEF Sound, pc
<1> QED
  BY <1>1, <1>2

\* A handler goes on to the next student, perhaps with something else changed.
LEMMA AdvanceTurn ==
  ASSUME TypeInv, NEW t \in Threads, Busy(t), NEW job \in Job, job.req = th[t].req,
         job.n = th[t].n, job.ref = th[t].ref, job.to = th[t].to,
         job.counted = th[t].counted, job.made = th[t].made, job.doc = th[t].doc,
         job.over # th[t].over => th[t].pc \in {"void", "issue"},
         job.req.op \notin {"add", "pending"} => job.todo = {},
         th[t].pc \in {"next", "find", "enrol", "issue", "holders"},
         \E next \in Advance(job) : Set(t, next)
  PROVE  /\ Turn(t) /\ th'[t] \in Advance(job)
         /\ \A s \in Threads \ {t} : th'[s] = th[s]
<1>1. PICK next \in Advance(job) : Set(t, next)
  OBVIOUS
<1>2. th[t] # Idle /\ Asked(job.req) /\ (job.req.op \in OfCourse => job.to = job.req.course)
  BY Working DEF Framed, Fits
<1>3. Sound(next) /\ (next # Idle => Follows(th[t], next))
  BY <1>2, AdvanceSound DEF Follows
<1> QED
  BY <1>1, <1>3, SetTurn

LEMMA ToNextTurn ==
  ASSUME TypeInv, NEW t \in Threads, Busy(t), ToNext(t),
         th[t].pc \in {"next", "find", "enrol", "issue", "holders"}
  PROVE  /\ Turn(t) /\ th'[t] \in Advance(th[t])
         /\ \A s \in Threads \ {t} : th'[s] = th[s]
<1>1. /\ th[t] \in Job /\ \E next \in Advance(th[t]) : Set(t, next)
      /\ th[t].req.op \notin {"add", "pending"} => th[t].todo = {}
  BY Working DEF ToNext, Framed, Fits
<1> QED
  BY <1>1, AdvanceTurn

LEMMA NextStudentTurn ==
  ASSUME TypeInv, NEW t \in Threads, NextStudent(t)
  PROVE  Turn(t)
<1>1. Busy(t) /\ th[t].pc = "next" /\ ToNext(t)
  BY AtIsBusy DEF NextStudent, At
<1> QED
  BY <1>1, ToNextTurn

LEMMA HoldersTurn ==
  ASSUME TypeInv, NEW t \in Threads, Holders(t)
  PROVE  Turn(t)
<1> DEFINE waiting == {s \in th[t].todo : user[s] # None /\ ~Activated(user[s])}
           job == [th[t] EXCEPT !.todo = waiting]
<1>1. Busy(t) /\ th[t].pc = "holders" /\ \E next \in Advance(job) : Set(t, next)
  BY AtIsBusy DEF Holders, At
<1>2. th[t] \in Job /\ Framed(th[t])
  BY <1>1, Working
<1>3. waiting \subseteq Students
  BY <1>2, JobFields
<1> HIDE DEF waiting
<1>4. /\ job \in Job /\ job.req = th[t].req /\ job.n = th[t].n /\ job.ref = th[t].ref
      /\ job.to = th[t].to /\ job.counted = th[t].counted /\ job.made = th[t].made
      /\ job.doc = th[t].doc /\ job.over = th[t].over
  BY <1>2, <1>3 DEF Job
<1>5. job.req.op = "pending"
  BY <1>1, <1>2, <1>4 DEF Framed, Fits, Routed
<1> HIDE DEF job
<1> QED
  BY <1>1, <1>4, <1>5, AdvanceTurn

LEMMA IssueTurn ==
  ASSUME TypeInv, NEW t \in Threads, Issue(t)
  PROVE  Turn(t)
<1> DEFINE job == [th[t] EXCEPT !.over = {}]
<1>1. Busy(t) /\ th[t].pc = "issue" /\ \E next \in Advance(job) : Set(t, next)
  BY AtIsBusy DEF Issue, At
<1>2. th[t] \in Job /\ Framed(th[t])
  BY <1>1, Working
<1>3. /\ job \in Job /\ job.req = th[t].req /\ job.n = th[t].n /\ job.ref = th[t].ref
      /\ job.to = th[t].to /\ job.counted = th[t].counted /\ job.made = th[t].made
      /\ job.doc = th[t].doc /\ job.todo = th[t].todo
  BY <1>2 DEF Job
<1>4. job.req.op \notin {"add", "pending"} => job.todo = {}
  BY <1>2, <1>3 DEF Framed, Fits
<1> HIDE DEF job
<1> QED
  BY <1>1, <1>3, <1>4, AdvanceTurn

LEMMA EnrolTurn ==
  ASSUME TypeInv, NEW t \in Threads, Enrol(t)
  PROVE  Turn(t)
<1>1. Busy(t) /\ th[t].pc = "enrol"
  BY AtIsBusy DEF Enrol, At
<1>2. CASE Issues(th[t])
  <2>1. Go(t, "void") /\ th[t].req.op = "add"
    BY <1>2 DEF Enrol, Issues
  <2>2. Fits(th[t], "void")
    BY <1>1, <2>1, Working DEF Framed, Fits, Routed, AtStudent, Joining
  <2> QED
    BY <1>1, <2>1, <2>2, GoTurn DEF Pcs
<1>3. CASE ~Issues(th[t])
  <2>1. ToNext(t)
    BY <1>3 DEF Enrol
  <2> QED
    BY <1>1, <2>1, ToNextTurn
<1> QED
  BY <1>2, <1>3

LEMMA FindTurn ==
  ASSUME TypeInv, NEW t \in Threads, Find(t)
  PROVE  Turn(t)
<1> DEFINE job == th[t]
           next == [job EXCEPT !.invited = ~Activated(user[job.who]), !.pc = "enrol"]
<1>1. Busy(t) /\ job.pc = "find"
  BY AtIsBusy DEF Find, At
<1>2. job # Idle /\ job \in Job /\ Framed(job) /\ Asked(job.req) /\ job.who \in Students
  BY <1>1, Working DEF Framed, Fits, AtStudent
<1>3. CASE Go(t, "insert")
  <2>1. Fits(job, "insert")
    BY <1>1, <1>2 DEF Framed, Fits, Routed, AtStudent
  <2> QED
    BY <1>1, <1>3, <2>1, GoTurn DEF Pcs
<1>4. CASE Set(t, Existing(job)) /\ job.req.op = "add"
  <2>1. Set(t, next)
    BY <1>4 DEF Existing
  <2>2. "enrol" \in Pcs /\ (~Activated(user[job.who])) \in BOOLEAN
    <3>1. "enrol" \in Pcs
      BY DEF Pcs
    <3>2. (~Activated(user[job.who])) \in BOOLEAN
      OBVIOUS
    <3> QED
      BY <3>1, <3>2
  <2>3. /\ next \in Job /\ next.pc = "enrol" /\ next.req = job.req /\ next.who = job.who
        /\ next.to = job.to /\ next.todo = job.todo /\ next.doc = job.doc
        /\ Follows(job, next)
    BY <1>2, <2>2 DEF Job, Follows
  <2>4. job.to \in Courses /\ (job.req.op \in OfCourse => job.to = job.req.course)
    BY <1>2, <1>4 DEF Framed, Fits, OfCourse, Rostering, Asked
  <2> HIDE DEF next
  <2>5. Framed(next)
    BY <1>2, <1>4, <2>3, <2>4 DEF Framed, Fits, Routed, Joining
  <2> QED
    BY <1>2, <2>1, <2>3, <2>5, SetTurn DEF Sound
<1>5. CASE ToNext(t)
  BY <1>1, <1>5, ToNextTurn
<1>6. CASE Finish(t)
  BY <1>6, FinishTurn
<1> QED
  BY <1>3, <1>4, <1>5, <1>6 DEF Find, Existing, Finish

LEMMA CountTurn ==
  ASSUME TypeInv, NEW t \in Threads, Count(t)
  PROVE  Turn(t)
<1> DEFINE job == th[t]
           pc == AfterCount(job)
           next == [job EXCEPT !.pc = pc, !.counted = TRUE]
<1>1. Busy(t) /\ job.pc = "count"
  BY AtIsBusy DEF Count, At
<1>2. job # Idle /\ job \in Job /\ Framed(job) /\ Asked(job.req)
  BY <1>1, Working
<1>3. pc \in {"next", "find", "enrol"} /\ Fits(job, pc)
  <2>1. job.req.op \in {"add", "join", "mejoin"}
    BY <1>1, <1>2 DEF Framed, Fits, Routed, Joining
  <2>2. /\ pc \in {"next", "find", "enrol"} /\ (pc = "next" <=> job.req.op = "add")
        /\ pc = "find" => job.req.op = "join"
    BY <2>1 DEF AfterCount
  <2> HIDE DEF pc
  <2>3. job.req.op # "add" => job.who \in Students /\ job.to \in Courses
    BY <1>1, <1>2, <2>1 DEF Framed, Fits, OfStudent, Joining
  <2> QED
    BY <1>1, <1>2, <2>1, <2>2, <2>3 DEF Framed, Fits, Routed, AtStudent, Joining
<1>4. pc \in Pcs
  BY <1>3 DEF Pcs
<1> HIDE DEF pc
<1>5. /\ next \in Job /\ next.pc = pc /\ next.req = job.req /\ next.who = job.who
      /\ next.to = job.to /\ next.todo = job.todo /\ next.ref = job.ref
      /\ next.doc = job.doc /\ Follows(job, next)
  BY <1>1, <1>2, <1>4 DEF Job, Follows
<1>6. Finish(t) \/ Set(t, next)
  BY DEF Count, pc
<1> HIDE DEF next
<1>7. Sound(next)
  BY <1>2, <1>3, <1>5 DEF Sound, Framed, Fits
<1> QED
  BY <1>5, <1>6, <1>7, SetTurn, FinishTurn

LEMMA InsertTurn ==
  ASSUME TypeInv, NEW t \in Threads, Insert(t)
  PROVE  Turn(t)
<1> DEFINE job == th[t]
           pc == IF job.req.op = "add" THEN "enrol" ELSE "password"
           next == [job EXCEPT !.invited = TRUE, !.pc = pc]
<1>1. Busy(t) /\ job.pc = "insert" /\ Set(t, next)
  BY AtIsBusy DEF Insert, At
<1>2. job # Idle /\ job \in Job /\ Framed(job) /\ Asked(job.req)
  BY <1>1, Working
<1>3. Fits(job, pc)
  <2>1. job.req.op \in {"add", "join"} /\ (job.req.op = "add" => job.to \in Courses)
    BY <1>1, <1>2 DEF Framed, Fits, Routed, OfCourse, Rostering, Asked
  <2> QED
    BY <1>1, <1>2, <2>1 DEF Framed, Fits, Routed, AtStudent, Joining
<1>4. pc \in Pcs
  BY DEF Pcs
<1> HIDE DEF pc
<1>5. /\ next \in Job /\ next.pc = pc /\ next.req = job.req /\ next.who = job.who
      /\ next.to = job.to /\ next.todo = job.todo /\ next.ref = job.ref
      /\ next.doc = job.doc /\ Follows(job, next)
  BY <1>1, <1>2, <1>4 DEF Job, Follows
<1> HIDE DEF next
<1>6. Sound(next)
  BY <1>2, <1>3, <1>5 DEF Sound, Framed, Fits
<1> QED
  BY <1>1, <1>5, <1>6, SetTurn

LEMMA SetPasswordTurn ==
  ASSUME TypeInv, NEW t \in Threads, SetPassword(t)
  PROVE  Turn(t)
<1> DEFINE job == th[t]
           pc == IF job.req.op = "join" /\ SelfServe THEN "new" ELSE "enrol"
           next == [job EXCEPT !.made = TRUE, !.pc = pc]
<1>1. Busy(t) /\ job.pc = "password" /\ Set(t, AfterPassword(job))
  BY AtIsBusy DEF SetPassword, At
<1>2. job # Idle /\ job \in Job /\ Framed(job) /\ Asked(job.req)
  BY <1>1, Working
<1>3. job.req.op \in {"join", "redeem", "change"}
  BY <1>1, <1>2 DEF Framed, Fits, Routed
<1>4. CASE job.req.op = "change" \/ (job.req.op = "redeem" /\ job.to = None)
  <2>1. AfterPassword(job) = Idle
    BY <1>4 DEF AfterPassword
  <2> QED
    BY <1>1, <2>1, FinishTurn DEF Finish
<1>5. CASE ~(job.req.op = "change" \/ (job.req.op = "redeem" /\ job.to = None))
  <2>1. AfterPassword(job) = next
    BY <1>5, SwitchAssumption DEF AfterPassword
  <2>2. job.to \in Courses /\ job.req.op \in {"join", "redeem"} /\ job.who \in Students
    BY <1>1, <1>2, <1>3, <1>5, JobFields DEF Framed, Fits, Joining, AtStudent
  <2>3. Fits(job, pc)
    BY <1>1, <1>2, <2>2 DEF Framed, Fits, Routed, AtStudent, Joining
  <2>4. pc \in Pcs
    BY DEF Pcs
  <2> HIDE DEF pc
  <2>5. /\ next \in Job /\ next.pc = pc /\ next.req = job.req /\ next.who = job.who
        /\ next.to = job.to /\ next.todo = job.todo /\ next.ref = job.ref
        /\ next.doc = job.doc /\ Follows(job, next)
    BY <1>1, <1>2, <2>4 DEF Job, Follows
  <2> HIDE DEF next
  <2>6. Sound(next)
    BY <1>2, <2>3, <2>5 DEF Sound, Framed, Fits
  <2> QED
    BY <1>1, <2>1, <2>5, <2>6, SetTurn
<1> QED
  BY <1>4, <1>5

LEMMA VoidTurn ==
  ASSUME TypeInv, NEW t \in Threads, Void(t)
  PROVE  Turn(t)
<1> DEFINE job == th[t]
           over == LiveOf(job.who)
           next == [job EXCEPT !.over = over, !.pc = "issue"]
<1>1. Busy(t) /\ job.pc = "void"
  BY AtIsBusy DEF Void, At
<1>2. job # Idle /\ job \in Job /\ Framed(job) /\ Asked(job.req)
  BY <1>1, Working
<1>3. CASE job.req.op = "remove"
  BY <1>3, FinishTurn DEF Void
<1>4. CASE job.req.op # "remove"
  <2>1. Set(t, next)
    BY <1>4 DEF Void
  <2>2. over \subseteq 1..MaxInvites
    <3>1. minted.invites \in 0..MaxInvites
      BY DEF TypeInv, TypeOK
    <3> QED
      BY <3>1, IssueAssumption DEF LiveOf, Issued
  <2>3. "issue" \in Pcs
    BY DEF Pcs
  <2>4. Fits(job, "issue")
    BY <1>1, <1>2, <1>4 DEF Framed, Fits, Routed, AtStudent, Joining
  <2> HIDE DEF over
  <2>5. /\ next \in Job /\ next.pc = "issue" /\ next.req = job.req /\ next.who = job.who
        /\ next.to = job.to /\ next.todo = job.todo /\ next.ref = job.ref
        /\ next.doc = job.doc /\ Follows(job, next)
    BY <1>1, <1>2, <2>2, <2>3 DEF Job, Follows
  <2> HIDE DEF next
  <2>6. Sound(next)
    BY <1>2, <2>4, <2>5 DEF Sound, Framed, Fits
  <2> QED
    BY <2>1, <2>5, <2>6, SetTurn
<1> QED
  BY <1>3, <1>4

LEMMA UnenrolTurn ==
  ASSUME TypeInv, NEW t \in Threads, Unenrol(t)
  PROVE  Turn(t)
<1>1. At(t, "unenrol") /\ (Finish(t) \/ Go(t, "void"))
  BY DEF Unenrol, AfterUnenrol, Go
<1>2. Road("unenrol", "void")
  BY DEF Road, Framed, Fits, Routed, AtStudent, OfStudent
<1> QED
  BY <1>1, <1>2, Passes DEF Pcs

LEMMA MembersTurn ==
  ASSUME TypeInv, NEW t \in Threads, Members(t)
  PROVE  Turn(t)
<1> DEFINE job == th[t]
           todo == roster[job.to]
           next == [job EXCEPT !.todo = todo, !.pc = "holders"]
<1>1. Busy(t) /\ job.pc = "members" /\ Set(t, next)
  BY AtIsBusy DEF Members, At
<1>2. job # Idle /\ job \in Job /\ Framed(job) /\ Asked(job.req) /\ job.req.op = "pending"
  BY <1>1, Working DEF Framed, Fits, Routed
<1>3. todo \subseteq Students
  <2>1. job.to \in Courses
    BY <1>2 DEF Framed, Fits, Asked, OfCourse, Rostering
  <2>2. roster \in [Courses -> SUBSET Students]
    BY DEF TypeInv, TypeOK, AccountsOK
  <2> QED
    BY <2>1, <2>2
<1>4. "holders" \in Pcs
  BY DEF Pcs
<1>5. Fits(job, "holders")
  BY <1>1, <1>2 DEF Framed, Fits, Routed, AtStudent, OfStudent, Joining
<1> HIDE DEF todo
<1>6. /\ next \in Job /\ next.pc = "holders" /\ next.req = job.req /\ next.who = job.who
      /\ next.to = job.to /\ next.ref = job.ref
      /\ next.doc = job.doc /\ Follows(job, next)
  BY <1>1, <1>2, <1>3, <1>4 DEF Job, Follows
<1> HIDE DEF next
<1>7. Sound(next)
  BY <1>2, <1>5, <1>6 DEF Sound, Framed, Fits
<1> QED
  BY <1>1, <1>6, <1>7, SetTurn

LEMMA LookTurn ==
  ASSUME TypeInv, NEW t \in Threads, Look(t)
  PROVE  Turn(t)
<1> DEFINE job == th[t]
           row == invite[job.ref]
           who == row.who
           to == row.course
           next == [job EXCEPT !.who = who, !.to = to, !.pc = "redeem"]
<1>1. Busy(t) /\ job.pc = "look"
  BY AtIsBusy DEF Look, At
<1>2. job # Idle /\ job \in Job /\ Framed(job) /\ Asked(job.req) /\ job.req.op = "redeem"
  BY <1>1, Working DEF Framed, Fits, Routed
<1>3. CASE Redeemable(job.ref) /\ Set(t, next)
  <2>1. row \in Invite
    <3>1. job.ref \in 1..MaxInvites /\ row # None
      BY <1>2, <1>3 DEF Redeemable, Issued, Framed, Fits
    <3>2. invite \in [1..MaxInvites -> Invite \cup {None}]
      BY DEF TypeInv, TypeOK, AccountsOK
    <3> QED
      BY <3>1, <3>2
  <2>2. who \in Students /\ to \in Courses \cup {None}
    BY <2>1 DEF Invite
  <2>3. "redeem" \in Pcs
    BY DEF Pcs
  <2> HIDE DEF row, who, to
  <2>4. /\ next \in Job /\ next.pc = "redeem" /\ next.req = job.req /\ next.who = who
        /\ next.to = to /\ next.todo = job.todo /\ next.ref = job.ref
        /\ next.doc = job.doc /\ Follows(job, next)
    BY <1>1, <1>2, <2>2, <2>3 DEF Job, Follows
  <2> HIDE DEF next
  <2>5. Framed(next)
    BY <1>1, <1>2, <2>2, <2>4 DEF Framed, Fits, Routed, AtStudent, OfCourse, Joining,
                                 Rostering, Linking
  <2> QED
    BY <1>2, <1>3, <2>4, <2>5, SetTurn DEF Sound
<1>4. CASE Finish(t)
  BY <1>4, FinishTurn
<1> QED
  BY <1>3, <1>4 DEF Look

LEMMA ReadActiveTurn ==
  ASSUME TypeInv, NEW t \in Threads, ReadActive(t)
  PROVE  Turn(t)
<1>1. /\ At(t, "active")
      /\ Finish(t) \/ Go(t, "putlink") \/ Go(t, "voidlinks")
  BY DEF ReadActive, AfterActive
<1>2. Road("active", "putlink") /\ Road("active", "voidlinks")
  BY DEF Road, Framed, Fits, Routed, AtStudent, OfStudent, Linking, Joining
<1> QED
  BY <1>1, <1>2, Passes DEF Pcs

LEMMA FindLinkTurn ==
  ASSUME TypeInv, NEW t \in Threads, FindLink(t)
  PROVE  Turn(t)
<1> DEFINE job == th[t]
           to == link[job.ref].course
           next == [job EXCEPT !.to = to, !.pc = "target"]
<1>1. Busy(t) /\ job.pc = "link"
  BY AtIsBusy DEF FindLink, At
<1>2. job # Idle /\ job \in Job /\ Framed(job) /\ Asked(job.req) /\ job.req.op \in Joining
  BY <1>1, Working DEF Framed, Fits, Routed
<1>3. CASE FindActive(job.ref) /\ Set(t, next)
  <2>1. to \in Courses
    <3>1. job.ref \in 1..MaxLinks /\ link[job.ref] # None
      BY <1>2, <1>3 DEF FindActive, Framed, Fits
    <3>2. link \in [1..MaxLinks -> Link \cup {None}]
      BY DEF TypeInv, TypeOK, AccountsOK
    <3> QED
      BY <3>1, <3>2 DEF Link
  <2>2. "target" \in Pcs
    BY DEF Pcs
  <2> HIDE DEF to
  <2>3. /\ next \in Job /\ next.pc = "target" /\ next.req = job.req /\ next.who = job.who
        /\ next.to = to /\ next.todo = job.todo /\ next.ref = job.ref
        /\ next.doc = job.doc /\ Follows(job, next)
    BY <1>1, <1>2, <2>1, <2>2 DEF Job, Follows
  <2> HIDE DEF next
  <2>4. Framed(next)
    BY <1>1, <1>2, <2>1, <2>3 DEF Framed, Fits, Routed, AtStudent, OfCourse, Joining,
                                 Rostering, Linking
  <2> QED
    BY <1>2, <1>3, <2>3, <2>4, SetTurn DEF Sound
<1>4. CASE Finish(t)
  BY <1>4, FinishTurn
<1> QED
  BY <1>3, <1>4 DEF FindLink

LEMMA TargetTurn ==
  ASSUME TypeInv, NEW t \in Threads, Target(t)
  PROVE  Turn(t)
<1> DEFINE pc == IF th[t].req.op = "join" THEN "account"
                 ELSE IF SelfServe THEN "new" ELSE "enrol"
<1>1. Busy(t) /\ th[t].pc = "target" /\ (Finish(t) \/ Go(t, pc)) /\ pc \in Pcs
  BY AtIsBusy DEF Target, At, Pcs
<1>2. th[t].req.op \in {"join", "mejoin"}
  BY <1>1, Working DEF Framed, Fits, Routed, Joining
<1>3. Fits(th[t], pc)
  BY <1>1, <1>2, Working DEF Framed, Fits, Routed, AtStudent, OfStudent, Joining
<1> HIDE DEF pc
<1> QED
  BY <1>1, <1>3, StopOrGo

LEMMA ReadAccountTurn ==
  ASSUME TypeInv, NEW t \in Threads, ReadAccount(t)
  PROVE  Turn(t)
<1>1. /\ At(t, "account")
      /\ Finish(t) \/ Go(t, "new") \/ Go(t, "find")
  BY DEF ReadAccount
<1>2. Road("account", "new") /\ Road("account", "find")
  BY DEF Road, Framed, Fits, Routed, AtStudent, OfStudent, Joining
<1> QED
  BY <1>1, <1>2, Passes DEF Pcs

LEMMA LaunchTurn ==
  ASSUME TypeInv, NEW t \in Threads, Launch(t)
  PROVE  Turn(t)
<1> DEFINE job == th[t]
           to == exam[job.req.exam].course
           next == [job EXCEPT !.to = to, !.pc = "enrol"]
<1>1. Busy(t) /\ job.pc = "launch"
  BY AtIsBusy DEF Launch, At
<1>2. job # Idle /\ job \in Job /\ Framed(job) /\ Asked(job.req) /\ job.req.op = "launch"
  BY <1>1, Working DEF Framed, Fits, Routed
<1>3. CASE /\ exam[job.req.exam] # None /\ to # None
           /\ Set(t, next)
  <2>1. to \in Courses
    <3>1. job.req.exam \in Exams
      BY <1>2 DEF Asked, OfExam
    <3>2. exam \in [Exams -> Exam \cup {None}]
      BY DEF TypeInv, TypeOK, DeskOK
    <3> QED
      BY <1>3, <3>1, <3>2 DEF Exam
  <2>2. "enrol" \in Pcs
    BY DEF Pcs
  <2> HIDE DEF to
  <2>3. /\ next \in Job /\ next.pc = "enrol" /\ next.req = job.req /\ next.who = job.who
        /\ next.to = to /\ next.todo = job.todo /\ next.ref = job.ref
        /\ next.doc = job.doc /\ Follows(job, next)
    BY <1>1, <1>2, <2>1, <2>2 DEF Job, Follows
  <2> HIDE DEF next
  <2>4. Framed(next)
    BY <1>1, <1>2, <2>1, <2>3 DEF Framed, Fits, Routed, AtStudent, OfStudent, OfCourse,
                                 Joining, Rostering, Linking
  <2> QED
    BY <1>2, <1>3, <2>3, <2>4, SetTurn DEF Sound
<1>4. CASE Finish(t)
  BY <1>4, FinishTurn
<1> QED
  BY <1>3, <1>4 DEF Launch

-----------------------------------------------------------------------------
(* The latest of some rows.                                                 *)

LEMMA SomeGreatest ==
  ASSUME NEW S, IsFiniteSet(S), S # {}, NEW f \in [S -> Nat]
  PROVE  \E x \in S : \A y \in S : f[y] <= f[x]
<1> DEFINE Tops(U) == {x \in U : \A y \in U : f[y] <= f[x]}
           Topless == {U \in SUBSET S : U # {} /\ Tops(U) = {}}
           Sizes == {Cardinality(U) : U \in Topless}
           Less == OpToRel(<, Nat)
<1> SUFFICES ASSUME Tops(S) = {}
             PROVE  FALSE
  OBVIOUS
<1>1. \A U \in SUBSET S : IsFiniteSet(U) /\ Cardinality(U) \in Nat
  BY FS_Subset, FS_CardinalityType
<1>2. Sizes \subseteq Nat /\ Sizes # {}
  BY <1>1
<1>3. \E n \in Sizes : \A m \in Sizes : ~(<<m, n>> \in Less)
  <2> HIDE DEF Sizes, Less
  <2>1. IsWellFoundedOn(Less, Nat)
    BY NatLessThanWellFounded DEF Less
  <2> QED
    BY <1>2, <2>1, WFMin
<1>4. PICK U \in Topless : \A m \in Sizes : ~(<<m, Cardinality(U)>> \in Less)
  BY <1>3
<1>5. \A m \in Sizes : ~(m < Cardinality(U))
  BY <1>1, <1>2, <1>4 DEF OpToRel
<1>6. PICK x \in U : TRUE
  BY <1>4
<1> DEFINE V == U \ {x}
<1>7. V \in SUBSET S /\ Cardinality(V) < Cardinality(U)
  <2>1. IsFiniteSet(U) /\ V \in SUBSET S
    BY <1>1, <1>4
  <2>2. Cardinality(V) = Cardinality(U) - 1 /\ Cardinality(U) \in Nat
    BY <1>6, <2>1, FS_RemoveElement, FS_CardinalityType
  <2> QED
    BY <2>1, <2>2
<1>8. V = {} \/ Tops(V) # {}
  BY <1>5, <1>7
<1>9. \A y \in U : f[y] \in Nat
  BY <1>4
<1>10. CASE V = {}
  <2>1. U = {x}
    BY <1>6, <1>10
  <2>2. x \in Tops(U)
    BY <1>6, <1>9, <2>1
  <2> QED
    BY <1>4, <2>2
<1>11. CASE Tops(V) # {}
  <2>1. PICK m \in V : \A y \in V : f[y] <= f[m]
    BY <1>11
  <2>2. m \in Tops(U) \/ x \in Tops(U)
    BY <1>6, <1>9, <2>1
  <2> QED
    BY <1>4, <2>2
<1> QED
  BY <1>8, <1>10, <1>11

LEMMA GreatestNumber ==
  ASSUME NEW S \in SUBSET Nat, IsFiniteSet(S), S # {}
  PROVE  \E x \in S : \A y \in S : y <= x
<1> DEFINE f == [x \in S |-> x]
<1>1. PICK x \in S : \A y \in S : f[y] <= f[x]
  BY SomeGreatest
<1> QED
  BY <1>1

\* The rows of a student's pathways.
LEMMA PathwayRows ==
  ASSUME TypeInv
  PROVE  /\ path \in Seq(Pathway \cup {None}) /\ Len(path) \in Nat
         /\ DOMAIN path = 1..Len(path)
         /\ \A p \in DOMAIN path : path[p] \in Pathway \cup {None}
         /\ \A p \in DOMAIN path : path[p] # None =>
              /\ path[p] \in Pathway /\ path[p].at \in Nat /\ path[p].given \in Nat
              /\ path[p].step \in 0..FormationSteps /\ path[p].who \in Students
              /\ path[p].open \in BOOLEAN /\ path[p].cleared \in BOOLEAN
         /\ \A s : IsFiniteSet(OpenPathways(s)) /\ IsFiniteSet(PathwaysOf(s))
<1>1. path \in Seq(Pathway \cup {None})
  BY DEF TypeInv, TypeOK, DeskOK
<1>2. /\ Len(path) \in Nat /\ DOMAIN path = 1..Len(path)
      /\ \A p \in DOMAIN path : path[p] \in Pathway \cup {None}
  BY <1>1, LenProperties, ElementOfSeq
<1>3. \A p \in DOMAIN path : path[p] # None =>
        /\ path[p] \in Pathway /\ path[p].at \in Nat /\ path[p].given \in Nat
        /\ path[p].step \in 0..FormationSteps /\ path[p].who \in Students
        /\ path[p].open \in BOOLEAN /\ path[p].cleared \in BOOLEAN
  BY <1>2 DEF Pathway
<1>4. IsFiniteSet(DOMAIN path)
  BY <1>2, FS_Interval
<1>5. \A s : OpenPathways(s) \subseteq DOMAIN path /\ PathwaysOf(s) \subseteq DOMAIN path
  BY DEF OpenPathways, PathwaysOf
<1>6. \A s : IsFiniteSet(OpenPathways(s)) /\ IsFiniteSet(PathwaysOf(s))
  BY <1>4, <1>5, FS_Subset
<1> QED
  BY <1>1, <1>2, <1>3, <1>6

\* The pathway that is found is an open one of the student.
LEMMA FoundOpen ==
  ASSUME TypeInv, NEW s
  PROVE  Found(s) = None \/ Found(s) \in OpenPathways(s)
<1>1. CASE OpenPathways(s) # {}
  <2> DEFINE f == [p \in OpenPathways(s) |-> path[p].at]
  <2>1. \A p \in OpenPathways(s) : p \in DOMAIN path /\ path[p] # None
    BY DEF OpenPathways, PathwaysOf
  <2>2. f \in [OpenPathways(s) -> Nat] /\ IsFiniteSet(OpenPathways(s))
    BY <2>1, PathwayRows
  <2>3. \E p \in OpenPathways(s) : \A q \in OpenPathways(s) : f[q] <= f[p]
    <3> HIDE DEF f
    <3> QED
      BY <1>1, <2>2, SomeGreatest
  <2>4. \E p \in OpenPathways(s) : \A q \in OpenPathways(s) : path[q].at <= path[p].at
    BY <2>3
  <2> QED
    BY <1>1, <2>4 DEF Found
<1>2. CASE OpenPathways(s) = {}
  BY <1>2 DEF Found
<1> QED
  BY <1>1, <1>2

-----------------------------------------------------------------------------
(* The desk.                                                                *)

\* A write that makes the copies of other threads stale.
LEMMA SetOverTurn ==
  ASSUME TypeInv, NEW t \in Threads, NEW job, Sound(job), NEW readers \in SUBSET Others(t),
         SetOver(t, job, readers), job # Idle => Follows(th[t], job)
  PROVE  /\ Turn(t) /\ th'[t] = job
         /\ \A s \in Threads \ {t} : /\ s \notin readers => th'[s] = th[s]
                                     /\ s \in readers => th'[s] = [th[s] EXCEPT !.fresh = FALSE]
<1>1. \A s \in Threads : th[s] \in Job \cup {Idle}
  BY DEF TypeInv, TypeOK
<1>2. th' = [s \in Threads |-> IF s = t THEN job
                              ELSE IF s \in readers THEN [th[s] EXCEPT !.fresh = FALSE]
                              ELSE th[s]]
  BY DEF SetOver
<1>3. \A s \in readers : s \in Threads \ {t} /\ th[s] # Idle /\ th[s] \in Job
  BY <1>1 DEF Others, Busy
<1>4. ASSUME NEW s \in readers PROVE [th[s] EXCEPT !.fresh = FALSE] \in Job
  <2>1. th[s] \in Job
    BY <1>3
  <2> QED
    BY <2>1 DEF Job
<1>5. th'[t] = job /\ job \in Job \cup {Idle}
  BY <1>2 DEF Sound
<1>6. \A s \in Threads \ {t} : /\ s \notin readers => th'[s] = th[s]
                               /\ s \in readers => th'[s] = [th[s] EXCEPT !.fresh = FALSE]
  BY <1>2
<1>7. \A s \in Threads \ {t} : Kept(th[s], th'[s]) /\ th'[s] \in Job \cup {Idle}
  <2> SUFFICES ASSUME NEW s \in Threads \ {t}
               PROVE  Kept(th[s], th'[s]) /\ th'[s] \in Job \cup {Idle}
    OBVIOUS
  <2>1. CASE s \in readers
    <3>1. th'[s] = [th[s] EXCEPT !.fresh = FALSE] /\ th[s] # Idle
      BY <1>3, <1>6, <2>1
    <3>2. [th[s] EXCEPT !.fresh = FALSE] \in Job
      BY <1>4, <2>1
    <3> QED
      BY Zenon, <3>1, <3>2 DEF Kept
  <2>2. CASE s \notin readers
    <3>1. th'[s] = th[s] /\ th[s] \in Job \cup {Idle}
      BY <1>1, <1>6, <2>2
    <3> QED
      BY Zenon, <3>1 DEF Kept
  <2> QED
    BY <2>1, <2>2
<1>8. th' \in [Threads -> Job \cup {Idle}]
  <2>1. \A s \in Threads : th'[s] \in Job \cup {Idle}
    BY <1>5, <1>7
  <2>2. th' = [s \in Threads |-> th'[s]]
    BY <1>2
  <2> QED
    BY <2>1, <2>2
<1>9. Turn(t)
  BY <1>5, <1>7, <1>8 DEF Turn
<1> QED
  BY Zenon, <1>5, <1>6, <1>9

\* The row that a request makes is one.
LEMMA EditedRow ==
  ASSUME NEW job \in Job, Asked(job.req), NEW row \in Exam,
         job.req.op \in {"create", "patch", "release"}
  PROVE  Edited(job, row) \in Exam
<1>1. /\ job.n \in Nat /\ job.req.course \in Courses \cup {None} /\ job.req.on \in BOOLEAN
      /\ row.title \in Nat /\ row.course \in Courses \cup {None}
      /\ row.park \in BOOLEAN /\ row.out \in BOOLEAN
  BY JobFields, CallFields, BoundAssumption DEF Exam, Numbers
<1>2. (job.req.op = "release" /\ job.req.on) \in BOOLEAN
  OBVIOUS
<1> QED
  BY <1>1, <1>2 DEF Edited, Exam

LEMMA BlankRow == Blank \in Exam
BY DEF Blank, Exam

\* A request that has made its row goes on with it.
LEMMA WithRow ==
  ASSUME TypeInv, NEW t \in Threads, Busy(t), NEW row \in Exam, NEW pc \in Pcs,
         th[t].pc \in {"create", "exam"}, Routed(th[t].req.op, pc),
         pc \in {"named", "exams", "putexam"},
         th[t].req.op \in {"create", "patch", "release"},
         Set(t, [th[t] EXCEPT !.doc = row, !.fresh = TRUE, !.pc = pc])
  PROVE  Turn(t) /\ th'[t].doc = row /\ th'[t].pc = pc /\ th'[t].req = th[t].req
<1> DEFINE job == th[t]
           next == [job EXCEPT !.doc = row, !.fresh = TRUE, !.pc = pc]
<1>1. job # Idle /\ job \in Job /\ Framed(job) /\ Asked(job.req)
  BY Working
<1>2. row \in Exam \cup Park \cup Reached \cup {None}
  OBVIOUS
<1>3. /\ next \in Job /\ next.pc = pc /\ next.req = job.req /\ next.who = job.who
      /\ next.to = job.to /\ next.todo = job.todo /\ next.ref = job.ref
      /\ next.doc = row /\ Follows(job, next)
  BY <1>1, <1>2 DEF Job, Follows
<1> HIDE DEF next
<1>4. Framed(next)
  BY <1>1, <1>3 DEF Framed, Fits, AtStudent, Joining, OfStudent, OfCourse, Rostering, Linking
<1>5. Sound(next)
  BY <1>1, <1>3, <1>4 DEF Sound
<1> QED
  BY <1>3, <1>5, SetTurn DEF next

LEMMA AfterBeforePut ==
  ASSUME NEW r \in Call, r.op \in {"create", "patch"}
  PROVE  /\ BeforePut(r) \in {"named", "exams", "putexam"}
         /\ BeforePut(r) \in Pcs /\ Routed(r.op, BeforePut(r))
<1>1. /\ BeforePut(r) \in {"named", "exams", "putexam"}
      /\ BeforePut(r) = "exams" => r.op = "create"
  BY DEF BeforePut
<1> QED
  BY <1>1 DEF Pcs, Routed

LEMMA CreateExamTurn ==
  ASSUME TypeInv, NEW t \in Threads, CreateExam(t)
  PROVE  Turn(t)
<1> DEFINE job == th[t]
           row == Edited(job, Blank)
           pc == BeforePut(job.req)
<1>1. /\ Busy(t) /\ job.pc = "create"
      /\ Set(t, [job EXCEPT !.doc = row, !.fresh = TRUE, !.pc = pc])
  BY AtIsBusy DEF CreateExam, At
<1>2. job \in Job /\ Asked(job.req) /\ job.req.op = "create" /\ job.req \in Call
  BY <1>1, Working DEF Framed, Fits, Routed, Asked
<1>3. row \in Exam
  BY <1>2, BlankRow, EditedRow
<1>4. pc \in {"named", "exams", "putexam"} /\ pc \in Pcs /\ Routed(job.req.op, pc)
  BY <1>2, AfterBeforePut
<1> HIDE DEF row, pc
<1> QED
  BY <1>1, <1>2, <1>3, <1>4, WithRow

LEMMA NamedCourseTurn ==
  ASSUME TypeInv, NEW t \in Threads, NamedCourse(t)
  PROVE  Turn(t)
<1> DEFINE pc == IF th[t].req.op = "create" /\ SelfServe THEN "exams" ELSE "putexam"
<1>1. Busy(t) /\ th[t].pc = "named" /\ (Finish(t) \/ Go(t, pc)) /\ pc \in Pcs
  BY AtIsBusy DEF NamedCourse, At, Pcs
<1>2. th[t].req.op \in {"create", "patch"}
  BY <1>1, Working DEF Framed, Fits, Routed
<1>3. Fits(th[t], pc)
  BY <1>1, <1>2, Working DEF Framed, Fits, Routed, AtStudent, OfStudent, Joining
<1> HIDE DEF pc
<1> QED
  BY <1>1, <1>3, StopOrGo

LEMMA CountExamsTurn ==
  ASSUME TypeInv, NEW t \in Threads, CountExams(t)
  PROVE  Turn(t)
<1> DEFINE job == th[t]
           next == [job EXCEPT !.pc = "putexam", !.counted = TRUE]
<1>1. Busy(t) /\ job.pc = "exams" /\ job.req.op = "create"
  BY AtIsBusy DEF CountExams, At
<1>2. job # Idle /\ job \in Job /\ Framed(job) /\ Asked(job.req)
  BY <1>1, Working
<1>3. "putexam" \in Pcs /\ Fits(job, "putexam")
  BY <1>1, <1>2 DEF Framed, Fits, Routed, AtStudent, OfStudent, Joining, Pcs
<1>4. /\ next \in Job /\ next.pc = "putexam" /\ next.req = job.req /\ next.who = job.who
      /\ next.to = job.to /\ next.todo = job.todo /\ next.ref = job.ref
      /\ next.doc = job.doc /\ Follows(job, next)
  BY <1>1, <1>2, <1>3 DEF Job, Follows
<1> HIDE DEF next
<1>5. Sound(next)
  BY <1>2, <1>3, <1>4 DEF Sound, Framed, Fits
<1>6. Finish(t) \/ Set(t, next) \/ Go(t, "putexam")
  BY DEF CountExams, next
<1> QED
  BY <1>1, <1>3, <1>4, <1>5, <1>6, SetTurn, StopOrGo

LEMMA ReadExamTurn ==
  ASSUME TypeInv, NEW t \in Threads, ReadExam(t)
  PROVE  Turn(t)
<1> DEFINE job == th[t]
           e == job.req.exam
           row == Edited(job, exam[e])
           pc == AfterExam(job.req)
<1>1. Busy(t) /\ job.pc = "exam"
  BY AtIsBusy DEF ReadExam, At
<1>2. /\ job \in Job /\ Asked(job.req) /\ Framed(job) /\ job.req \in Call
      /\ job.req.op \in {"patch", "release", "delete", "scan", "beat", "override"}
      /\ e \in Exams
  BY <1>1, Working DEF Framed, Fits, Routed, Asked, OfExam
<1>3. CASE Finish(t)
  BY <1>3, FinishTurn
<1>4. CASE /\ job.req.op \in {"patch", "release"} /\ exam[e] # None
           /\ Set(t, [job EXCEPT !.doc = row, !.fresh = TRUE, !.pc = pc])
  <2>1. exam[e] \in Exam
    BY <1>2, <1>4 DEF TypeInv, TypeOK, DeskOK
  <2>2. row \in Exam
    BY <1>2, <1>4, <2>1, EditedRow
  <2>3. pc \in {"named", "exams", "putexam"} /\ pc \in Pcs /\ Routed(job.req.op, pc)
    <3>1. CASE job.req.op = "patch"
      BY <1>2, <3>1, AfterBeforePut DEF AfterExam
    <3>2. CASE job.req.op = "release"
      BY <3>2 DEF AfterExam, Routed, Pcs
    <3> QED
      BY <1>4, <3>1, <3>2
  <2> HIDE DEF row, pc
  <2> QED
    BY <1>1, <1>2, <1>4, <2>2, <2>3, WithRow
<1>5. CASE job.req.op \notin {"patch", "release"} /\ Go(t, pc)
  <2>1. pc \in Pcs
    BY <1>2, <1>5 DEF AfterExam, Pcs
  <2>2. Routed(job.req.op, pc) /\ pc \in {"dropexam", "since", "parked", "readpark"}
    BY <1>2, <1>5 DEF AfterExam, Routed
  <2>3. Fits(job, pc)
    BY <1>1, <1>2, <1>5, <2>2 DEF Framed, Fits, AtStudent, Joining
  <2> HIDE DEF pc
  <2> QED
    BY <1>1, <1>5, <2>1, <2>3, GoTurn
<1> QED
  BY <1>3, <1>4, <1>5 DEF ReadExam

LEMMA OverTurns ==
  ASSUME TypeInv, NEW t \in Threads,
         PutExam(t) \/ DeleteExam(t) \/ DeleteCourse(t) \/ WritePark(t)
  PROVE  Turn(t)
<1>1. \E readers \in SUBSET Others(t) : SetOver(t, Idle, readers)
  BY DEF PutExam, DeleteExam, DeleteCourse, WritePark, Holding
<1> QED
  BY <1>1, SetOverTurn DEF Sound

\* A handler that goes on at another point, with a fresh reading.
LEMMA FreshTurn ==
  ASSUME TypeInv, NEW t \in Threads, Busy(t), NEW pc \in Pcs, Fits(th[t], pc),
         Set(t, [th[t] EXCEPT !.pc = pc, !.fresh = TRUE])
  PROVE  Turn(t)
<1> DEFINE job == th[t]
           next == [job EXCEPT !.pc = pc, !.fresh = TRUE]
<1>1. job # Idle /\ job \in Job /\ Asked(job.req)
  BY Working
<1>2. /\ next \in Job /\ next.pc = pc /\ next.req = job.req /\ next.who = job.who
      /\ next.to = job.to /\ next.todo = job.todo /\ next.ref = job.ref
      /\ next.doc = job.doc /\ Follows(job, next)
  BY <1>1 DEF Job, Follows
<1> HIDE DEF next
<1>3. Sound(next)
  BY <1>1, <1>2 DEF Sound, Framed, Fits
<1> QED
  BY <1>2, <1>3, SetTurn DEF next

LEMMA ReadCourseTurn ==
  ASSUME TypeInv, NEW t \in Threads, ReadCourse(t)
  PROVE  Turn(t)
<1> DEFINE job == th[t]
           pc == IF job.req.op = "editcourse" THEN "putcourse" ELSE "exams"
<1>1. Busy(t) /\ job.pc = "course" /\ job.req.op \in {"editcourse", "dropcourse"}
  BY AtIsBusy DEF ReadCourse, At
<1>2. Finish(t) \/ Set(t, [job EXCEPT !.pc = pc, !.fresh = TRUE])
  <2>1. \/ Finish(t)
        \/ Set(t, [job EXCEPT !.fresh = TRUE, !.pc = pc])
    BY DEF ReadCourse
  <2>2. [job EXCEPT !.fresh = TRUE, !.pc = pc] = [job EXCEPT !.pc = pc, !.fresh = TRUE]
    BY <1>1, Working DEF Job
  <2> QED
    BY <2>1, <2>2
<1>3. pc \in Pcs
  BY DEF Pcs
<1>4. Fits(job, pc)
  BY <1>1, Working DEF Framed, Fits, Routed, AtStudent, OfStudent, Joining
<1> HIDE DEF pc
<1> QED
  BY <1>1, <1>2, <1>3, <1>4, FinishTurn, FreshTurn

LEMMA CourseExamsTurn ==
  ASSUME TypeInv, NEW t \in Threads, CourseExams(t)
  PROVE  Turn(t)
<1>1. Busy(t) /\ th[t].pc = "exams" /\ th[t].req.op = "dropcourse"
  BY AtIsBusy DEF CourseExams, At
<1>2. Fits(th[t], "dropcourse") /\ "dropcourse" \in Pcs
  BY <1>1, Working DEF Framed, Fits, Routed, AtStudent, OfStudent, Joining, Pcs
<1>3. \/ Finish(t) \/ Go(t, "dropcourse")
      \/ Set(t, [th[t] EXCEPT !.pc = "dropcourse", !.fresh = TRUE])
  BY DEF CourseExams
<1> QED
  BY <1>1, <1>2, <1>3, StopOrGo, FreshTurn

LEMMA RowTyped ==
  ASSUME TypeInv, NEW job, job.req.exam \in Exams, job.who \in Students
  PROVE  Row(job) \in Park \cup {None}
<1>1. park \in [Exams -> [Students -> Park \cup {None}]]
  BY DEF TypeInv, TypeOK, DeskOK
<1>2. park[job.req.exam] \in [Students -> Park \cup {None}]
  BY <1>1
<1> QED
  BY <1>2 DEF Row

LEMMA SinceTurn ==
  ASSUME TypeInv, NEW t \in Threads, Since(t)
  PROVE  Turn(t)
<1> DEFINE job == th[t]
           at == IF Row(job) = None \/ Row(job).at = 0 THEN job.n ELSE Row(job).at
           next == [job EXCEPT !.at = at, !.pc = "readpark"]
<1>1. Busy(t) /\ job.pc = "since" /\ Set(t, next)
  BY AtIsBusy DEF Since, At
<1>2. /\ job # Idle /\ job \in Job /\ Framed(job) /\ Asked(job.req)
      /\ job.req.op = "scan" /\ job.req.exam \in Exams /\ job.who \in Students
  BY <1>1, Working DEF Framed, Fits, Routed, Asked, OfExam, OfStudent
<1>3. at \in Nat
  <2>1. job.n \in Nat
    BY <1>2, JobFields, BoundAssumption DEF Numbers
  <2>2. Row(job) \in Park \cup {None}
    BY <1>2, RowTyped
  <2> QED
    BY <2>1, <2>2 DEF Park
<1>4. "readpark" \in Pcs /\ Fits(job, "readpark")
  BY <1>1, <1>2 DEF Framed, Fits, Routed, AtStudent, Joining, Pcs
<1> HIDE DEF at
<1>5. /\ next \in Job /\ next.pc = "readpark" /\ next.req = job.req /\ next.who = job.who
      /\ next.to = job.to /\ next.todo = job.todo /\ next.ref = job.ref
      /\ next.doc = job.doc /\ Follows(job, next)
  BY <1>1, <1>2, <1>3, <1>4 DEF Job, Follows
<1> HIDE DEF next
<1>6. Sound(next)
  BY <1>2, <1>4, <1>5 DEF Sound, Framed, Fits
<1> QED
  BY <1>1, <1>5, <1>6, SetTurn

LEMMA ReadParkTurn ==
  ASSUME TypeInv, NEW t \in Threads, ReadPark(t)
  PROVE  Turn(t)
<1> DEFINE job == th[t]
           row == IF Row(job) = None THEN NoPark ELSE Row(job)
           doc == MergePark(job, row)
           next == [job EXCEPT !.doc = doc, !.fresh = TRUE, !.pc = "writepark"]
<1>1. Busy(t) /\ job.pc = "readpark" /\ Set(t, next)
  BY AtIsBusy DEF ReadPark, At
<1>2. /\ job # Idle /\ job \in Job /\ Framed(job) /\ Asked(job.req)
      /\ job.req.op \in {"scan", "beat", "override"}
      /\ job.req.exam \in Exams /\ job.who \in Students
  BY <1>1, Working DEF Framed, Fits, Routed, Asked, OfExam, OfStudent
<1>3. doc \in Park
  <2>1. row \in Park
    <3>1. Row(job) \in Park \cup {None}
      BY <1>2, RowTyped
    <3>2. NoPark \in Park
      BY DEF NoPark, Park
    <3> QED
      BY <3>1, <3>2
  <2>2. job.at \in Nat
    BY <1>2, JobFields
  <2> HIDE DEF row
  <2> QED
    BY <1>2, <2>1, <2>2 DEF MergePark, Park
<1>4. "writepark" \in Pcs /\ doc \in Exam \cup Park \cup Reached \cup {None}
  BY <1>3 DEF Pcs
<1> HIDE DEF doc
<1>5. /\ next \in Job /\ next.pc = "writepark" /\ next.req = job.req /\ next.who = job.who
      /\ next.to = job.to /\ next.todo = job.todo /\ next.ref = job.ref
      /\ next.doc = doc /\ Follows(job, next)
  BY <1>1, <1>2, <1>4 DEF Job, Follows
<1> HIDE DEF next
<1>6. Framed(next)
  BY <1>1, <1>2, <1>3, <1>5 DEF Framed, Fits, Routed, AtStudent, Joining, OfCourse,
                               Rostering, Linking
<1> QED
  BY <1>1, <1>2, <1>5, <1>6, SetTurn DEF Sound

LEMMA ParkedTurn ==
  ASSUME TypeInv, NEW t \in Threads, Parked(t)
  PROVE  Turn(t)
<1>1. At(t, "parked") /\ (Finish(t) \/ Go(t, "readpark"))
  BY DEF Parked
<1>2. Road("parked", "readpark")
  BY DEF Road, Framed, Fits, Routed, AtStudent, OfStudent, Joining
<1> QED
  BY <1>1, <1>2, Passes DEF Pcs

-----------------------------------------------------------------------------
(* Formation pathways and the wall of tiles.                                *)

LEMMA MineTurn ==
  ASSUME TypeInv, NEW t \in Threads, Mine(t)
  PROVE  Turn(t)
<1>1. /\ At(t, "mine")
      /\ Go(t, "pathway") \/ Go(t, "reach")
  BY DEF Mine
<1>2. Road("mine", "pathway") /\ Road("mine", "reach")
  BY DEF Road, Framed, Fits, Routed, AtStudent, OfStudent, Joining
<1> QED
  BY <1>1, <1>2, Passes DEF Pcs

LEMMA FitsReach ==
  ASSUME TypeInv, NEW t \in Threads, Busy(t), th[t].pc \in {"pathway", "newpath"},
         th[t].req.op = "session"
  PROVE  Fits(th[t], "reach") /\ "reach" \in Pcs
<1>1. Fits(th[t], "reach")
  BY Working DEF Framed, Fits, Routed, AtStudent, OfStudent, Joining
<1> QED
  BY <1>1 DEF Pcs

LEMMA ReadOpenTurn ==
  ASSUME TypeInv, NEW t \in Threads, ReadOpen(t)
  PROVE  Turn(t)
<1>1. Busy(t) /\ th[t].pc = "pathway"
  BY AtIsBusy DEF ReadOpen, At
<1>2. CASE Set(t, AfterOpening(th[t]))
  <2>1. Finish(t) \/ (th[t].req.op = "session" /\ Go(t, "reach"))
    BY <1>2 DEF AfterOpening, Finish, Go
  <2> QED
    BY <1>1, <2>1, FitsReach, StopOrGo, FinishTurn
<1>3. CASE \/ Go(t, "newpath")
           \/ Set(t, [th[t] EXCEPT !.pc = "newpath", !.fresh = TRUE])
  <2>1. Fits(th[t], "newpath") /\ "newpath" \in Pcs
    BY <1>1, Working DEF Framed, Fits, Routed, AtStudent, OfStudent, Joining, Pcs
  <2> QED
    BY <1>1, <1>3, <2>1, GoTurn, FreshTurn
<1> QED
  BY <1>2, <1>3 DEF ReadOpen

LEMMA OpenPathwayTurn ==
  ASSUME TypeInv, NEW t \in Threads, OpenPathway(t)
  PROVE  Turn(t)
<1> DEFINE job == th[t]
           next == AfterOpening(job)
<1>1. Busy(t) /\ job.pc = "newpath"
  BY AtIsBusy DEF OpenPathway, At
<1>2. job # Idle /\ job \in Job /\ Framed(job) /\ Asked(job.req)
  BY <1>1, Working
<1>3. Sound(next) /\ (next # Idle => Follows(job, next))
  <2>1. CASE job.req.op = "session"
    <3> DEFINE gone == [job EXCEPT !.pc = "reach"]
    <3>1. "reach" \in Pcs /\ Fits(job, "reach")
      BY <1>1, <2>1, FitsReach
    <3>2. /\ gone \in Job /\ gone.pc = "reach" /\ gone.req = job.req /\ gone.who = job.who
          /\ gone.to = job.to /\ gone.todo = job.todo /\ gone.ref = job.ref
          /\ gone.doc = job.doc /\ Follows(job, gone)
      BY <1>1, <1>2, <3>1 DEF Job, Follows
    <3>3. next = gone
      BY <2>1 DEF AfterOpening
    <3> HIDE DEF gone, next
    <3> QED
      BY <1>2, <3>1, <3>2, <3>3 DEF Sound, Framed, Fits
  <2>2. CASE job.req.op # "session"
    BY <2>2 DEF AfterOpening, Sound
  <2> QED
    BY <2>1, <2>2
<1>4. \/ Set(t, next)
      \/ SetOver(t, next, {o \in Others(t) : At(o, "newpath") /\ th[o].who = job.who})
  BY DEF OpenPathway
<1> HIDE DEF next
<1> QED
  BY <1>3, <1>4, SetTurn, SetOverTurn

LEMMA ReachTurn ==
  ASSUME TypeInv, NEW t \in Threads, Reach(t)
  PROVE  Turn(t)
<1> DEFINE job == th[t]
           p == Found(job.who)
           doc == [id |-> p, step |-> path[p].step]
           next == [job EXCEPT !.pc = "step", !.doc = doc, !.fresh = TRUE]
<1>1. Busy(t) /\ job.pc = "reach"
  BY AtIsBusy DEF Reach, At
<1>2. job # Idle /\ job \in Job /\ Framed(job) /\ Asked(job.req)
  BY <1>1, Working
<1>3. CASE p # None /\ Set(t, next)
  <2>1. p \in OpenPathways(job.who)
    BY <1>3, FoundOpen
  <2>2. p \in Nat /\ path[p].step \in 0..FormationSteps
    BY <2>1, PathwayRows DEF OpenPathways, PathwaysOf
  <2>3. doc \in Reached /\ "step" \in Pcs
    BY <2>2 DEF Reached, Pcs
  <2>4. doc \in Exam \cup Park \cup Reached \cup {None}
    BY <2>3
  <2> HIDE DEF doc
  <2>5. /\ next \in Job /\ next.pc = "step" /\ next.req = job.req /\ next.who = job.who
        /\ next.to = job.to /\ next.todo = job.todo /\ next.ref = job.ref
        /\ next.doc = doc /\ Follows(job, next)
    BY <1>1, <1>2, <2>3, <2>4 DEF Job, Follows
  <2> HIDE DEF next
  <2>6. Framed(next)
    BY <1>1, <1>2, <2>3, <2>5 DEF Framed, Fits, Routed, AtStudent, Joining
  <2> QED
    BY <1>2, <1>3, <2>5, <2>6, SetTurn DEF Sound
<1>4. CASE Finish(t)
  BY <1>4, FinishTurn
<1> QED
  BY <1>3, <1>4 DEF Reach

LEMMA StepOnTurn ==
  ASSUME TypeInv, NEW t \in Threads, StepOn(t)
  PROVE  Turn(t)
<1>1. SetOver(t, Idle, {o \in Others(t) : At(o, "step") /\ th[o].doc.id = th[t].doc.id})
  BY DEF StepOn
<1> QED
  BY <1>1, SetOverTurn DEF Sound

LEMMA TileTurns ==
  ASSUME TypeInv, NEW t \in Threads, TileStep(t)
  PROVE  Turn(t)
<1>1. CASE Purge(t)
  <2>1. At(t, "purge") /\ Go(t, "wall")
    BY <1>1 DEF Purge
  <2>2. Road("purge", "wall")
    BY DEF Road, Framed, Fits, Routed, AtStudent, Joining
  <2> QED
    BY <2>1, <2>2, Passes DEF Pcs
<1>2. CASE ReadWall(t)
  <2>1. /\ Busy(t) /\ th[t].pc = "wall"
        /\ Finish(t) \/ Set(t, [th[t] EXCEPT !.pc = "newtoken", !.fresh = TRUE])
    BY <1>2, AtIsBusy DEF ReadWall, At
  <2>2. Fits(th[t], "newtoken") /\ "newtoken" \in Pcs
    BY <2>1, Working DEF Framed, Fits, Routed, AtStudent, OfStudent, Joining, Pcs
  <2> QED
    BY <2>1, <2>2, FinishTurn, FreshTurn
<1>3. CASE OpenWall(t)
  <2>1. SetOver(t, Idle, {o \in Others(t) : At(o, "newtoken")})
    BY <1>3 DEF OpenWall
  <2> QED
    BY <2>1, SetOverTurn DEF Sound
<1>4. CASE ReadToken(t)
  <2>1. At(t, "token") /\ (Finish(t) \/ Go(t, "tile"))
    BY <1>4 DEF ReadToken
  <2>2. Road("token", "tile")
    BY DEF Road, Framed, Fits, Routed, AtStudent, Joining
  <2> QED
    BY <2>1, <2>2, Passes DEF Pcs
<1>5. CASE Beat(t) \/ CloseWall(t)
  BY <1>5, LastTurns
<1>6. CASE OwnedWall(t)
  <2>1. At(t, "owned") /\ (Finish(t) \/ Go(t, "dropwall"))
    BY <1>6 DEF OwnedWall
  <2>2. Road("owned", "dropwall")
    BY DEF Road, Framed, Fits, Routed, AtStudent, Joining
  <2> QED
    BY <2>1, <2>2, Passes DEF Pcs
<1> QED
  BY <1>1, <1>2, <1>3, <1>4, <1>5, <1>6 DEF TileStep

\* Where requests begin.
Firsts == {"course", "putcourse", "look", "verify", "link", "me", "reset", "launch", "erase",
           "create", "pathway", "reach", "mine", "purge", "token", "owned", "exam"}

\* A request that begins is at its first point.
LEMMA BeginSound ==
  ASSUME TypeInv, NEW t \in Threads, Begin(t)
  PROVE  /\ Sound(th'[t]) /\ th'[t] # Idle /\ th'[t].pc = FirstPc(th'[t].req.op)
         /\ th'[t].pc \in Firsts
         /\ th'[t].over = {} /\ th'[t].counted = FALSE /\ th'[t].made = FALSE
         /\ th'[t].n = begun + 2 /\ Possible(th'[t].req)
         /\ th[t] = Idle /\ \A s \in Threads \ {t} : th'[s] = th[s]
         /\ th' \in [Threads -> Job \cup {Idle}]
<1>1. th \in [Threads -> Job \cup {Idle}] /\ th[t] = Idle
  BY DEF TypeInv, TypeOK, Begin, Busy
<1>2. PICK r \in scenario.calls : \E ref \in Refs(r) :
        /\ Possible(r)
        /\ Set(t, [ pc |-> FirstPc(r.op), req |-> r, n |-> begun + 2, who |-> Named(r),
                    todo |-> IF r.op = "add" THEN r.who ELSE {}, to |-> r.course,
                    ref |-> ref, new |-> 0, counted |-> FALSE, invited |-> FALSE,
                    made |-> FALSE, over |-> {}, doc |-> None, fresh |-> TRUE, at |-> 0 ])
  BY DEF Begin
<1>3. PICK ref \in Refs(r) :
        Set(t, [ pc |-> FirstPc(r.op), req |-> r, n |-> begun + 2, who |-> Named(r),
                 todo |-> IF r.op = "add" THEN r.who ELSE {}, to |-> r.course,
                 ref |-> ref, new |-> 0, counted |-> FALSE, invited |-> FALSE,
                 made |-> FALSE, over |-> {}, doc |-> None, fresh |-> TRUE, at |-> 0 ])
  BY <1>2
<1> DEFINE pc == FirstPc(r.op)
           who == Named(r)
           todo == IF r.op = "add" THEN r.who ELSE {}
           n == begun + 2
           job == [ pc |-> pc, req |-> r, n |-> n, who |-> who, todo |-> todo,
                    to |-> r.course, ref |-> ref, new |-> 0, counted |-> FALSE,
                    invited |-> FALSE, made |-> FALSE, over |-> {}, doc |-> None,
                    fresh |-> TRUE, at |-> 0 ]
<1>4. scenario \in Scenarios /\ scenario \in Scenario
  BY ScenarioAssumption DEF TypeInv, TypeOK
<1>5. Asked(r) /\ r \in Call
  <2>1. r \in Call
    BY <1>4 DEF Scenario
  <2>2. /\ r.op \in OfStudent => r.who # {}
        /\ r.op \in OfCourse => r.course # None
        /\ r.op \in OfExam => r.exam # None
    BY <1>4, ScenarioAssumption
  <2> QED
    BY <2>1, <2>2, CallFields DEF Asked
<1>6. n \in Numbers
  <2>1. begun \in 0..MaxCalls /\ begun < scenario.most
    BY DEF TypeInv, TypeOK, Begin
  <2>2. scenario.most \in 0..MaxCalls
    BY <1>4 DEF Scenario
  <2> QED
    BY <2>1, <2>2, BoundAssumption DEF Numbers
<1>7. /\ pc \in Pcs /\ pc \in Firsts /\ Routed(r.op, pc)
      /\ pc \notin {"enrol", "named", "putexam", "writepark", "step"}
      /\ pc \notin AtStudent
  <2>1. r.op \in Ops
    BY <1>5, CallFields
  <2>2. pc \in Firsts /\ Routed(r.op, pc)
    <3>1. CASE r.op \in Rostering \cup Linking \cup {"editcourse", "dropcourse"}
      <4>1. pc = "course"
        BY <3>1 DEF FirstPc, Rostering, Linking
      <4> QED
        BY <3>1, <4>1 DEF Routed, Firsts
    <3>2. CASE r.op \in {"newcourse", "redeem", "change", "join", "mejoin"}
      <4>1. /\ r.op = "newcourse" => pc = "putcourse"
            /\ r.op = "redeem" => pc = "look"
            /\ r.op = "change" => pc = "verify"
            /\ r.op = "join" => pc = "link"
            /\ r.op = "mejoin" => pc = "me"
        BY <3>2 DEF FirstPc, Rostering, Linking
      <4> HIDE DEF pc
      <4> QED
        BY <3>2, <4>1 DEF Routed, Joining, Firsts
    <3>3. CASE r.op \in {"reset", "launch", "erase", "create"}
      <4>1. pc = r.op
        BY <3>3 DEF FirstPc, Rostering, Linking
      <4> HIDE DEF pc
      <4> QED
        BY <3>3, <4>1 DEF Routed, Firsts
    <3>4. CASE r.op \in Forming \cup Tiling
      <4>1. /\ r.op = "formation" => pc = "pathway"
            /\ r.op = "advance" => pc = "reach"
            /\ r.op = "session" => pc = "mine"
            /\ r.op = "openwall" => pc = "purge"
            /\ r.op = "tilebeat" => pc = "token"
            /\ r.op = "closewall" => pc = "owned"
        BY <3>4 DEF FirstPc, Rostering, Linking, Forming, Tiling
      <4> HIDE DEF pc
      <4> QED
        BY <3>4, <4>1 DEF Routed, Forming, Tiling, Firsts
    <3>5. CASE r.op \in {"patch", "release", "delete", "scan", "beat", "override"}
      <4>1. pc = "exam"
        BY <3>5 DEF FirstPc, Rostering, Linking
      <4> HIDE DEF pc
      <4> QED
        BY <3>5, <4>1 DEF Routed, Firsts
    <3> HIDE DEF pc
    <3>6. \/ r.op \in Rostering \cup Linking \cup {"editcourse", "dropcourse"}
          \/ r.op \in {"newcourse", "redeem", "change", "join", "mejoin"}
          \/ r.op \in {"reset", "launch", "erase", "create"}
          \/ r.op \in Forming \cup Tiling
          \/ r.op \in {"patch", "release", "delete", "scan", "beat", "override"}
      BY <2>1 DEF Ops, Joining
    <3> QED
      BY <3>1, <3>2, <3>3, <3>4, <3>5, <3>6
  <2> HIDE DEF pc
  <2>3. pc \in Pcs /\ pc \notin {"enrol", "named", "putexam", "writepark", "step"}
        /\ pc \notin AtStudent
    BY <2>2 DEF Pcs, AtStudent, Firsts
  <2> QED
    BY <2>2, <2>3
<1>8. /\ who \in Students \cup {None} /\ todo \subseteq Students
      /\ r.op \in OfStudent => who \in Students
  <2>1. r.who \subseteq Students
    BY <1>5, CallFields
  <2>2. r.op # "add" /\ r.who # {} => who \in Students
    BY <2>1 DEF Named
  <2>3. r.op = "add" \/ r.who = {} => who = None
    BY DEF Named
  <2> QED
    BY <1>5, <2>1, <2>2, <2>3 DEF Asked, OfStudent
<1>9. /\ ref \in Nat
      /\ r.op = "redeem" => ref \in 1..MaxInvites
      /\ r.op \in Joining => ref \in 1..MaxLinks
      /\ r.op = "tilebeat" => ref \in Numbers
  <2>1. /\ minted.invites \in 0..MaxInvites /\ minted.links \in 0..MaxLinks
        /\ handed \subseteq Numbers /\ MaxInvites \in Nat /\ MaxLinks \in Nat
    BY IssueAssumption DEF TypeInv, TypeOK, WallOK
  <2>2. Numbers \subseteq Nat
    BY BoundAssumption DEF Numbers
  <2> QED
    BY <2>1, <2>2 DEF Refs, Joining
<1>10. r.op \in Joining => pc \in {"me", "link"}
  BY DEF Joining, FirstPc, Rostering, Linking
<1>11. r.op = "create" => pc = "create"
  BY DEF FirstPc, Rostering, Linking
<1>12. r.course \in Courses \cup {None}
  BY <1>5, CallFields
<1>13. Set(t, job)
  BY <1>3
<1> HIDE DEF pc, who, todo, n
<1>14. /\ job.pc = pc /\ job.req = r /\ job.n = n /\ job.who = who /\ job.todo = todo
       /\ job.to = r.course /\ job.ref = ref /\ job.over = {} /\ job.counted = FALSE
       /\ job.made = FALSE /\ job.doc = None
  OBVIOUS
<1>15. job \in Job
  BY <1>5, <1>6, <1>7, <1>8, <1>9, <1>12 DEF Job
<1> HIDE DEF job
<1>16. r.op # "add" => todo = {}
  BY DEF todo
<1>17. Framed(job)
  BY <1>7, <1>8, <1>9, <1>10, <1>11, <1>14, <1>16 DEF Framed, Fits
<1>18. Sound(job) /\ job # Idle
  BY <1>5, <1>14, <1>15, <1>17, JobFields DEF Sound
<1>19. th'[t] = job /\ \A s \in Threads \ {t} : th'[s] = th[s]
  BY <1>1, <1>13 DEF Set
<1>20. th' \in [Threads -> Job \cup {Idle}]
  BY <1>1, <1>13, <1>15 DEF Set
<1> QED
  BY <1>1, <1>2, <1>7, <1>14, <1>18, <1>19, <1>20 DEF pc, n

\* A step of a handler.
Moves(t) == AccountStep(t) \/ DeskStep(t) \/ FormationStep(t) \/ TileStep(t) \/ Fail(t)

LEMMA MovesTurn ==
  ASSUME TypeInv, NEW t \in Threads, Moves(t)
  PROVE  Turn(t)
<1>1. CASE AccountStep(t)
  BY <1>1, OwnedCourseTurn, CountNewTurn, CountTurn, NextStudentTurn, FindTurn, InsertTurn,
     SetPasswordTurn, EnrolTurn, VoidTurn, IssueTurn, UnenrolTurn, MembersTurn, HoldersTurn,
     LookTurn, ReadActiveTurn, FindLinkTurn, TargetTurn, ReadAccountTurn, LaunchTurn,
     PlainPeopleTurns, LastTurns DEF AccountStep
<1>2. CASE DeskStep(t)
  BY <1>2, CreateExamTurn, NamedCourseTurn, CountExamsTurn, ReadExamTurn, OverTurns,
     ReadCourseTurn, CourseExamsTurn, SinceTurn, ParkedTurn, ReadParkTurn, LastTurns
     DEF DeskStep
<1>3. CASE FormationStep(t)
  BY <1>3, MineTurn, ReadOpenTurn, OpenPathwayTurn, ReachTurn, StepOnTurn DEF FormationStep
<1>4. CASE TileStep(t)
  BY <1>4, TileTurns
<1>5. CASE Fail(t)
  BY <1>5, LastTurns
<1> QED
  BY <1>1, <1>2, <1>3, <1>4, <1>5 DEF Moves

-----------------------------------------------------------------------------
(* Who writes what.                                                         *)

\* A step of thread t that is not the beginning of a request.
Act(t) ==
  \/ /\ AccountStep(t) \/ DeskStep(t) \/ FormationStep(t)
     /\ UNCHANGED <<wall, scenario, begun>>
  \/ TileStep(t) /\ UNCHANGED <<tables, scenario, begun>>
  \/ Fail(t)

LEMMA Steps ==
  ASSUME [Next]_vars
  PROVE  \/ UNCHANGED vars
         \/ \E t \in Threads : Begin(t) \/ Act(t)
         \/ (\E i \in Issued : Expire(i)) /\ UNCHANGED <<wall, scenario, begun>>
         \/ Rotate /\ UNCHANGED <<wall, scenario, begun>>
         \/ Grow /\ UNCHANGED <<tables, scenario, begun>>
BY DEF Next, Act

LEMMA ActMoves ==
  ASSUME NEW t \in Threads, Act(t)
  PROVE  Moves(t)
BY DEF Act, Moves

\* Every table, with the steps that write it.
LEMMA AccountWriters ==
  ASSUME NEW t \in Threads, AccountStep(t)
  PROVE  /\ user' = user \/ Insert(t) \/ SetPassword(t) \/ Wipe(t)
         /\ invite' = invite \/ Void(t) \/ Issue(t) \/ Redeem(t) \/ Wipe(t)
         /\ link' = link \/ VoidCourseLinks(t) \/ PutCourseLink(t)
         /\ minted' = minted \/ Issue(t) \/ PutCourseLink(t)
         /\ course' = course
         /\ roster' = roster \/ Enrol(t) \/ Unenrol(t) \/ Wipe(t)
         /\ exam' = exam /\ want' = want
         /\ park' = park \/ Wipe(t)
         /\ path' = path \/ Wipe(t)
<1>1. CASE \/ OwnedCourse(t) \/ CountNew(t) \/ Count(t) \/ NextStudent(t) \/ Find(t)
           \/ Member(t) \/ Holder(t) \/ Members(t) \/ Holders(t) \/ Look(t) \/ Owner(t)
           \/ ResetRequest(t) \/ Verify(t) \/ ReadActive(t) \/ FindLink(t) \/ Target(t)
           \/ ReadAccount(t) \/ Me(t) \/ Launch(t) \/ EraseCheck(t)
  <2>1. UNCHANGED tables
    BY <1>1 DEF OwnedCourse, CountNew, Count, NextStudent, Find, Member, Holder, Members,
       Holders, Look, Owner, ResetRequest, Verify, ReadActive, FindLink, Target,
       ReadAccount, Me, Launch, EraseCheck
  <2> QED
    BY <2>1 DEF tables, people, desk
<1>2. CASE Insert(t) \/ SetPassword(t) \/ Enrol(t) \/ Void(t) \/ Issue(t) \/ Unenrol(t)
           \/ Redeem(t) \/ VoidCourseLinks(t) \/ PutCourseLink(t) \/ Wipe(t)
  <2>1. Insert(t) => UNCHANGED <<invite, link, minted, desk, course, roster>>
    BY DEF Insert
  <2>2. SetPassword(t) => UNCHANGED <<invite, link, minted, desk, course, roster>>
    BY DEF SetPassword
  <2>3. Enrol(t) => UNCHANGED <<people, desk, course>>
    BY DEF Enrol
  <2>4. Void(t) => UNCHANGED <<user, link, minted, desk, course, roster>>
    BY DEF Void
  <2>5. Issue(t) => UNCHANGED <<user, link, desk, course, roster>>
    BY DEF Issue
  <2>6. Unenrol(t) => UNCHANGED <<people, desk, course>>
    BY DEF Unenrol
  <2>7. Redeem(t) => UNCHANGED <<user, link, minted, desk, course, roster>>
    BY DEF Redeem
  <2>8. VoidCourseLinks(t) => UNCHANGED <<user, invite, minted, desk, course, roster>>
    BY DEF VoidCourseLinks
  <2>9. PutCourseLink(t) => UNCHANGED <<user, invite, desk, course, roster>>
    BY DEF PutCourseLink
  <2>10. Wipe(t) => UNCHANGED <<link, minted, exam, want, course>>
    BY DEF Wipe
  <2> QED
    BY <1>2, <2>1, <2>2, <2>3, <2>4, <2>5, <2>6, <2>7, <2>8, <2>9, <2>10
       DEF people, desk
<1> QED
  BY <1>1, <1>2 DEF AccountStep

LEMMA DeskWriters ==
  ASSUME NEW t \in Threads, DeskStep(t)
  PROVE  /\ user' = user /\ invite' = invite /\ minted' = minted /\ path' = path
         /\ link' = link \/ DeleteCourse(t)
         /\ course' = course \/ PutCourse(t) \/ DeleteCourse(t)
         /\ roster' = roster \/ DeleteCourse(t)
         /\ (exam' = exam /\ want' = want) \/ PutExam(t) \/ DeleteExam(t)
         /\ park' = park \/ WritePark(t) \/ DeleteExam(t)
<1>1. CASE \/ CreateExam(t) \/ NamedCourse(t) \/ CountExams(t) \/ ReadExam(t)
           \/ ReadCourse(t) \/ CourseExams(t) \/ Since(t) \/ Parked(t) \/ ReadPark(t)
  <2>1. UNCHANGED tables
    BY <1>1 DEF CreateExam, NamedCourse, CountExams, ReadExam, ReadCourse, CourseExams,
       Since, Parked, ReadPark
  <2> QED
    BY <2>1 DEF tables, people, desk
<1>2. CASE PutExam(t) \/ DeleteExam(t) \/ PutCourse(t) \/ DeleteCourse(t) \/ WritePark(t)
  <2>1. PutExam(t) => UNCHANGED <<people, park, path, course, roster>>
    BY DEF PutExam
  <2>2. DeleteExam(t) => UNCHANGED <<people, path, course, roster>>
    BY DEF DeleteExam
  <2>3. PutCourse(t) => UNCHANGED <<people, desk, roster>>
    BY DEF PutCourse
  <2>4. DeleteCourse(t) => UNCHANGED <<user, invite, minted, desk>>
    BY DEF DeleteCourse
  <2>5. WritePark(t) => UNCHANGED <<people, exam, want, path, course, roster>>
    BY DEF WritePark
  <2> QED
    BY <1>2, <2>1, <2>2, <2>3, <2>4, <2>5 DEF people, desk
<1> QED
  BY <1>1, <1>2 DEF DeskStep

LEMMA FormationWriters ==
  ASSUME NEW t \in Threads, FormationStep(t)
  PROVE  /\ user' = user /\ invite' = invite /\ link' = link /\ minted' = minted
         /\ course' = course /\ roster' = roster /\ exam' = exam /\ want' = want
         /\ park' = park
         /\ path' = path \/ OpenPathway(t) \/ StepOn(t)
<1>1. CASE Mine(t) \/ ReadOpen(t) \/ Reach(t)
  <2>1. UNCHANGED tables
    BY <1>1 DEF Mine, ReadOpen, Reach
  <2> QED
    BY <2>1 DEF tables, people, desk
<1>2. CASE OpenPathway(t) \/ StepOn(t)
  <2>1. UNCHANGED <<people, exam, want, park, course, roster>>
    BY <1>2 DEF OpenPathway, StepOn
  <2> QED
    BY <1>2, <2>1 DEF people
<1> QED
  BY <1>1, <1>2 DEF FormationStep

\* A step of a request writes a table only where these steps do.
LEMMA Writers ==
  ASSUME NEW t \in Threads, Act(t)
  PROVE  /\ user' = user \/ Insert(t) \/ SetPassword(t) \/ Wipe(t)
         /\ invite' = invite \/ Void(t) \/ Issue(t) \/ Redeem(t) \/ Wipe(t)
         /\ link' = link \/ VoidCourseLinks(t) \/ PutCourseLink(t) \/ DeleteCourse(t)
         /\ minted' = minted \/ Issue(t) \/ PutCourseLink(t)
         /\ course' = course \/ PutCourse(t) \/ DeleteCourse(t)
         /\ roster' = roster \/ Enrol(t) \/ Unenrol(t) \/ Wipe(t) \/ DeleteCourse(t)
         /\ (exam' = exam /\ want' = want) \/ PutExam(t) \/ DeleteExam(t)
         /\ park' = park \/ WritePark(t) \/ DeleteExam(t) \/ Wipe(t)
         /\ path' = path \/ OpenPathway(t) \/ StepOn(t) \/ Wipe(t)
         /\ (session' = session /\ tiles' = tiles /\ handed' = handed) \/ TileStep(t)
         /\ scenario' = scenario /\ begun' = begun
<1>1. CASE (AccountStep(t) \/ DeskStep(t) \/ FormationStep(t))
             /\ UNCHANGED <<wall, scenario, begun>>
  <2>1. session' = session /\ tiles' = tiles /\ handed' = handed
        /\ scenario' = scenario /\ begun' = begun
    BY <1>1 DEF wall
  <2> QED
    BY <1>1, <2>1, AccountWriters, DeskWriters, FormationWriters
<1>2. CASE TileStep(t) /\ UNCHANGED <<tables, scenario, begun>>
  BY <1>2 DEF tables, people, desk
<1>3. CASE Fail(t)
  BY <1>3 DEF Fail, tables, people, desk, wall
<1> QED
  BY <1>1, <1>2, <1>3 DEF Act

\* What excuses a property is never forgotten.
LEMMA LostGrows ==
  ASSUME NEW t \in Threads, Act(t)
  PROVE  lost \subseteq lost' /\ lost' \ lost \subseteq Excuses
<1>1. CASE AccountStep(t)
  <2>1. CASE \/ OwnedCourse(t) \/ CountNew(t) \/ NextStudent(t) \/ SetPassword(t) \/ Void(t)
             \/ Issue(t) \/ Member(t) \/ Holder(t) \/ Members(t) \/ Holders(t) \/ Look(t)
             \/ Redeem(t) \/ Owner(t) \/ ResetRequest(t) \/ Verify(t) \/ ReadActive(t)
             \/ VoidCourseLinks(t) \/ FindLink(t) \/ Target(t) \/ Me(t) \/ Launch(t)
             \/ EraseCheck(t)
    <3>1. UNCHANGED lost
      BY <2>1 DEF OwnedCourse, CountNew, NextStudent, SetPassword, Void, Issue, Member,
         Holder, Members, Holders, Look, Redeem, Owner, ResetRequest, Verify, ReadActive,
         VoidCourseLinks, FindLink, Target, Me, Launch, EraseCheck
    <3> QED
      BY <3>1
  <2>2. CASE Count(t) \/ Enrol(t) \/ PutCourseLink(t) \/ Wipe(t) \/ Unenrol(t)
    BY <2>2 DEF Count, Enrol, PutCourseLink, Wipe, Unenrol, Excuses
  <2>3. CASE Find(t) \/ ReadAccount(t)
    BY <2>3 DEF Find, ReadAccount, Excuses
  <2>4. CASE Insert(t)
    BY <2>4 DEF Insert, Excuses
  <2> QED
    BY <1>1, <2>1, <2>2, <2>3, <2>4 DEF AccountStep
<1>2. CASE DeskStep(t)
  BY <1>2 DEF DeskStep, CreateExam, NamedCourse, CountExams, ReadExam, PutExam, DeleteExam,
     ReadCourse, PutCourse, CourseExams, DeleteCourse, Since, Parked, ReadPark, WritePark,
     Excuses
<1>3. CASE FormationStep(t) \/ TileStep(t) \/ Fail(t)
  BY <1>3 DEF FormationStep, Mine, ReadOpen, OpenPathway, Reach, StepOn, TileStep, Purge,
     ReadWall, OpenWall, ReadToken, Beat, OwnedWall, CloseWall, Fail, wall, Excuses
<1> QED
  BY <1>1, <1>2, <1>3 DEF Act

-----------------------------------------------------------------------------
(* The tables keep their types.                                             *)

\* Requests' numbers, and what a point knows of its job.
LEMMA Here ==
  ASSUME TypeInv, NEW t \in Threads, NEW pc, pc # "idle", At(t, pc)
  PROVE  /\ Busy(t) /\ th[t] # Idle /\ th[t] \in Job /\ th[t].pc = pc /\ Asked(th[t].req)
         /\ Fits(th[t], pc) /\ th[t].n \in Nat /\ th[t].n # 0
<1>1. Busy(t) /\ th[t].pc = pc
  BY AtIsBusy DEF At
<1>2. th[t].n \in Numbers
  BY <1>1, Working, JobFields
<1> QED
  BY <1>1, <1>2, Working, BoundAssumption DEF Framed, Numbers

\* A point that is at a student is at one of them.
LEMMA HereStudent ==
  ASSUME TypeInv, NEW t \in Threads, NEW pc \in AtStudent, At(t, pc)
  PROVE  th[t].who \in Students
<1>1. pc # "idle"
  BY DEF AtStudent
<1> QED
  BY <1>1, Here DEF Fits

LEMMA UserTyped ==
  ASSUME TypeInv, NEW t \in Threads, Act(t)
  PROVE  user' \in [Students -> Account \cup {None}] /\ \A s \in Foreign : user'[s] = None
<1> DEFINE s == th[t].who
           n == th[t].n
<1>1. user \in [Students -> Account \cup {None}] /\ \A p \in Foreign : user[p] = None
  BY DEF TypeInv, TypeOK, AccountsOK
<1>2. CASE Insert(t)
  <2>1. s \in Students /\ n \in Nat
    BY <1>2, Here, HereStudent DEF Insert, AtStudent
  <2>2. Placeholder(n) \in Account
    BY <2>1 DEF Placeholder, Account
  <2>3. user' = user \/ (s \notin Foreign /\ user' = [user EXCEPT ![s] = Placeholder(n)])
    BY <1>2 DEF Insert, PutUser
  <2>4. CASE s \notin Foreign /\ user' = [user EXCEPT ![s] = Placeholder(n)]
    <3> DEFINE row == Placeholder(n)
    <3>1. row \in Account /\ user' = [user EXCEPT ![s] = row]
      BY <2>2, <2>4
    <3> HIDE DEF row
    <3>2. user' \in [Students -> Account \cup {None}]
      BY <1>1, <2>1, <3>1
    <3>3. \A p \in Students : p # s => user'[p] = user[p]
      BY <1>1, <2>1, <3>1
    <3> QED
      BY <1>1, <2>4, <3>2, <3>3, ForeignAssumption
  <2> QED
    BY <1>1, <2>3, <2>4
<1>3. CASE SetPassword(t)
  <2>1. s \in Students /\ n \in Nat
    BY <1>3, Here, HereStudent DEF SetPassword, AtStudent
  <2>2. user' = user \/ (user[s] # None /\ user' = [user EXCEPT ![s].pwd = n])
    BY <1>3 DEF SetPassword
  <2>3. CASE user[s] # None /\ user' = [user EXCEPT ![s].pwd = n]
    <3>1. user[s] \in Account /\ s \notin Foreign
      BY <1>1, <2>1, <2>3
    <3>2. [user[s] EXCEPT !.pwd = n] \in Account
      BY <2>1, <3>1 DEF Account
    <3>3. user' = [user EXCEPT ![s] = [user[s] EXCEPT !.pwd = n]]
      BY <1>1, <2>1, <2>3
    <3> DEFINE row == [user[s] EXCEPT !.pwd = n]
    <3>4. row \in Account /\ user' = [user EXCEPT ![s] = row]
      BY <3>2, <3>3
    <3> HIDE DEF row
    <3>5. user' \in [Students -> Account \cup {None}]
      BY <1>1, <2>1, <3>4
    <3>6. \A p \in Students : p # s => user'[p] = user[p]
      BY <1>1, <2>1, <3>4
    <3> QED
      BY <1>1, <3>1, <3>5, <3>6, ForeignAssumption
  <2> QED
    BY <1>1, <2>2, <2>3
<1>4. CASE Wipe(t)
  <2>1. user' = [user EXCEPT ![s] = None]
    BY <1>4 DEF Wipe, DropStudent
  <2>2. \A p \in Students : user'[p] = user[p] \/ user'[p] = None
    BY <1>1, <2>1
  <2> QED
    BY <1>1, <2>1, <2>2, ForeignAssumption
<1> QED
  BY <1>1, <1>2, <1>3, <1>4, Writers

\* Invites stay in their table; a new one has the next number.
LEMMA InviteTyped ==
  ASSUME TypeInv, NEW t \in Threads, Act(t)
  PROVE  /\ invite' \in [1..MaxInvites -> Invite \cup {None}]
         /\ minted'.invites \in 0..MaxInvites
<1> DEFINE job == th[t]
<1>1. /\ invite \in [1..MaxInvites -> Invite \cup {None}] /\ MaxInvites \in Nat
      /\ minted \in [invites : 0..MaxInvites, links : 0..MaxLinks,
                     exams : SUBSET Exams, courses : SUBSET Courses]
  BY IssueAssumption DEF TypeInv, TypeOK, AccountsOK
<1>2. CASE Void(t)
  <2>1. \A i \in 1..MaxInvites :
          invite[i] \in Invite => [invite[i] EXCEPT !.state = "voided"] \in Invite
    BY DEF Invite
  <2>2. \A i \in LiveOf(job.who) : i \in 1..MaxInvites /\ invite[i] \in Invite
    BY <1>1 DEF LiveOf, Issued
  <2>3. /\ UNCHANGED minted
        /\ invite' = [i \in 1..MaxInvites |->
             IF i \in LiveOf(job.who) THEN [invite[i] EXCEPT !.state = "voided"]
             ELSE invite[i]]
    BY <1>1, <1>2 DEF Void, VoidInvites
  <2> QED
    BY <1>1, <2>1, <2>2, <2>3
<1>3. CASE Issue(t)
  <2> DEFINE k == minted.invites + 1
             row == [who |-> job.who, course |-> job.to, state |-> "live", old |-> FALSE,
                     uses |-> 0, over |-> job.over]
  <2>1. job \in Job /\ job.who \in Students
    BY <1>3, Here, HereStudent DEF Issue, AtStudent
  <2>2. row \in Invite
    <3>1. job.to \in Courses \cup {None} /\ job.over \in SUBSET (1..MaxInvites)
      BY <2>1, JobFields
    <3> QED
      BY <2>1, <3>1 DEF Invite
  <2>3. /\ minted.invites < MaxInvites /\ minted' = [minted EXCEPT !.invites = k]
        /\ invite' = [invite EXCEPT ![k] = row]
    BY <1>1, <1>3 DEF Issue, PutInvite
  <2> HIDE DEF row
  <2> QED
    BY <1>1, <2>2, <2>3
<1>4. CASE Redeem(t)
  <2> DEFINE i == job.ref
             row == [invite[i] EXCEPT !.state = "redeemed", !.uses = @ + 1]
  <2>1. UNCHANGED minted /\ (invite' = invite \/ (Redeemable(i) /\ RedeemInvite(i)))
    BY <1>4 DEF Redeem
  <2>2. CASE Redeemable(i) /\ RedeemInvite(i)
    <3>1. i \in 1..MaxInvites /\ invite[i] \in Invite
      BY <1>1, <2>2 DEF Redeemable, Issued
    <3>2. row \in Invite
      <4>1. \A old \in Invite :
              [old EXCEPT !.state = "redeemed", !.uses = old.uses + 1] \in Invite
        <5> TAKE old \in Invite
        <5> DEFINE next == [old EXCEPT !.state = "redeemed", !.uses = old.uses + 1]
        <5>1. old.uses \in Nat
          BY DEF Invite
        <5>2. old.uses + 1 \in Nat
          BY <5>1
        <5> DEFINE n == old.uses + 1
        <5> HIDE DEF n
        <5>3. [old EXCEPT !.state = "redeemed", !.uses = n] \in Invite
          BY <5>2 DEF Invite, n
        <5> QED
          BY <5>3 DEF n
      <4> QED
        BY <3>1, <4>1
    <3>3. invite' = [invite EXCEPT ![i] = row]
      BY <1>1, <2>2, <3>1 DEF RedeemInvite
    <3> HIDE DEF row
    <3> QED
      BY <1>1, <2>1, <3>1, <3>2, <3>3
  <2> QED
    BY <1>1, <2>1, <2>2
<1>5. CASE Wipe(t)
  BY <1>1, <1>5 DEF Wipe, DropStudent
<1>6. CASE minted'.invites # minted.invites
  <2>1. ~PutCourseLink(t)
    BY <1>1, <1>6 DEF PutCourseLink, PutLink
  <2> QED
    BY <1>3, <1>6, <2>1, Writers
<1>7. minted' = minted \/ Issue(t) \/ PutCourseLink(t)
  BY Writers
<1> QED
  BY <1>1, <1>2, <1>3, <1>4, <1>5, <1>6, Writers

LEMMA LinkTyped ==
  ASSUME TypeInv, NEW t \in Threads, Act(t)
  PROVE  /\ link' \in [1..MaxLinks -> Link \cup {None}]
         /\ minted'.links \in 0..MaxLinks
         /\ minted'.exams = minted.exams /\ minted'.courses = minted.courses
         /\ minted' \in [invites : 0..MaxInvites, links : 0..MaxLinks,
                         exams : SUBSET Exams, courses : SUBSET Courses]
<1> DEFINE job == th[t]
<1>1. /\ link \in [1..MaxLinks -> Link \cup {None}] /\ MaxLinks \in Nat /\ MaxInvites \in Nat
      /\ minted \in [invites : 0..MaxInvites, links : 0..MaxLinks,
                     exams : SUBSET Exams, courses : SUBSET Courses]
  BY IssueAssumption DEF TypeInv, TypeOK, AccountsOK
<1>2. /\ minted'.links \in 0..MaxLinks
      /\ minted'.exams = minted.exams /\ minted'.courses = minted.courses
      /\ minted' \in [invites : 0..MaxInvites, links : 0..MaxLinks,
                      exams : SUBSET Exams, courses : SUBSET Courses]
  <2>1. CASE Issue(t)
    BY <1>1, <2>1 DEF Issue, PutInvite
  <2>2. CASE PutCourseLink(t)
    BY <1>1, <2>2 DEF PutCourseLink, PutLink
  <2> QED
    BY <1>1, <2>1, <2>2, Writers
<1>3. CASE VoidCourseLinks(t)
  <2>1. \A l \in 1..MaxLinks : link[l] \in Link => [link[l] EXCEPT !.on = FALSE] \in Link
    BY DEF Link
  <2>2. \A l \in ActiveLinks(job.to) : l \in 1..MaxLinks /\ link[l] \in Link
    BY <1>1 DEF ActiveLinks
  <2>3. link' = [l \in 1..MaxLinks |->
          IF l \in ActiveLinks(job.to) THEN [link[l] EXCEPT !.on = FALSE] ELSE link[l]]
    BY <1>1, <1>3 DEF VoidCourseLinks, VoidLinks
  <2> QED
    BY <1>1, <1>2, <2>1, <2>2, <2>3
<1>4. CASE PutCourseLink(t)
  <2> DEFINE k == minted.links + 1
             row == [course |-> job.to, on |-> TRUE, broken |-> FALSE]
  <2>1. job.to \in Courses
    BY <1>4, Here DEF PutCourseLink, Fits, Routed, Asked, OfCourse, Linking
  <2>2. row \in Link
    BY <2>1 DEF Link
  <2>3. minted.links < MaxLinks /\ link' = [link EXCEPT ![k] = row]
    BY <1>1, <1>4 DEF PutCourseLink, PutLink
  <2> HIDE DEF row
  <2> QED
    BY <1>1, <1>2, <2>2, <2>3
<1>5. CASE DeleteCourse(t)
  BY <1>1, <1>5 DEF DeleteCourse, DropCourse
<1> QED
  BY <1>1, <1>2, <1>3, <1>4, <1>5, Writers

LEMMA CourseTyped ==
  ASSUME TypeInv, NEW t \in Threads, Act(t)
  PROVE  course' \subseteq Courses /\ roster' \in [Courses -> SUBSET Students]
<1> DEFINE job == th[t]
<1>1. course \subseteq Courses /\ roster \in [Courses -> SUBSET Students]
  BY DEF TypeInv, TypeOK, AccountsOK
<1>2. CASE PutCourse(t)
  <2>1. job.req.course \in Courses
    BY <1>2, Here DEF PutCourse, Fits, Routed, Asked, OfCourse
  <2> QED
    BY <1>1, <1>2, <2>1 DEF PutCourse
<1>3. CASE DeleteCourse(t)
  BY <1>1, <1>3 DEF DeleteCourse, DropCourse
<1>4. CASE Enrol(t)
  <2>1. job.who \in Students
    BY <1>4, HereStudent DEF Enrol, AtStudent
  <2> QED
    BY <1>1, <1>4, <2>1 DEF Enrol, PutEnrollment
<1>5. CASE Unenrol(t)
  BY <1>1, <1>5 DEF Unenrol, DeleteEnrollment
<1>6. CASE Wipe(t)
  BY <1>1, <1>6 DEF Wipe, DropStudent
<1>7. course' \subseteq Courses
  BY <1>1, <1>2, <1>3, Writers
<1>8. roster' \in [Courses -> SUBSET Students]
  BY <1>1, <1>3, <1>4, <1>5, <1>6, Writers
<1> QED
  BY <1>7, <1>8

LEMMA ExamTyped ==
  ASSUME TypeInv, NEW t \in Threads, Act(t)
  PROVE  exam' \in [Exams -> Exam \cup {None}] /\ want' \in [Exams -> Exam \cup {None}]
<1> DEFINE job == th[t]
           e == job.req.exam
<1>1. exam \in [Exams -> Exam \cup {None}] /\ want \in [Exams -> Exam \cup {None}]
  BY DEF TypeInv, TypeOK, DeskOK
<1>2. CASE PutExam(t)
  <2> DEFINE last == IF want[e] = None THEN Blank ELSE want[e]
             row == job.doc
             wanted == Edited(job, last)
  <2>1. /\ job \in Job /\ row \in Exam /\ e \in Exams /\ Asked(job.req)
        /\ job.req.op \in {"create", "patch", "release"}
    <3>1. job \in Job /\ Asked(job.req) /\ Fits(job, "putexam")
      BY <1>2, Here DEF PutExam
    <3>2. job.req.op \in {"create", "patch", "release"} /\ row \in Exam
      BY <3>1 DEF Fits, Routed
    <3> QED
      BY <3>1, <3>2 DEF Asked, OfExam
  <2>2. last \in Exam
    BY <1>1, <2>1, BlankRow
  <2>3. wanted \in Exam
    BY <2>1, <2>2, EditedRow
  <2>4. exam' = [exam EXCEPT ![e] = row] /\ want' = [want EXCEPT ![e] = wanted]
    BY <1>1, <1>2, <2>1 DEF PutExam, PutRow
  <2> HIDE DEF row, wanted
  <2> QED
    BY <1>1, <2>1, <2>3, <2>4 DEF row
<1>3. CASE DeleteExam(t)
  BY <1>1, <1>3 DEF DeleteExam, DropExam
<1> QED
  BY <1>1, <1>2, <1>3, Writers

LEMMA ParkTyped ==
  ASSUME TypeInv, NEW t \in Threads, Act(t)
  PROVE  park' \in [Exams -> [Students -> Park \cup {None}]]
<1> DEFINE job == th[t]
           e == job.req.exam
           s == job.who
<1>1. park \in [Exams -> [Students -> Park \cup {None}]]
  BY DEF TypeInv, TypeOK, DeskOK
<1>2. CASE WritePark(t)
  <2>1. /\ job.doc \in Park /\ e \in Exams /\ s \in Students
    BY <1>2, Here DEF WritePark, Fits, Routed, Asked, OfExam, OfStudent
  <2>2. park' = [park EXCEPT ![e] = [park[e] EXCEPT ![s] = job.doc]]
    BY <1>1, <1>2, <2>1 DEF WritePark
  <2>3. [park[e] EXCEPT ![s] = job.doc] \in [Students -> Park \cup {None}]
    BY <1>1, <2>1
  <2> QED
    BY <1>1, <2>1, <2>2, <2>3
<1>3. CASE DeleteExam(t)
  BY <1>1, <1>3 DEF DeleteExam, DropExam
<1>4. CASE Wipe(t)
  <2>1. park' = [x \in Exams |-> [park[x] EXCEPT ![s] = None]]
    BY <1>4 DEF Wipe, DropStudent
  <2>2. \A x \in Exams : [park[x] EXCEPT ![s] = None] \in [Students -> Park \cup {None}]
    BY <1>1
  <2> QED
    BY <2>1, <2>2
<1> QED
  BY <1>1, <1>2, <1>3, <1>4, Writers

\* A row is written later than those that are there.
LEMMA LaterNumber ==
  ASSUME TypeInv
  PROVE  Later \in Nat /\ \A p \in DOMAIN path : path[p] # None => path[p].at < Later
<1> DEFINE Rows == {p \in DOMAIN path : path[p] # None}
           Times == {0} \cup {path[p].at : p \in Rows}
           f == [p \in Rows |-> path[p].at]
<1>1. /\ IsFiniteSet(Rows) /\ \A p \in Rows : path[p].at \in Nat
  <2>1. DOMAIN path = 1..Len(path) /\ Len(path) \in Nat
    BY PathwayRows
  <2>2. IsFiniteSet(DOMAIN path)
    BY <2>1, FS_Interval
  <2>3. \A p \in Rows : path[p].at \in Nat
    BY PathwayRows
  <2> QED
    BY <2>2, <2>3, FS_Subset
<1>2. \E n \in Times : \A m \in Times : m <= n
  <2>1. CASE Rows = {}
    <3>1. Times = {0}
      BY <2>1
    <3> QED
      BY <3>1
  <2>2. CASE Rows # {}
    <3>1. f \in [Rows -> Nat]
      BY <1>1
    <3>2. PICK x \in Rows : \A y \in Rows : f[y] <= f[x]
      BY <1>1, <2>2, <3>1, SomeGreatest
    <3>3. \A y \in Rows : path[y].at <= path[x].at
      BY <3>2
    <3>4. path[x].at \in Times /\ 0 <= path[x].at
      BY <1>1
    <3> QED
      BY <3>3, <3>4
  <2> QED
    BY <2>1, <2>2
<1>3. Times \subseteq Nat
  BY <1>1
<1>4. Later = 1 + Max(Times)
  BY DEF Later
<1> HIDE DEF Times
<1>5. Max(Times) \in Times /\ \A m \in Times : m <= Max(Times)
  BY <1>2, <1>3 DEF Max
<1>6. \A p \in Rows : path[p].at \in Times
  BY DEF Times
<1> DEFINE top == Max(Times)
<1>7. top \in Nat
  BY <1>3, <1>5
<1>8. \A p \in Rows : path[p].at \in Nat /\ path[p].at <= top
  BY <1>1, <1>5, <1>6
<1> HIDE DEF top
<1>9. Later = 1 + top
  BY <1>4 DEF top
<1>10. \A p \in Rows : path[p].at < Later
  BY <1>7, <1>8, <1>9
<1> QED
  BY <1>7, <1>9, <1>10

\* A pathway that is stepped keeps its type.
LEMMA SteppedRow ==
  ASSUME TypeInv, NEW row \in Pathway, NEW step \in 0..FormationSteps, NEW done \in BOOLEAN
  PROVE  /\ Stepped(row, step, done) \in Pathway
         /\ Stepped(row, step, done).who = row.who
         /\ Stepped(row, step, done).step = step
         /\ Stepped(row, step, done).open = ~done
         /\ Stepped(row, step, done).given = row.given + 1
         /\ Stepped(row, step, done).cleared = (row.cleared \/ done)
<1>1. Later \in Nat
  BY LaterNumber
<1>2. /\ row.given \in Nat /\ row.cleared \in BOOLEAN /\ row.who \in Students
  BY DEF Pathway
<1>3. (~done) \in BOOLEAN /\ (row.cleared \/ done) \in BOOLEAN /\ row.given + 1 \in Nat
  BY <1>2
<1> DEFINE l == Later
           g == row.given + 1
           o == ~done
           c == row.cleared \/ done
<1>4. Stepped(row, step, done) = [who |-> row.who, step |-> step, open |-> o, at |-> l,
                                  given |-> g, cleared |-> c]
  <2>1. Stepped(row, step, done) = [row EXCEPT !.step = step, !.open = o, !.at = l,
                                               !.given = @ + 1, !.cleared = @ \/ done]
    BY DEF Stepped
  <2> QED
    BY <2>1, Zenon DEF Pathway
<1> HIDE DEF l, g, o, c
<1> QED
  BY <1>1, <1>2, <1>3, <1>4 DEF Pathway, l, g, o, c

\* What happens to the rows of pathways: one is added, one is stepped, or a
\* student's are erased.
LEMMA PathWrites ==
  ASSUME TypeInv, NEW t \in Threads, Act(t)
  PROVE  \/ path' = path
         \/ /\ OpenPathway(t) /\ th[t].who \in Students
            /\ path' = Append(path, [who |-> th[t].who, step |-> 0, open |-> TRUE,
                                     at |-> Later, given |-> 0, cleared |-> FALSE])
         \/ \E p \in DOMAIN path :
              LET s == th[t].doc.step
                  step == IF s < FormationSteps THEN s + 1 ELSE FormationSteps
              IN /\ StepOn(t) /\ path[p] # None /\ th[t].doc.id = p
                 /\ s \in 0..FormationSteps
                 /\ path' = [path EXCEPT ![p] = Stepped(path[p], step, Completes(step))]
         \/ /\ Wipe(t)
            /\ path' = [p \in DOMAIN path |->
                          IF p \in PathwaysOf(th[t].who) THEN None ELSE path[p]]
<1>1. CASE OpenPathway(t)
  <2>1. th[t].who \in Students
    BY <1>1, Here DEF OpenPathway, Fits, Routed, OfStudent
  <2>2. path' = path \/ PutPathway(th[t].who)
    BY <1>1 DEF OpenPathway
  <2> QED
    BY <1>1, <2>1, <2>2 DEF PutPathway
<1>2. CASE StepOn(t)
  <2> DEFINE p == th[t].doc.id
             s == th[t].doc.step
             step == IF s < FormationSteps THEN s + 1 ELSE FormationSteps
             row == Stepped(path[p], step, Completes(step))
  <2>1. th[t].doc \in Reached
    BY <1>2, Here DEF StepOn, Fits
  <2>2. s \in 0..FormationSteps
    BY <2>1 DEF Reached
  <2>3. path' = path \/ (path[p] # None /\ path' = [path EXCEPT ![p] = row])
    BY <1>2 DEF StepOn
  <2>4. CASE p \notin DOMAIN path
    BY <2>3, <2>4, PathwayRows
  <2>5. CASE p \in DOMAIN path
    BY <1>2, <2>2, <2>3, <2>5
  <2> QED
    BY <2>4, <2>5
<1>3. CASE Wipe(t)
  BY <1>3 DEF Wipe, DropStudent
<1> QED
  BY <1>1, <1>2, <1>3, Writers

LEMMA PathTyped ==
  ASSUME TypeInv, NEW t \in Threads, Act(t)
  PROVE  path' \in Seq(Pathway \cup {None})
<1>1. path \in Seq(Pathway \cup {None}) /\ Len(path) \in Nat /\ DOMAIN path = 1..Len(path)
  BY PathwayRows
<1>2. FormationSteps \in Nat \ {0}
  BY StepsAssumption
<1>3. CASE OpenPathway(t) /\ th[t].who \in Students
      /\ path' = Append(path, [who |-> th[t].who, step |-> 0, open |-> TRUE,
                               at |-> Later, given |-> 0, cleared |-> FALSE])
  <2> DEFINE row == [who |-> th[t].who, step |-> 0, open |-> TRUE, at |-> Later,
                     given |-> 0, cleared |-> FALSE]
  <2>1. row \in Pathway
    BY <1>2, <1>3, LaterNumber DEF Pathway
  <2> HIDE DEF row
  <2> QED
    BY <1>1, <1>3, <2>1, AppendProperties DEF row
<1>4. CASE \E p \in DOMAIN path :
             LET s == th[t].doc.step
                 step == IF s < FormationSteps THEN s + 1 ELSE FormationSteps
             IN /\ StepOn(t) /\ path[p] # None /\ th[t].doc.id = p
                /\ s \in 0..FormationSteps
                /\ path' = [path EXCEPT ![p] = Stepped(path[p], step, Completes(step))]
  <2> DEFINE s == th[t].doc.step
             step == IF s < FormationSteps THEN s + 1 ELSE FormationSteps
             done == Completes(step)
  <2>1. PICK p \in DOMAIN path :
          /\ path[p] # None /\ s \in 0..FormationSteps
          /\ path' = [path EXCEPT ![p] = Stepped(path[p], step, done)]
    BY <1>4
  <2>2. path[p] \in Pathway /\ step \in 0..FormationSteps /\ done \in BOOLEAN
    BY <1>2, <2>1, PathwayRows DEF Completes
  <2> DEFINE row == Stepped(path[p], step, done)
  <2>3. row \in Pathway
    BY <2>2, SteppedRow
  <2>4. path' = [path EXCEPT ![p] = row] /\ p \in 1..Len(path)
    BY <1>1, <2>1
  <2> HIDE DEF row
  <2> QED
    BY <1>1, <2>3, <2>4, ExceptSeq
<1>5. CASE path' = [p \in DOMAIN path |->
                      IF p \in PathwaysOf(th[t].who) THEN None ELSE path[p]]
  <2>1. \A p \in DOMAIN path : path[p] \in Pathway \cup {None}
    BY PathwayRows
  <2>2. path' \in [1..Len(path) -> Pathway \cup {None}]
    BY <1>1, <1>5, <2>1
  <2> QED
    BY <1>1, <2>2, SeqDef
<1> QED
  BY <1>1, <1>3, <1>4, <1>5, PathWrites

LEMMA WallTyped ==
  ASSUME TypeInv, NEW t \in Threads, Act(t)
  PROVE  /\ session' \in Session \cup {None} /\ tiles' \subseteq Numbers
         /\ handed' \subseteq Numbers
         /\ session' # None => session'.token \in handed'
<1>1. /\ session \in Session \cup {None} /\ tiles \subseteq Numbers
      /\ handed \subseteq Numbers
      /\ session # None => session.token \in handed
  BY DEF TypeInv, TypeOK, WallOK, TokenKnown
<1>2. CASE Purge(t) \/ CloseWall(t) \/ ReadToken(t) \/ OwnedWall(t)
  <2>1. /\ session' = session \/ session' = None
        /\ tiles' \subseteq tiles /\ handed' = handed
    BY <1>2 DEF Purge, CloseWall, ReadToken, OwnedWall, wall, Drop
  <2> QED
    BY <1>1, <2>1
<1>3. CASE ReadWall(t)
  BY <1>1, <1>3 DEF ReadWall, SameToken, Live
<1>4. CASE OpenWall(t)
  <2> DEFINE n == th[t].n
  <2>1. n \in Numbers /\ n \in Nat
    BY <1>4, Here, JobFields DEF OpenWall
  <2>2. /\ session' = [token |-> n, age |-> "live"]
        /\ tiles' \subseteq tiles /\ handed' = handed \cup {n}
    BY <1>4 DEF OpenWall, Superseded
  <2>3. session' \in Session /\ session'.token = n
    BY <2>1, <2>2 DEF Session, Ages
  <2> QED
    BY <1>1, <2>1, <2>2, <2>3
<1>5. CASE Beat(t)
  <2>1. th[t].ref \in Numbers
    BY <1>5, Here DEF Beat, Fits, Routed
  <2> QED
    BY <1>1, <1>5, <2>1 DEF Beat
<1> QED
  BY <1>1, <1>2, <1>3, <1>4, <1>5, Writers DEF TileStep

-----------------------------------------------------------------------------
(* Types.                                                                   *)

LEMMA KeptSound ==
  ASSUME NEW job, NEW next \in Job \cup {Idle}, Sound(job), Kept(job, next)
  PROVE  /\ Sound(next)
         /\ next # Idle =>
              /\ job # Idle /\ next.pc = job.pc /\ next.req = job.req /\ next.n = job.n
              /\ next.who = job.who /\ next.todo = job.todo /\ next.to = job.to
              /\ next.ref = job.ref /\ next.new = job.new /\ next.counted = job.counted
              /\ next.invited = job.invited /\ next.made = job.made
              /\ next.over = job.over /\ next.doc = job.doc /\ next.at = job.at
              /\ next.fresh => next = job
         /\ next = Idle => job = Idle
<1>1. CASE next = job
  BY <1>1, JobFields
<1>2. CASE job # Idle /\ next = [job EXCEPT !.fresh = FALSE]
  <2>1. job \in Job /\ Asked(job.req) /\ Framed(job)
    BY <1>2 DEF Sound
  <2>2. /\ next \in Job /\ next.pc = job.pc /\ next.req = job.req /\ next.n = job.n
        /\ next.who = job.who /\ next.todo = job.todo /\ next.to = job.to
        /\ next.ref = job.ref /\ next.new = job.new /\ next.counted = job.counted
        /\ next.invited = job.invited /\ next.made = job.made
        /\ next.over = job.over /\ next.doc = job.doc /\ next.at = job.at
        /\ next.fresh = FALSE
    BY <1>2, <2>1 DEF Job
  <2>3. Sound(next)
    BY <2>1, <2>2 DEF Sound, Framed, Fits
  <2> QED
    BY <1>2, <2>2, <2>3, JobFields
<1> QED
  BY <1>1, <1>2 DEF Kept

LEMMA TypeAct ==
  ASSUME TypeInv, NEW t \in Threads, Act(t)
  PROVE  TypeInv'
<1>1. AccountsOK'
  BY UserTyped, InviteTyped, LinkTyped, CourseTyped DEF AccountsOK
<1>2. DeskOK'
  BY PathTyped, ExamTyped, ParkTyped DEF DeskOK
<1>3. WallOK' /\ TokenKnown'
  BY WallTyped DEF WallOK, TokenKnown
<1>4. Turn(t)
  BY ActMoves, MovesTurn
<1>5. FramesOK'
  <2>1. \A s \in Threads \ {t} : th'[s] \in Job \cup {Idle} /\ Sound(th[s])
    BY <1>4 DEF Turn, TypeInv, FramesOK
  <2>2. \A s \in Threads \ {t} : Sound(th'[s])
    BY <1>4, <2>1, KeptSound DEF Turn
  <2> QED
    BY <1>4, <2>2 DEF Turn, FramesOK
<1>6. th' \in [Threads -> Job \cup {Idle}]
  BY <1>4 DEF Turn
<1>7. lost' \subseteq Excuses /\ scenario' \in Scenarios /\ begun' \in 0..MaxCalls
  BY LostGrows, Writers DEF TypeInv, TypeOK
<1>8. minted' \in [invites : 0..MaxInvites, links : 0..MaxLinks,
                   exams : SUBSET Exams, courses : SUBSET Courses]
  BY LinkTyped
<1> QED
  BY <1>1, <1>2, <1>3, <1>5, <1>6, <1>7, <1>8 DEF TypeInv, TypeOK

\* What a beginning request writes.
LEMMA BeginWrites ==
  ASSUME TypeInv, NEW t \in Threads, Begin(t)
  PROVE  /\ UNCHANGED <<user, invite, link, course, roster, exam, park, want, path, session,
                        tiles, handed, lost, scenario>>
         /\ begun \in Nat /\ begun' = begun + 1 /\ begun' \in 0..MaxCalls
         /\ minted'.invites = minted.invites /\ minted'.links = minted.links
         /\ minted' \in [invites : 0..MaxInvites, links : 0..MaxLinks,
                         exams : SUBSET Exams, courses : SUBSET Courses]
<1>1. /\ minted \in [invites : 0..MaxInvites, links : 0..MaxLinks,
                     exams : SUBSET Exams, courses : SUBSET Courses]
      /\ scenario \in Scenario /\ begun \in 0..MaxCalls
  BY ScenarioAssumption DEF TypeInv, TypeOK
<1>2. begun < scenario.most /\ begun' = begun + 1
  BY DEF Begin
<1>3. scenario.most \in 0..MaxCalls
  BY <1>1 DEF Scenario
<1>4. PICK r \in scenario.calls :
        minted' = [minted EXCEPT
          !.exams = IF r.op = "create" THEN @ \cup {r.exam} ELSE @,
          !.courses = IF r.op = "newcourse" THEN @ \cup {r.course} ELSE @]
  BY DEF Begin
<1>5. /\ r.op = "create" => r.exam \in Exams
      /\ r.op = "newcourse" => r.course \in Courses
  <2>1. r \in Call
    BY <1>1 DEF Scenario
  <2>2. r.op = "create" => r.exam # None
    BY <1>1, ScenarioAssumption DEF TypeInv, TypeOK, OfExam
  <2>3. r.op = "newcourse" => r.course # None
    BY <1>1, ScenarioAssumption DEF TypeInv, TypeOK, OfCourse
  <2> QED
    BY <2>1, <2>2, <2>3, CallFields
<1>6. /\ minted'.invites = minted.invites /\ minted'.links = minted.links
      /\ minted' \in [invites : 0..MaxInvites, links : 0..MaxLinks,
                      exams : SUBSET Exams, courses : SUBSET Courses]
  BY <1>1, <1>4, <1>5
<1>7. begun' \in 0..MaxCalls /\ begun \in Nat
  BY <1>1, <1>2, <1>3, BoundAssumption
<1> QED
  BY <1>2, <1>6, <1>7 DEF Begin, desk, wall

LEMMA TypeBegin ==
  ASSUME TypeInv, NEW t \in Threads, Begin(t)
  PROVE  TypeInv'
<1>1. AccountsOK' /\ DeskOK' /\ WallOK' /\ TokenKnown'
  BY BeginWrites DEF TypeInv, TypeOK, AccountsOK, DeskOK, WallOK, TokenKnown
<1>2. FramesOK'
  BY BeginSound DEF TypeInv, FramesOK
<1>3. /\ th' \in [Threads -> Job \cup {Idle}]
      /\ lost' \subseteq Excuses /\ scenario' \in Scenarios /\ begun' \in 0..MaxCalls
      /\ minted' \in [invites : 0..MaxInvites, links : 0..MaxLinks,
                      exams : SUBSET Exams, courses : SUBSET Courses]
  BY BeginSound, BeginWrites DEF TypeInv, TypeOK
<1> QED
  BY <1>1, <1>2, <1>3 DEF TypeInv, TypeOK

\* What passes without a request: an invite or a session grows old, and the
\* secret is changed.
LEMMA ExpireWrites ==
  ASSUME TypeInv, NEW i \in Issued, Expire(i)
  PROVE  /\ UNCHANGED <<user, link, minted, exam, park, want, path, course, roster, th, lost>>
         /\ i \in 1..MaxInvites /\ invite[i] \in Invite
         /\ \E row \in Invite :
              /\ invite' = [invite EXCEPT ![i] = row]
              /\ row.who = invite[i].who /\ row.course = invite[i].course
              /\ row.state = invite[i].state /\ row.uses = invite[i].uses
              /\ row.over = invite[i].over
<1>1. /\ invite \in [1..MaxInvites -> Invite \cup {None}] /\ MaxInvites \in Nat
      /\ minted.invites \in 0..MaxInvites
  BY IssueAssumption DEF TypeInv, TypeOK, AccountsOK
<1>2. i \in 1..MaxInvites /\ invite[i] \in Invite
  BY <1>1 DEF Issued
<1> DEFINE row == [invite[i] EXCEPT !.old = TRUE]
<1>3. /\ row \in Invite /\ row.who = invite[i].who /\ row.course = invite[i].course
      /\ row.state = invite[i].state /\ row.uses = invite[i].uses
      /\ row.over = invite[i].over
  BY <1>2 DEF Invite
<1>4. invite' = [invite EXCEPT ![i] = row]
  BY <1>1, <1>2 DEF Expire
<1> HIDE DEF row
<1>5. UNCHANGED <<user, link, minted, exam, park, want, path, course, roster, th, lost>>
  BY DEF Expire, desk
<1> QED
  BY <1>2, <1>3, <1>4, <1>5

LEMMA TypePasses ==
  ASSUME TypeInv,
         \/ (\E i \in Issued : Expire(i)) /\ UNCHANGED <<wall, scenario, begun>>
         \/ Rotate /\ UNCHANGED <<wall, scenario, begun>>
         \/ Grow /\ UNCHANGED <<tables, scenario, begun>>
         \/ UNCHANGED vars
  PROVE  TypeInv'
<1>1. CASE (\E i \in Issued : Expire(i)) /\ UNCHANGED <<wall, scenario, begun>>
  <2>1. PICK i \in Issued : Expire(i)
    BY <1>1
  <2>2. invite' \in [1..MaxInvites -> Invite \cup {None}]
    BY <2>1, ExpireWrites DEF TypeInv, TypeOK, AccountsOK
  <2>3. UNCHANGED <<user, link, minted, exam, park, want, path, course, roster, th, lost,
                    session, tiles, handed, scenario, begun>>
    BY <1>1, <2>1, ExpireWrites DEF wall
  <2> QED
    BY <2>2, <2>3 DEF TypeInv, TypeOK, AccountsOK, DeskOK, WallOK, FramesOK, TokenKnown
<1>2. CASE Rotate /\ UNCHANGED <<wall, scenario, begun>>
  <2>1. link \in [1..MaxLinks -> Link \cup {None}]
    BY DEF TypeInv, TypeOK, AccountsOK
  <2>2. \A row \in Link : [row EXCEPT !.broken = TRUE] \in Link
    BY DEF Link
  <2>3. link' = [l \in 1..MaxLinks |->
                   IF link[l] = None THEN None ELSE [link[l] EXCEPT !.broken = TRUE]]
    BY <1>2, <2>1 DEF Rotate
  <2>4. link' \in [1..MaxLinks -> Link \cup {None}]
    BY <2>1, <2>2, <2>3
  <2>5. UNCHANGED <<user, invite, minted, exam, park, want, path, course, roster, th, lost,
                    session, tiles, handed, scenario, begun>>
    BY <1>2 DEF Rotate, desk, wall
  <2> QED
    BY <2>4, <2>5 DEF TypeInv, TypeOK, AccountsOK, DeskOK, WallOK, FramesOK, TokenKnown
<1>3. CASE Grow /\ UNCHANGED <<tables, scenario, begun>>
  <2>1. /\ session \in Session /\ session # None /\ session.token \in handed
    BY <1>3 DEF Grow, TypeInv, TypeOK, WallOK, TokenKnown
  <2>2. session' \in Session /\ session'.token = session.token
    BY <1>3, <2>1 DEF Grow, Session, Ages
  <2>3. UNCHANGED <<user, invite, link, minted, exam, park, want, path, course, roster, th,
                    lost, tiles, handed, scenario, begun>>
    BY <1>3 DEF Grow, tables, people, desk
  <2> QED
    BY <2>1, <2>2, <2>3 DEF TypeInv, TypeOK, AccountsOK, DeskOK, WallOK, FramesOK, TokenKnown
<1>4. CASE UNCHANGED vars
  <2>1. UNCHANGED <<user, invite, link, minted, exam, park, want, path, course, roster, th,
                    lost, session, tiles, handed, scenario, begun>>
    BY <1>4 DEF vars, tables, people, desk, wall
  <2> QED
    BY <2>1 DEF TypeInv, TypeOK, AccountsOK, DeskOK, WallOK, FramesOK, TokenKnown
<1> QED
  BY <1>1, <1>2, <1>3, <1>4

LEMMA TypeNext ==
  ASSUME TypeInv, [Next]_vars
  PROVE  TypeInv'
BY Steps, TypeAct, TypeBegin, TypePasses

\* At first everybody is on no course or on the first, and one student at
\* most waits with an invite.
LEMMA TypeInit ==
  ASSUME Init
  PROVE  TypeInv
<1>1. PICK sc \in Scenarios :
        /\ scenario = sc
        /\ user = [s \in Students |-> CASE sc.stage[s] = "new" -> None
                                        [] sc.stage[s] = "active" -> [pwd |-> 1, by |-> 1]
                                        [] OTHER -> Placeholder(1)]
        /\ course = sc.courses
        /\ roster = [c \in Courses |-> IF c = sc.first
                       THEN In(sc, {"invited", "active"}) ELSE {}]
        /\ InitInvites(sc) /\ InitDesk(sc)
  BY DEF Init
<1>2. /\ path = <<>> /\ TilesInit /\ link = [l \in 1..MaxLinks |-> None]
      /\ th = [t \in Threads |-> Idle] /\ lost = {} /\ begun = 0
  BY DEF Init
<1>3. /\ sc \in Scenario /\ \A s \in Foreign : sc.stage[s] = "new"
      /\ Cardinality(In(sc, {"invited"})) <= MaxInvites
  BY ScenarioAssumption
<1> DEFINE invited == In(sc, {"invited"})
           row == [who |-> CHOOSE s \in invited : TRUE, course |-> sc.first,
                   state |-> "live", old |-> FALSE, uses |-> 0, over |-> {}]
<1>4. /\ sc.courses \subseteq Courses /\ sc.first \in Courses
      /\ sc.stage \in [Students -> Stages] /\ sc.exams \in [Exams -> {None, "open"}]
  BY <1>3 DEF Scenario
<1>5. invited \subseteq Students /\ IsFiniteSet(invited) /\ Cardinality(invited) \in Nat
  BY FiniteAssumption, FS_Subset, FS_CardinalityType DEF In
<1>6. AccountsOK
  <2>1. \A n \in {1} : Placeholder(n) \in Account /\ [pwd |-> n, by |-> n] \in Account
    BY DEF Placeholder, Account
  <2>2. user \in [Students -> Account \cup {None}] /\ \A s \in Foreign : user[s] = None
    <3>1. \A s \in Students : user[s] \in Account \cup {None}
      BY <1>1, <2>1
    <3>2. \A s \in Foreign : s \in Students /\ sc.stage[s] = "new"
      BY <1>3, ForeignAssumption
    <3> QED
      BY <1>1, <3>1, <3>2
  <2>3. invited # {} => row \in Invite
    BY <1>4, <1>5 DEF Invite
  <2>4. invite \in [1..MaxInvites -> Invite \cup {None}]
    <3>1. invite = [i \in 1..MaxInvites |-> IF i = 1 /\ invited # {} THEN row ELSE None]
      BY <1>1 DEF InitInvites
    <3> HIDE DEF row
    <3> QED
      BY <2>3, <3>1
  <2>5. roster \in [Courses -> SUBSET Students]
    BY <1>1 DEF In
  <2> QED
    BY <1>1, <1>2, <1>4, <2>2, <2>4, <2>5 DEF AccountsOK
<1>7. DeskOK
  <2>1. [Blank EXCEPT !.course = sc.first, !.park = TRUE] \in Exam
    BY <1>4 DEF Blank, Exam
  <2>2. exam \in [Exams -> Exam \cup {None}] /\ want = exam
    BY <1>1, <2>1 DEF InitDesk
  <2>3. park \in [Exams -> [Students -> Park \cup {None}]]
    BY <1>1 DEF InitDesk
  <2>4. path \in Seq(Pathway \cup {None})
    BY <1>2
  <2> QED
    BY <2>2, <2>3, <2>4 DEF DeskOK
<1>8. WallOK /\ TokenKnown /\ FramesOK
  BY <1>2 DEF TilesInit, WallOK, TokenKnown, FramesOK, Sound
<1>9. minted \in [invites : 0..MaxInvites, links : 0..MaxLinks,
                  exams : SUBSET Exams, courses : SUBSET Courses]
  <2>1. Cardinality(invited) \in 0..MaxInvites /\ 0 \in 0..MaxLinks
    BY <1>3, <1>5, IssueAssumption
  <2>2. minted = [invites |-> Cardinality(invited), links |-> 0,
                  exams |-> {e \in Exams : sc.exams[e] # None}, courses |-> sc.courses]
    BY <1>1 DEF InitInvites
  <2> QED
    BY <1>4, <2>1, <2>2
<1> QED
  BY <1>1, <1>2, <1>6, <1>7, <1>8, <1>9, BoundAssumption DEF TypeInv, TypeOK

\* Every table holds rows, and every handler's copies are what its point
\* makes of them, in every history.
LEMMA TypesStay == Spec => []TypeInv
<1>1. Init => TypeInv
  BY TypeInit
<1>2. TypeInv /\ [Next]_vars => TypeInv'
  BY TypeNext
<1> QED
  BY <1>1, <1>2, PTL DEF Spec

\* TypeOK: whatever the threads' requests interleave to, the tables of the
\* store keep their types, no account takes a foreign email (put_user's
\* UNIQUE column), and every job is one that a handler can hold.
THEOREM WorkspaceTypeCorrect == Spec => []TypeOK
BY TypesStay, PTL DEF TypeInv

-----------------------------------------------------------------------------
(* Where a step leads: a request is at a point after the steps that name it. *)

\* Thread t has ended its request, or is at one of the points.
To(t, points) == th'[t] = Idle \/ th'[t].pc \in points

LEMMA SetTo ==
  ASSUME TypeInv, NEW t \in Threads, NEW job, Set(t, job)
  PROVE  th'[t] = job
BY DEF TypeInv, TypeOK, Set

LEMMA SetOverTo ==
  ASSUME NEW t \in Threads, NEW job, NEW readers, SetOver(t, job, readers)
  PROVE  th'[t] = job
BY DEF SetOver

LEMMA GoTo ==
  ASSUME TypeInv, NEW t \in Threads, Busy(t), NEW pc, Finish(t) \/ Go(t, pc)
  PROVE  To(t, {pc})
BY Working, SetTo DEF To, Go, Finish, Job

LEMMA AdvanceTo ==
  ASSUME NEW job \in Job, Asked(job.req), NEW next \in Advance(job)
  PROVE  \/ next = Idle
         \/ job.req.op = "add" /\ next.pc = "find"
         \/ job.req.op # "add" /\ next.pc = "void"
BY DEF Advance, FirstFor, Job

LEMMA PeopleLead ==
  ASSUME TypeInv, NEW t \in Threads
  PROVE  /\ OwnedCourse(t) => 
              To(t, {"new", "next", "unenrol", "member", "members", "active", "voidlinks"})
         /\ CountNew(t) => To(t, {"count"})
         /\ Count(t) => To(t, {"next", "find", "enrol"})
         /\ NextStudent(t) => To(t, {"find"})
         /\ Find(t) => To(t, {"insert", "enrol", "find"})
         /\ Insert(t) => To(t, {"enrol", "password"})
         /\ SetPassword(t) => To(t, {"new", "enrol"})
         /\ Enrol(t) => To(t, {"void", "find"})
         /\ Void(t) => To(t, {"issue"})
         /\ Issue(t) => To(t, {"find", "void"})
         /\ Unenrol(t) => To(t, {"void"})
         /\ Member(t) => To(t, {"holder"})
         /\ Holder(t) => To(t, {"void"})
         /\ Members(t) => To(t, {"holders"})
         /\ Holders(t) => To(t, {"void"})
         /\ Look(t) => To(t, {"redeem"})
         /\ Redeem(t) => To(t, {"owner"})
         /\ Owner(t) => To(t, {"password"})
         /\ ResetRequest(t) => To(t, {"void"})
         /\ Verify(t) => To(t, {"password"})
         /\ ReadActive(t) => To(t, {"putlink", "voidlinks"})
         /\ VoidCourseLinks(t) => To(t, {"putlink"})
         /\ PutCourseLink(t) => To(t, {})
         /\ FindLink(t) => To(t, {"target"})
         /\ Target(t) => To(t, {"account", "new", "enrol"})
         /\ ReadAccount(t) => To(t, {"new", "find"})
         /\ Me(t) => To(t, {"link"})
         /\ Launch(t) => To(t, {"enrol"})
         /\ EraseCheck(t) => To(t, {"wipe"})
         /\ Wipe(t) => To(t, {})
<1>1. ASSUME OwnedCourse(t)
      PROVE To(t, {"new", "next", "unenrol", "member", "members", "active", "voidlinks"})
  <2>1. Busy(t) /\ th[t] \in Job /\ Asked(th[t].req) /\ Framed(th[t])
    BY <1>1, AtIsBusy, Working DEF OwnedCourse
  <2>2. Finish(t) \/ Go(t, AfterCourse(th[t]))
    BY <1>1 DEF OwnedCourse
  <2>3. AfterCourse(th[t]) \in
          {"new", "next", "unenrol", "member", "members", "active", "voidlinks"}
    BY <1>1, SwitchAssumption DEF OwnedCourse, AfterCourse, Rostering, Linking
  <2> QED
    BY <2>1, <2>2, <2>3, GoTo DEF To
<1>2. ASSUME CountNew(t) PROVE To(t, {"count"})
  <2>1. Busy(t) /\ th[t] \in Job /\ Asked(th[t].req) /\ Framed(th[t])
    BY <1>2, AtIsBusy, Working DEF CountNew
  <2>2. th \in [Threads -> Job \cup {Idle}]
    BY <2>1, Working
  <2> QED
    BY <1>2, <2>1, <2>2 DEF To, CountNew, Set, Finish, Go, Job
<1>3. ASSUME Count(t) PROVE To(t, {"next", "find", "enrol"})
  <2>1. Busy(t) /\ th[t] \in Job /\ Asked(th[t].req) /\ Framed(th[t])
    BY <1>3, AtIsBusy, Working DEF Count
  <2>2. AfterCount(th[t]) \in {"next", "find", "enrol"}
    BY DEF AfterCount
  <2> DEFINE pc == AfterCount(th[t])
  <2>3. th'[t] = Idle \/ th'[t] = [th[t] EXCEPT !.pc = pc, !.counted = TRUE]
    BY <1>3, SetTo DEF Count, Finish
  <2> HIDE DEF pc
  <2>4. th'[t] # Idle => th'[t].pc = pc
    BY <2>1, <2>3 DEF Job
  <2> QED
    BY <2>2, <2>4 DEF To, pc
<1>4. ASSUME NextStudent(t) PROVE To(t, {"find"})
  <2>1. Busy(t) /\ th[t] \in Job /\ Asked(th[t].req) /\ Framed(th[t])
    BY <1>4, AtIsBusy, Working DEF NextStudent
  <2>2. th[t].req.op = "add"
    BY <1>4, <2>1 DEF NextStudent, At, Framed, Fits, Routed
  <2>3. \E next \in Advance(th[t]) : Set(t, next)
    BY <1>4 DEF NextStudent, ToNext
  <2> QED
    BY <2>1, <2>2, <2>3, AdvanceTo, SetTo DEF To
<1>5. ASSUME Find(t) PROVE To(t, {"insert", "enrol", "find"})
  <2>1. Busy(t) /\ th[t] \in Job /\ Asked(th[t].req) /\ Framed(th[t])
    BY <1>5, AtIsBusy, Working DEF Find
  <2>2. \/ Finish(t) \/ Go(t, "insert") \/ Set(t, Existing(th[t]))
        \/ th[t].req.op = "add" /\ \E next \in Advance(th[t]) : Set(t, next)
    BY <1>5 DEF Find, ToNext
  <2>3. Existing(th[t]) = Idle \/ Existing(th[t]).pc = "enrol"
    BY <2>1 DEF Existing, Job
  <2> QED
    BY <2>1, <2>2, <2>3, AdvanceTo, SetTo, GoTo DEF To
<1>6. ASSUME Insert(t) PROVE To(t, {"enrol", "password"})
  <2>1. Busy(t) /\ th[t] \in Job /\ Asked(th[t].req) /\ Framed(th[t])
    BY <1>6, AtIsBusy, Working DEF Insert
  <2>2. th \in [Threads -> Job \cup {Idle}]
    BY <2>1, Working
  <2> QED
    BY <1>6, <2>1, <2>2 DEF To, Insert, Set, Finish, Go, Job
<1>7. ASSUME SetPassword(t) PROVE To(t, {"new", "enrol"})
  <2>1. Busy(t) /\ th[t] \in Job /\ Asked(th[t].req) /\ Framed(th[t])
    BY <1>7, AtIsBusy, Working DEF SetPassword
  <2>2. AfterPassword(th[t]) = Idle \/ AfterPassword(th[t]).pc \in {"new", "enrol"}
    BY <2>1, SwitchAssumption DEF AfterPassword, Job
  <2> QED
    BY <1>7, <2>2, SetTo DEF To, SetPassword
<1>8. ASSUME Enrol(t) PROVE To(t, {"void", "find"})
  <2>1. Busy(t) /\ th[t] \in Job /\ Asked(th[t].req) /\ Framed(th[t])
    BY <1>8, AtIsBusy, Working DEF Enrol
  <2>2. Go(t, "void") \/ \E next \in Advance(th[t]) : Set(t, next)
    BY <1>8 DEF Enrol, ToNext
  <2> QED
    BY <2>1, <2>2, AdvanceTo, SetTo, GoTo DEF To
<1>9. ASSUME Void(t) PROVE To(t, {"issue"})
  <2>1. Busy(t) /\ th[t] \in Job /\ Asked(th[t].req) /\ Framed(th[t])
    BY <1>9, AtIsBusy, Working DEF Void
  <2>2. th \in [Threads -> Job \cup {Idle}]
    BY <2>1, Working
  <2> QED
    BY <1>9, <2>1, <2>2 DEF To, Void, Set, Finish, Go, Job
<1>10. ASSUME Issue(t) PROVE To(t, {"find", "void"})
  <2>1. Busy(t) /\ th[t] \in Job /\ Asked(th[t].req) /\ Framed(th[t])
    BY <1>10, AtIsBusy, Working DEF Issue
  <2> DEFINE job == [th[t] EXCEPT !.over = {}]
  <2>2. \E next \in Advance(job) : Set(t, next)
    BY <1>10 DEF Issue
  <2>3. job \in Job /\ job.req = th[t].req
    BY <2>1 DEF Job
  <2> HIDE DEF job
  <2> QED
    BY <2>1, <2>2, <2>3, AdvanceTo, SetTo DEF To
<1>11. ASSUME Unenrol(t) PROVE To(t, {"void"})
  <2>1. Busy(t) /\ th[t] \in Job /\ Asked(th[t].req) /\ Framed(th[t])
    BY <1>11, AtIsBusy, Working DEF Unenrol
  <2> QED
    BY <1>11, <2>1, SetTo DEF To, Unenrol, AfterUnenrol, Finish, Job
<1>12. ASSUME Member(t) PROVE To(t, {"holder"})
  <2>1. Busy(t) /\ th[t] \in Job /\ Asked(th[t].req) /\ Framed(th[t])
    BY <1>12, AtIsBusy, Working DEF Member
  <2>2. Finish(t) \/ Go(t, "holder")
    BY <1>12 DEF Member
  <2> QED
    BY <2>1, <2>2, GoTo DEF To
<1>13. ASSUME Holder(t) PROVE To(t, {"void"})
  <2>1. Busy(t) /\ th[t] \in Job /\ Asked(th[t].req) /\ Framed(th[t])
    BY <1>13, AtIsBusy, Working DEF Holder
  <2>2. Finish(t) \/ Go(t, "void")
    BY <1>13 DEF Holder
  <2> QED
    BY <2>1, <2>2, GoTo DEF To
<1>14. ASSUME Members(t) PROVE To(t, {"holders"})
  <2>1. Busy(t) /\ th[t] \in Job /\ Asked(th[t].req) /\ Framed(th[t])
    BY <1>14, AtIsBusy, Working DEF Members
  <2>2. th \in [Threads -> Job \cup {Idle}]
    BY <2>1, Working
  <2> QED
    BY <1>14, <2>1, <2>2 DEF To, Members, Set, Finish, Go, Job
<1>15. ASSUME Holders(t) PROVE To(t, {"void"})
  <2>1. Busy(t) /\ th[t] \in Job /\ Asked(th[t].req) /\ Framed(th[t])
    BY <1>15, AtIsBusy, Working DEF Holders
  <2> DEFINE job == [th[t] EXCEPT !.todo = {s \in th[t].todo :
                         user[s] # None /\ ~Activated(user[s])}]
  <2>2. \E next \in Advance(job) : Set(t, next)
    BY <1>15 DEF Holders
  <2>3. job \in Job /\ job.req = th[t].req
    BY <2>1 DEF Job
  <2> HIDE DEF job
  <2>4. th[t].req.op = "pending"
    BY <1>15, <2>1 DEF Holders, At, Framed, Fits, Routed
  <2> QED
    BY <2>1, <2>2, <2>3, <2>4, AdvanceTo, SetTo DEF To
<1>16. ASSUME Look(t) PROVE To(t, {"redeem"})
  <2>1. Busy(t) /\ th[t] \in Job /\ Asked(th[t].req) /\ Framed(th[t])
    BY <1>16, AtIsBusy, Working DEF Look
  <2>2. th \in [Threads -> Job \cup {Idle}]
    BY <2>1, Working
  <2> QED
    BY <1>16, <2>1, <2>2 DEF To, Look, Set, Finish, Go, Job
<1>17. ASSUME Redeem(t) PROVE To(t, {"owner"})
  <2>1. Busy(t) /\ th[t] \in Job /\ Asked(th[t].req) /\ Framed(th[t])
    BY <1>17, AtIsBusy, Working DEF Redeem
  <2>2. Finish(t) \/ Go(t, "owner")
    BY <1>17 DEF Redeem
  <2> QED
    BY <2>1, <2>2, GoTo DEF To
<1>18. ASSUME Owner(t) PROVE To(t, {"password"})
  <2>1. Busy(t) /\ th[t] \in Job /\ Asked(th[t].req) /\ Framed(th[t])
    BY <1>18, AtIsBusy, Working DEF Owner
  <2>2. Finish(t) \/ Go(t, "password")
    BY <1>18 DEF Owner
  <2> QED
    BY <2>1, <2>2, GoTo DEF To
<1>19. ASSUME ResetRequest(t) PROVE To(t, {"void"})
  <2>1. Busy(t) /\ th[t] \in Job /\ Asked(th[t].req) /\ Framed(th[t])
    BY <1>19, AtIsBusy, Working DEF ResetRequest
  <2>2. Finish(t) \/ Go(t, "void")
    BY <1>19 DEF ResetRequest
  <2> QED
    BY <2>1, <2>2, GoTo DEF To
<1>20. ASSUME Verify(t) PROVE To(t, {"password"})
  <2>1. Busy(t) /\ th[t] \in Job /\ Asked(th[t].req) /\ Framed(th[t])
    BY <1>20, AtIsBusy, Working DEF Verify
  <2>2. Finish(t) \/ Go(t, "password")
    BY <1>20 DEF Verify
  <2> QED
    BY <2>1, <2>2, GoTo DEF To
<1>21. ASSUME ReadActive(t) PROVE To(t, {"putlink", "voidlinks"})
  <2>1. Busy(t) /\ th[t] \in Job /\ Asked(th[t].req) /\ Framed(th[t])
    BY <1>21, AtIsBusy, Working DEF ReadActive
  <2>2. Finish(t) \/ Go(t, "putlink") \/ Go(t, "voidlinks")
    BY <1>21 DEF ReadActive, AfterActive
  <2> QED
    BY <2>1, <2>2, GoTo DEF To
<1>22. ASSUME VoidCourseLinks(t) PROVE To(t, {"putlink"})
  <2>1. Busy(t) /\ th[t] \in Job /\ Asked(th[t].req) /\ Framed(th[t])
    BY <1>22, AtIsBusy, Working DEF VoidCourseLinks
  <2>2. Finish(t) \/ Go(t, "putlink")
    BY <1>22 DEF VoidCourseLinks
  <2> QED
    BY <2>1, <2>2, GoTo DEF To
<1>23. ASSUME PutCourseLink(t) PROVE To(t, {})
  BY <1>23, SetTo DEF To, PutCourseLink, Finish
<1>24. ASSUME FindLink(t) PROVE To(t, {"target"})
  <2>1. Busy(t) /\ th[t] \in Job /\ Asked(th[t].req) /\ Framed(th[t])
    BY <1>24, AtIsBusy, Working DEF FindLink
  <2>2. th \in [Threads -> Job \cup {Idle}]
    BY <2>1, Working
  <2> QED
    BY <1>24, <2>1, <2>2 DEF To, FindLink, Set, Finish, Go, Job
<1>25. ASSUME Target(t) PROVE To(t, {"account", "new", "enrol"})
  <2>1. Busy(t) /\ th[t] \in Job /\ Asked(th[t].req) /\ Framed(th[t])
    BY <1>25, AtIsBusy, Working DEF Target
  <2>2. Finish(t) \/ Go(t, "account") \/ Go(t, "new") \/ Go(t, "enrol")
    BY <1>25 DEF Target
  <2> QED
    BY <2>1, <2>2, GoTo DEF To
<1>26. ASSUME ReadAccount(t) PROVE To(t, {"new", "find"})
  <2>1. Busy(t) /\ th[t] \in Job /\ Asked(th[t].req) /\ Framed(th[t])
    BY <1>26, AtIsBusy, Working DEF ReadAccount
  <2>2. Finish(t) \/ Go(t, "new") \/ Go(t, "find")
    BY <1>26 DEF ReadAccount
  <2> QED
    BY <2>1, <2>2, GoTo DEF To
<1>27. ASSUME Me(t) PROVE To(t, {"link"})
  <2>1. Busy(t) /\ th[t] \in Job /\ Asked(th[t].req) /\ Framed(th[t])
    BY <1>27, AtIsBusy, Working DEF Me
  <2>2. Finish(t) \/ Go(t, "link")
    BY <1>27 DEF Me
  <2> QED
    BY <2>1, <2>2, GoTo DEF To
<1>28. ASSUME Launch(t) PROVE To(t, {"enrol"})
  <2>1. Busy(t) /\ th[t] \in Job /\ Asked(th[t].req) /\ Framed(th[t])
    BY <1>28, AtIsBusy, Working DEF Launch
  <2>2. th \in [Threads -> Job \cup {Idle}]
    BY <2>1, Working
  <2> QED
    BY <1>28, <2>1, <2>2 DEF To, Launch, Set, Finish, Go, Job
<1>29. ASSUME EraseCheck(t) PROVE To(t, {"wipe"})
  <2>1. Busy(t) /\ th[t] \in Job /\ Asked(th[t].req) /\ Framed(th[t])
    BY <1>29, AtIsBusy, Working DEF EraseCheck
  <2>2. Finish(t) \/ Go(t, "wipe")
    BY <1>29 DEF EraseCheck
  <2> QED
    BY <2>1, <2>2, GoTo DEF To
<1>30. ASSUME Wipe(t) PROVE To(t, {})
  BY <1>30, SetTo DEF To, Wipe, Finish
<1> QED
  BY <1>1, <1>2, <1>3, <1>4, <1>5, <1>6, <1>7, <1>8, <1>9, <1>10, <1>11, <1>12, <1>13, <1>14,
     <1>15, <1>16, <1>17, <1>18, <1>19, <1>20, <1>21, <1>22, <1>23, <1>24, <1>25, <1>26,
     <1>27, <1>28, <1>29, <1>30

LEMMA DeskLeads ==
  ASSUME TypeInv, NEW t \in Threads
  PROVE  /\ CreateExam(t) => To(t, {"named", "exams", "putexam"})
         /\ NamedCourse(t) => To(t, {"exams", "putexam"})
         /\ CountExams(t) => To(t, {"putexam"})
         /\ ReadExam(t) => 
              To(t, {"named", "putexam", "dropexam", "since", "parked", "readpark"})
         /\ PutExam(t) => To(t, {})
         /\ DeleteExam(t) => To(t, {})
         /\ ReadCourse(t) => To(t, {"putcourse", "exams"})
         /\ PutCourse(t) => To(t, {})
         /\ CourseExams(t) => To(t, {"dropcourse"})
         /\ DeleteCourse(t) => To(t, {})
         /\ Since(t) => To(t, {"readpark"})
         /\ Parked(t) => To(t, {"readpark"})
         /\ ReadPark(t) => To(t, {"writepark"})
         /\ WritePark(t) => To(t, {})
<1>1. ASSUME CreateExam(t) PROVE To(t, {"named", "exams", "putexam"})
  <2>1. Busy(t) /\ th[t] \in Job /\ Asked(th[t].req) /\ Framed(th[t])
    BY <1>1, AtIsBusy, Working DEF CreateExam
  <2>2. BeforePut(th[t].req) \in {"named", "exams", "putexam"}
    BY DEF BeforePut
  <2> QED
    BY <1>1, <2>1, <2>2, SetTo DEF To, CreateExam, Job
<1>2. ASSUME NamedCourse(t) PROVE To(t, {"exams", "putexam"})
  <2>1. Busy(t) /\ th[t] \in Job /\ Asked(th[t].req) /\ Framed(th[t])
    BY <1>2, AtIsBusy, Working DEF NamedCourse
  <2>2. Finish(t) \/ Go(t, "exams") \/ Go(t, "putexam")
    BY <1>2 DEF NamedCourse
  <2> QED
    BY <2>1, <2>2, GoTo DEF To
<1>3. ASSUME CountExams(t) PROVE To(t, {"putexam"})
  <2>1. Busy(t) /\ th[t] \in Job /\ Asked(th[t].req) /\ Framed(th[t])
    BY <1>3, AtIsBusy, Working DEF CountExams
  <2>2. \/ th'[t] = Idle
        \/ th'[t] = [th[t] EXCEPT !.pc = "putexam", !.counted = TRUE]
        \/ th'[t] = [th[t] EXCEPT !.pc = "putexam"]
    BY <1>3, SetTo DEF CountExams, Finish, Go
  <2> QED
    BY <2>1, <2>2 DEF To, Job
<1>4. ASSUME ReadExam(t)
      PROVE To(t, {"named", "putexam", "dropexam", "since", "parked", "readpark"})
  <2>1. Busy(t) /\ th[t] \in Job /\ Asked(th[t].req) /\ Framed(th[t])
    BY <1>4, AtIsBusy, Working DEF ReadExam
  <2>2. AfterExam(th[t].req) \in {"named", "putexam", "dropexam", "since", "parked", "readpark"}
    BY <1>4, <2>1 DEF ReadExam, At, Framed, Fits, Routed, AfterExam, BeforePut
  <2>3. th \in [Threads -> Job \cup {Idle}]
    BY <2>1, Working
  <2> QED
    <3> DEFINE pc == AfterExam(th[t].req)
               row == Edited(th[t], exam[th[t].req.exam])
    <3>1. \/ Finish(t) \/ Go(t, pc)
          \/ Set(t, [th[t] EXCEPT !.doc = row, !.fresh = TRUE, !.pc = pc])
      BY <1>4 DEF ReadExam
    <3> HIDE DEF pc, row
    <3>2. CASE Set(t, [th[t] EXCEPT !.doc = row, !.fresh = TRUE, !.pc = pc])
      BY <2>1, <2>2, <2>3, <3>2 DEF To, Set, Job, pc
    <3>3. CASE Finish(t) \/ Go(t, pc)
      BY <2>1, <2>2, <3>3, GoTo DEF To, pc
    <3> QED
      BY <3>1, <3>2, <3>3
<1>5. ASSUME PutExam(t) PROVE To(t, {})
  BY <1>5, SetOverTo DEF To, PutExam
<1>6. ASSUME DeleteExam(t) PROVE To(t, {})
  BY <1>6, SetOverTo DEF To, DeleteExam
<1>7. ASSUME ReadCourse(t) PROVE To(t, {"putcourse", "exams"})
  <2>1. Busy(t) /\ th[t] \in Job /\ Asked(th[t].req) /\ Framed(th[t])
    BY <1>7, AtIsBusy, Working DEF ReadCourse
  <2>2. th'[t] = Idle
        \/ \E pc \in {"putcourse", "exams"} :
             th'[t] = [th[t] EXCEPT !.fresh = TRUE, !.pc = pc]
    BY <1>7, SetTo DEF ReadCourse, Finish
  <2> QED
    BY <2>1, <2>2 DEF To, Job
<1>8. ASSUME PutCourse(t) PROVE To(t, {})
  BY <1>8, SetTo DEF To, PutCourse, Finish
<1>9. ASSUME CourseExams(t) PROVE To(t, {"dropcourse"})
  <2>1. Busy(t) /\ th[t] \in Job /\ Asked(th[t].req) /\ Framed(th[t])
    BY <1>9, AtIsBusy, Working DEF CourseExams
  <2>2. \/ th'[t] = Idle
        \/ th'[t] = [th[t] EXCEPT !.pc = "dropcourse", !.fresh = TRUE]
        \/ th'[t] = [th[t] EXCEPT !.pc = "dropcourse"]
    BY <1>9, SetTo DEF CourseExams, Finish, Go
  <2> QED
    BY <2>1, <2>2 DEF To, Job
<1>10. ASSUME DeleteCourse(t) PROVE To(t, {})
  BY <1>10, SetOverTo DEF To, DeleteCourse
<1>11. ASSUME Since(t) PROVE To(t, {"readpark"})
  <2>1. Busy(t) /\ th[t] \in Job /\ Asked(th[t].req) /\ Framed(th[t])
    BY <1>11, AtIsBusy, Working DEF Since
  <2>2. th \in [Threads -> Job \cup {Idle}]
    BY <2>1, Working
  <2> QED
    BY <1>11, <2>1, <2>2 DEF To, Since, Set, Finish, Go, Job
<1>12. ASSUME Parked(t) PROVE To(t, {"readpark"})
  <2>1. Busy(t) /\ th[t] \in Job /\ Asked(th[t].req) /\ Framed(th[t])
    BY <1>12, AtIsBusy, Working DEF Parked
  <2>2. Finish(t) \/ Go(t, "readpark")
    BY <1>12 DEF Parked
  <2> QED
    BY <2>1, <2>2, GoTo DEF To
<1>13. ASSUME ReadPark(t) PROVE To(t, {"writepark"})
  <2>1. Busy(t) /\ th[t] \in Job /\ Asked(th[t].req) /\ Framed(th[t])
    BY <1>13, AtIsBusy, Working DEF ReadPark
  <2>2. th \in [Threads -> Job \cup {Idle}]
    BY <2>1, Working
  <2> QED
    BY <1>13, <2>1, <2>2 DEF To, ReadPark, Set, Finish, Go, Job
<1>14. ASSUME WritePark(t) PROVE To(t, {})
  BY <1>14, SetOverTo DEF To, WritePark
<1> QED
  BY <1>1, <1>2, <1>3, <1>4, <1>5, <1>6, <1>7, <1>8, <1>9, <1>10, <1>11, <1>12, <1>13, <1>14

LEMMA FormationLeads ==
  ASSUME TypeInv, NEW t \in Threads
  PROVE  /\ Mine(t) => To(t, {"pathway", "reach"})
         /\ ReadOpen(t) => To(t, {"reach", "newpath"})
         /\ OpenPathway(t) => To(t, {"reach"})
         /\ Reach(t) => To(t, {"step"})
         /\ StepOn(t) => To(t, {})
<1>1. ASSUME Mine(t) PROVE To(t, {"pathway", "reach"})
  <2>1. Busy(t) /\ th[t] \in Job /\ Asked(th[t].req) /\ Framed(th[t])
    BY <1>1, AtIsBusy, Working DEF Mine
  <2>2. Finish(t) \/ Go(t, "pathway") \/ Go(t, "reach")
    BY <1>1 DEF Mine
  <2> QED
    BY <2>1, <2>2, GoTo DEF To
<1>2. ASSUME ReadOpen(t) PROVE To(t, {"reach", "newpath"})
  <2>1. Busy(t) /\ th[t] \in Job /\ Asked(th[t].req) /\ Framed(th[t])
    BY <1>2, AtIsBusy, Working DEF ReadOpen
  <2>2. AfterOpening(th[t]) = Idle \/ AfterOpening(th[t]).pc = "reach"
    BY <2>1 DEF AfterOpening, Job
  <2>3. \/ Set(t, AfterOpening(th[t])) \/ Go(t, "newpath")
        \/ Set(t, [th[t] EXCEPT !.pc = "newpath", !.fresh = TRUE])
    BY <1>2 DEF ReadOpen
  <2>4. th \in [Threads -> Job \cup {Idle}]
    BY <2>1, Working
  <2> QED
    <3>1. CASE Set(t, [th[t] EXCEPT !.pc = "newpath", !.fresh = TRUE])
      BY <2>1, <2>4, <3>1 DEF To, Set, Job
    <3>2. CASE Set(t, AfterOpening(th[t]))
      BY <2>2, <3>2, SetTo DEF To
    <3>3. CASE Go(t, "newpath")
      BY <2>1, <3>3, GoTo DEF To
    <3> QED
      BY <2>3, <3>1, <3>2, <3>3
<1>3. ASSUME OpenPathway(t) PROVE To(t, {"reach"})
  <2>1. Busy(t) /\ th[t] \in Job /\ Asked(th[t].req) /\ Framed(th[t])
    BY <1>3, AtIsBusy, Working DEF OpenPathway
  <2>2. AfterOpening(th[t]) = Idle \/ AfterOpening(th[t]).pc = "reach"
    BY <2>1 DEF AfterOpening, Job
  <2>3. \/ Set(t, AfterOpening(th[t])) \/ \E R : SetOver(t, AfterOpening(th[t]), R)
    BY <1>3 DEF OpenPathway
  <2> QED
    BY <2>2, <2>3, SetTo, SetOverTo DEF To
<1>4. ASSUME Reach(t) PROVE To(t, {"step"})
  <2>1. Busy(t) /\ th[t] \in Job /\ Asked(th[t].req) /\ Framed(th[t])
    BY <1>4, AtIsBusy, Working DEF Reach
  <2>2. th \in [Threads -> Job \cup {Idle}]
    BY <2>1, Working
  <2> QED
    BY <1>4, <2>1, <2>2 DEF To, Reach, Set, Finish, Go, Job
<1>5. ASSUME StepOn(t) PROVE To(t, {})
  BY <1>5, SetOverTo DEF To, StepOn
<1> QED
  BY <1>1, <1>2, <1>3, <1>4, <1>5

LEMMA TilesLead ==
  ASSUME TypeInv, NEW t \in Threads
  PROVE  /\ Purge(t) => To(t, {"wall"})
         /\ ReadWall(t) => To(t, {"newtoken"})
         /\ OpenWall(t) => To(t, {})
         /\ ReadToken(t) => To(t, {"tile"})
         /\ Beat(t) => To(t, {})
         /\ OwnedWall(t) => To(t, {"dropwall"})
         /\ CloseWall(t) => To(t, {})
<1>1. ASSUME Purge(t) PROVE To(t, {"wall"})
  <2>1. Busy(t) /\ th[t] \in Job /\ Asked(th[t].req) /\ Framed(th[t])
    BY <1>1, AtIsBusy, Working DEF Purge
  <2>2. Finish(t) \/ Go(t, "wall")
    BY <1>1 DEF Purge
  <2> QED
    BY <2>1, <2>2, GoTo DEF To
<1>2. ASSUME ReadWall(t) PROVE To(t, {"newtoken"})
  <2>1. Busy(t) /\ th[t] \in Job /\ Asked(th[t].req) /\ Framed(th[t])
    BY <1>2, AtIsBusy, Working DEF ReadWall
  <2>2. th \in [Threads -> Job \cup {Idle}]
    BY <2>1, Working
  <2> QED
    BY <1>2, <2>1, <2>2 DEF To, ReadWall, Set, Finish, Go, Job
<1>3. ASSUME OpenWall(t) PROVE To(t, {})
  BY <1>3, SetOverTo DEF To, OpenWall
<1>4. ASSUME ReadToken(t) PROVE To(t, {"tile"})
  <2>1. Busy(t) /\ th[t] \in Job /\ Asked(th[t].req) /\ Framed(th[t])
    BY <1>4, AtIsBusy, Working DEF ReadToken
  <2>2. Finish(t) \/ Go(t, "tile")
    BY <1>4 DEF ReadToken
  <2> QED
    BY <2>1, <2>2, GoTo DEF To
<1>5. ASSUME Beat(t) PROVE To(t, {})
  BY <1>5, SetTo DEF To, Beat, Finish
<1>6. ASSUME OwnedWall(t) PROVE To(t, {"dropwall"})
  <2>1. Busy(t) /\ th[t] \in Job /\ Asked(th[t].req) /\ Framed(th[t])
    BY <1>6, AtIsBusy, Working DEF OwnedWall
  <2>2. Finish(t) \/ Go(t, "dropwall")
    BY <1>6 DEF OwnedWall
  <2> QED
    BY <2>1, <2>2, GoTo DEF To
<1>7. ASSUME CloseWall(t) PROVE To(t, {})
  BY <1>7, SetTo DEF To, CloseWall, Finish
<1> QED
  BY <1>1, <1>2, <1>3, <1>4, <1>5, <1>6, <1>7

\* The other threads go on as they were, with a copy that may have become stale.
LEMMA OthersKept ==
  ASSUME TypeInv, NEW t \in Threads, Act(t), NEW s \in Threads, s # t, th'[s] # Idle
  PROVE  /\ th[s] # Idle /\ th[s] \in Job /\ th'[s] \in Job /\ Sound(th[s])
         /\ th'[s].pc = th[s].pc /\ th'[s].req = th[s].req /\ th'[s].n = th[s].n
         /\ th'[s].who = th[s].who /\ th'[s].todo = th[s].todo /\ th'[s].to = th[s].to
         /\ th'[s].ref = th[s].ref /\ th'[s].new = th[s].new
         /\ th'[s].counted = th[s].counted /\ th'[s].invited = th[s].invited
         /\ th'[s].made = th[s].made /\ th'[s].over = th[s].over
         /\ th'[s].doc = th[s].doc /\ th'[s].at = th[s].at
         /\ th'[s].fresh => th'[s] = th[s]
<1>1. Kept(th[s], th'[s]) /\ th'[s] \in Job \cup {Idle}
  BY ActMoves, MovesTurn DEF Turn
<1>2. Sound(th[s]) /\ th'[s] \in Job
  BY <1>1 DEF TypeInv, FramesOK
<1>3. th[s] # Idle
  BY <1>1, <1>2, KeptSound
<1> QED
  BY <1>1, <1>2, <1>3, KeptSound DEF Sound

\* What the steps that no request takes leave as it is.
LEMMA PassWrites ==
  ASSUME TypeInv,
         \/ (\E i \in Issued : Expire(i)) /\ UNCHANGED <<wall, scenario, begun>>
         \/ Rotate /\ UNCHANGED <<wall, scenario, begun>>
         \/ Grow /\ UNCHANGED <<tables, scenario, begun>>
         \/ UNCHANGED vars
  PROVE  /\ UNCHANGED <<user, minted, exam, want, park, path, course, roster, th, lost,
                        tiles, handed, scenario, begun>>
         /\ invite' = invite \/ \E i \in Issued : Expire(i)
         /\ link' = link \/ Rotate
         /\ session' = session \/ Grow
<1>1. CASE (\E i \in Issued : Expire(i)) /\ UNCHANGED <<wall, scenario, begun>>
  <2>1. UNCHANGED <<user, link, minted, exam, park, want, path, course, roster, th, lost>>
    BY <1>1, ExpireWrites
  <2> QED
    BY <1>1, <2>1 DEF wall
<1>2. CASE Rotate /\ UNCHANGED <<wall, scenario, begun>>
  BY <1>2 DEF Rotate, desk, wall
<1>3. CASE Grow /\ UNCHANGED <<tables, scenario, begun>>
  BY <1>3 DEF Grow, tables, people, desk
<1>4. CASE UNCHANGED vars
  BY <1>4 DEF vars, tables, people, desk, wall
<1> QED
  BY <1>1, <1>2, <1>3, <1>4

\* The steps after which a request is at a point.
LEMMA Arrivals ==
  ASSUME TypeInv, NEW t \in Threads, Act(t), th'[t] # Idle
  PROVE  /\ th'[t].pc = "insert" => Find(t)
         /\ th'[t].pc = "password" => Insert(t) \/ Owner(t) \/ Verify(t)
         /\ th'[t].pc = "unenrol" => OwnedCourse(t)
         /\ th'[t].pc = "issue" => Void(t)
         /\ th'[t].pc = "redeem" => Look(t)
         /\ th'[t].pc = "owner" => Redeem(t)
         /\ th'[t].pc = "holder" => Member(t)
         /\ th'[t].pc = "putlink" => ReadActive(t) \/ VoidCourseLinks(t)
         /\ th'[t].pc \in {"named", "exams", "putexam"} =>
              CreateExam(t) \/ ReadExam(t) \/ NamedCourse(t) \/ CountExams(t) \/ ReadCourse(t)
         /\ th'[t].pc = "dropcourse" => CourseExams(t)
         /\ th'[t].pc = "readpark" => Since(t) \/ Parked(t) \/ ReadExam(t)
         /\ th'[t].pc = "writepark" => ReadPark(t)
         /\ th'[t].pc = "newpath" => ReadOpen(t)
         /\ th'[t].pc = "step" => Reach(t)
         /\ th'[t].pc = "newtoken" => ReadWall(t)
         /\ th'[t].pc = "tile" => ReadToken(t)
<1>1. CASE AccountStep(t)
  BY <1>1, PeopleLead DEF AccountStep, To
<1>2. CASE DeskStep(t)
  BY <1>2, DeskLeads DEF DeskStep, To
<1>3. CASE FormationStep(t)
  BY <1>3, FormationLeads DEF FormationStep, To
<1>4. CASE TileStep(t)
  BY <1>4, TilesLead DEF TileStep, To
<1>5. ~Fail(t)
  BY SetTo DEF Fail, Finish
<1> QED
  BY <1>1, <1>2, <1>3, <1>4, <1>5 DEF Act
=============================================================================
