----------------------------- MODULE Sitting -----------------------------
(***************************************************************************)
(* The routes a sitting goes through (original/routers/bluebook.py and the *)
(* dashboard start of bluebook_accounts.py).  The handlers are plain `def` *)
(* functions that FastAPI runs in a thread pool inside ONE worker process, *)
(* so each request is a thread here and other threads, the clock, a crash  *)
(* or a failing database may come in at every store call.                  *)
(*                                                                         *)
(* pc[t] names the store call thread t makes next; loc[t] holds the        *)
(* handler's local variables, req[t] what the client sent.                 *)
(***************************************************************************)
EXTENDS SittingStore

CONSTANTS
  Threads,      \* the worker's request threads
  Kinds,        \* the request kinds the clients of this instance send
  Patches,      \* the bodies a teacher may PATCH an exam with
  Grace,        \* the 300-second margin of the late tag, in ticks
  SelfServe,    \* is the workspace on the free tier?
  MonthlyCap,   \* rules.MAX_SUBMISSIONS_PER_MONTH
  MaxRequests, MaxCrashes, MaxTime   \* bounds of the instance

\* "Only fields present in the body change" -- of the row as it was read.
Patched(row, body) ==
  [f \in DOMAIN row |-> IF f \in DOMAIN body THEN body[f] ELSE row[f]]

ASSUME GraceAssumption == Grace \in Nat
ASSUME SelfServeAssumption == SelfServe \in BOOLEAN
ASSUME ThreadsAssumption == None \notin Threads
ASSUME PatchesAssumption == \A p \in Patches, row \in ExamRows : Patched(row, p) \in ExamRows

VARIABLES
  lock,       \* _ONE_SITTING_LOCK: the thread holding it, or None
  pc, req, loc,
  acked,      \* history: seals a client was told are recorded (201)
  turnedAway, \* history: seals answered "You have already submitted" (409)
  versions,   \* history: every row ever stored for an exam
  begun,      \* requests received so far
  crashes     \* restarts of the worker so far

replies == <<acked, turnedAway>>
bounds == <<begun, crashes>>
vars == <<tables, now, lock, pc, req, loc, replies, versions, bounds>>

\* What a handler's frame is before it has read anything.
NoRequest == [kind |-> "none", exam |-> None, student |-> None, uuid |-> None, patch |-> None]
NoLocals == [row |-> None, ticks |-> None, late |-> FALSE, asked |-> 0, held |-> None]

StudentRequests ==
  [ kind : {"launch", "dashboard", "getdraft", "putdraft", "scan", "override"},
    exam : Exams, student : Students, uuid : {None}, patch : {None} ]
SealRequests ==
  { [kind |-> "seal", exam |-> Owner[u][1], student |-> Owner[u][2], uuid |-> u,
     patch |-> None] : u \in Uuids }
PatchRequests ==
  [kind : {"patch"}, exam : Exams, student : {None}, uuid : {None}, patch : Patches]
DeleteRequests ==
  [kind : {"delete"}, exam : Exams, student : {None}, uuid : {None}, patch : {None}]
Requests == StudentRequests \cup SealRequests \cup PatchRequests \cup DeleteRequests

FirstCall ==
  [ launch |-> "launch_exam", dashboard |-> "dash_exam", getdraft |-> "draft_exam",
    putdraft |-> "draft_exam", scan |-> "park_exam", override |-> "park_exam",
    seal |-> "seal_exam", patch |-> "patch_exam", delete |-> "delete_exam" ]

Key(t) == <<req[t].exam, req[t].student>>

Goto(t, p) == pc' = [pc EXCEPT ![t] = p]

\* The handler returns or raises: its frame is gone.
Reply(t) ==
  /\ pc' = [pc EXCEPT ![t] = "idle"]
  /\ req' = [req EXCEPT ![t] = NoRequest]
  /\ loc' = [loc EXCEPT ![t] = NoLocals]

\* The same, for a step that touches nothing but the frame.
ReplyOnly(t) == Reply(t) /\ UNCHANGED <<lock, tables, replies>>

\* A step that only reads and goes on to the next store call.
Proceed(t, p) == Goto(t, p) /\ UNCHANGED <<req, lock, tables, replies>>

\* History keeping, at every change of an exam's row.
Recall == versions' = [e \in Exams |-> versions[e] \cup ({exam'[e]} \ {None})]

Init ==
  /\ StoreInit
  /\ lock = None
  /\ pc = [t \in Threads |-> "idle"]
  /\ req = [t \in Threads |-> NoRequest]
  /\ loc = [t \in Threads |-> NoLocals]
  /\ acked = {} /\ turnedAway = {}
  /\ versions = [e \in Exams |-> {exam[e]}]
  /\ begun = 0 /\ crashes = 0

\* A request arrives and a pool thread takes it up.
Begin(t, r) ==
  /\ pc[t] = "idle" /\ r.kind \in Kinds /\ begun < MaxRequests
  /\ begun' = begun + 1
  /\ Goto(t, FirstCall[r.kind])
  /\ req' = [req EXCEPT ![t] = r]
  /\ loc' = [loc EXCEPT ![t] =
       IF r.kind \in {"seal", "dashboard"}
       THEN [NoLocals EXCEPT !.asked = now, !.held = session[<<r.exam, r.student>>]]
       ELSE NoLocals]
  /\ UNCHANGED <<tables, now, lock, replies, versions, crashes>>
-----------------------------------------------------------------------------
(* POST /bluebook/exams/{id}/session as the signed-in student.              *)

LaunchExam(t) ==
  /\ pc[t] = "launch_exam"
  /\ \E row \in GetExam(req[t].exam) :
       IF row = None THEN ReplyOnly(t)
       ELSE /\ loc' = [loc EXCEPT ![t].row = row]
            /\ Proceed(t, "launch_submitted")

LaunchSubmitted(t) ==
  /\ pc[t] = "launch_submitted"
  /\ IF SealedFor(Key(t)) THEN ReplyOnly(t)
     ELSE Proceed(t, "launch_visible") /\ UNCHANGED loc

\* Mutant of LaunchVisible: a sitting may begin whatever the exam's state.
UncheckedVisible(t) ==
  /\ pc[t] = "launch_visible"
  /\ IF ~IsEnrolled(loc[t].row, req[t].student) THEN ReplyOnly(t)
     ELSE Proceed(t, "launch_phone") /\ UNCHANGED loc

\* _student_exam_state: a draft, or another course's exam, is not found.
LaunchVisible(t) ==
  LET row == loc[t].row
      state == ExamState(row, now)
  IN  /\ pc[t] = "launch_visible"
      /\ IF state = "draft" \/ ~IsEnrolled(row, req[t].student) THEN ReplyOnly(t)
         ELSE /\ Proceed(t, IF state = "open" THEN "launch_phone" ELSE "launch_resume")
              /\ UNCHANGED loc

\* Not open: only a sitting already under way goes on.
LaunchResume(t) ==
  /\ pc[t] = "launch_resume"
  /\ \E held \in GetSession(Key(t)) :
       IF held = None THEN ReplyOnly(t)
       ELSE Proceed(t, "launch_phone") /\ UNCHANGED loc

\* A NEW sitting waits for the phone when the teacher asks for it.
LaunchPhone(t) ==
  /\ pc[t] = "launch_phone"
  /\ UNCHANGED loc
  /\ IF ~loc[t].row.phone THEN Proceed(t, "launch_ticks")
     ELSE \E held \in GetSession(Key(t)) :
            Proceed(t, IF held = None THEN "launch_cleared" ELSE "launch_ticks")

LaunchCleared(t) ==
  /\ pc[t] = "launch_cleared"
  /\ IF Key(t) \notin cleared THEN ReplyOnly(t)
     ELSE Proceed(t, "launch_ticks") /\ UNCHANGED loc

LaunchTicks(t) ==
  /\ pc[t] = "launch_ticks"
  /\ loc' = [loc EXCEPT ![t].ticks = SessionTicks(loc[t].row, now)]
  /\ Proceed(t, "pin")

\* Both start routes end here; nothing is stored when nothing bounds the time.
Pin(t) ==
  /\ pc[t] = "pin"
  /\ IF loc[t].ticks = None THEN UNCHANGED session
     ELSE GetOrCreateSession(Key(t), loc[t].ticks)
  /\ Reply(t)
  /\ UNCHANGED <<exam, draft, sub, cleared, enrolled, lock, replies>>

LaunchStep(t) ==
  \/ LaunchExam(t) \/ LaunchSubmitted(t) \/ LaunchVisible(t) \/ LaunchResume(t)
  \/ LaunchPhone(t) \/ LaunchCleared(t) \/ LaunchTicks(t) \/ Pin(t)
-----------------------------------------------------------------------------
(* POST /bluebook/me/exams/{id}/start.  Its one clock reading is taken on   *)
(* arrival, before the exam is read.                                        *)

DashExam(t) ==
  /\ pc[t] = "dash_exam"
  /\ \E row \in GetExam(req[t].exam) :
       IF row = None THEN ReplyOnly(t)
       ELSE IF ExamState(row, loc[t].asked) = "draft" THEN ReplyOnly(t)
       ELSE /\ loc' = [loc EXCEPT ![t].row = row,
                                  ![t].ticks = SessionTicks(row, loc[t].asked)]
            /\ Proceed(t, "dash_visible")

DashVisible(t) ==
  /\ pc[t] = "dash_visible"
  /\ IF ~IsEnrolled(loc[t].row, req[t].student) THEN ReplyOnly(t)
     ELSE Proceed(t, "dash_submitted") /\ UNCHANGED loc

DashSubmitted(t) ==
  /\ pc[t] = "dash_submitted"
  /\ IF SealedFor(Key(t)) THEN ReplyOnly(t)
     ELSE Proceed(t, "dash_session") /\ UNCHANGED loc

\* Mutant of DashSession: the dashboard start forgets the phone.
PhonelessSession(t) ==
  /\ pc[t] = "dash_session"
  /\ \E held \in GetSession(Key(t)) :
       IF held = None /\ ExamState(loc[t].row, loc[t].asked) # "open" THEN ReplyOnly(t)
       ELSE Proceed(t, "pin") /\ UNCHANGED loc

DashSession(t) ==
  /\ pc[t] = "dash_session"
  /\ \E held \in GetSession(Key(t)) :
       IF held # None THEN Proceed(t, "pin") /\ UNCHANGED loc
       ELSE IF ExamState(loc[t].row, loc[t].asked) # "open" THEN ReplyOnly(t)
       ELSE /\ Proceed(t, IF loc[t].row.phone THEN "dash_cleared" ELSE "pin")
            /\ UNCHANGED loc

DashCleared(t) ==
  /\ pc[t] = "dash_cleared"
  /\ IF Key(t) \notin cleared THEN ReplyOnly(t)
     ELSE Proceed(t, "pin") /\ UNCHANGED loc

DashStep(t) ==
  \/ DashExam(t) \/ DashVisible(t) \/ DashSubmitted(t) \/ DashSession(t)
  \/ DashCleared(t)
-----------------------------------------------------------------------------
(* GET and PUT /bluebook/exams/{id}/draft.                                  *)

DraftExam(t) ==
  /\ pc[t] = "draft_exam"
  /\ \E row \in GetExam(req[t].exam) :
       IF row = None THEN ReplyOnly(t)
       ELSE Proceed(t, "draft_submitted") /\ UNCHANGED loc

\* Mutant of DraftSubmitted: a read of a sealed exam's draft deletes nothing.
PurgelessSubmitted(t) ==
  /\ pc[t] = "draft_submitted"
  /\ Proceed(t, IF req[t].kind = "getdraft" THEN "draft_read"
                ELSE IF SealedFor(Key(t)) THEN "draft_purge" ELSE "draft_write")
  /\ UNCHANGED loc

DraftSubmitted(t) ==
  /\ pc[t] = "draft_submitted"
  /\ Proceed(t, IF SealedFor(Key(t)) THEN "draft_purge"
                ELSE IF req[t].kind = "getdraft" THEN "draft_read" ELSE "draft_write")
  /\ UNCHANGED loc

\* Already sealed: whatever is left of the draft goes, and nothing is saved.
DraftPurge(t) ==
  /\ pc[t] = "draft_purge"
  /\ DeleteDraft(Key(t))
  /\ Reply(t)
  /\ UNCHANGED <<exam, session, sub, cleared, enrolled, lock, replies>>

DraftRead(t) ==
  /\ pc[t] = "draft_read"
  /\ ReplyOnly(t)

DraftWrite(t) ==
  /\ pc[t] = "draft_write"
  /\ PutDraft(Key(t))
  /\ Reply(t)
  /\ UNCHANGED <<exam, session, sub, cleared, enrolled, lock, replies>>

DraftStep(t) ==
  DraftExam(t) \/ DraftSubmitted(t) \/ DraftPurge(t) \/ DraftRead(t) \/ DraftWrite(t)
-----------------------------------------------------------------------------
(* POST /bluebook/phone-park/scan and .../phone-park/{student}/override.     *)

\* A scan is refused when the exam does not ask for the phone; the teacher may
\* let a student begin without one whatever the exam says.
ParkExam(t) ==
  /\ pc[t] = "park_exam"
  /\ \E row \in GetExam(req[t].exam) :
       IF row = None \/ (req[t].kind = "scan" /\ ~row.phone) THEN ReplyOnly(t)
       ELSE Proceed(t, "park_write") /\ UNCHANGED loc

ParkWrite(t) ==
  /\ pc[t] = "park_write"
  /\ PutPhonePark(Key(t))
  /\ Reply(t)
  /\ UNCHANGED <<exam, session, draft, sub, enrolled, lock, replies>>

ParkStep(t) == ParkExam(t) \/ ParkWrite(t)
-----------------------------------------------------------------------------
(* POST /bluebook/submissions as the signed-in student, for a booklet whose *)
(* client retries the same submission_uuid.                                 *)

OneSitting(t) == loc[t].row # None     \* student caller, stored exam

SealExam(t) ==
  /\ pc[t] = "seal_exam"
  /\ \E row \in GetExam(req[t].exam) : loc' = [loc EXCEPT ![t].row = row]
  /\ Proceed(t, "seal_replay")

\* A retried seal gets the prior row back.
SealReplay(t) ==
  /\ pc[t] = "seal_replay"
  /\ \E prior \in GetByUuid(req[t].uuid) :
       Proceed(t, IF prior # None THEN "seal_drop"
                  ELSE IF OneSitting(t) THEN "seal_session" ELSE "seal_cap")
  /\ UNCHANGED loc

SealSession(t) ==
  /\ pc[t] = "seal_session"
  /\ \E held \in GetSession(Key(t)) :
       Proceed(t, IF held = None THEN "seal_state" ELSE "seal_cap")
  /\ UNCHANGED loc

\* Mutant of SealState: the opening and the roster go unchecked.
UncheckedState(t) ==
  /\ pc[t] = "seal_state"
  /\ loc' = [loc EXCEPT ![t].late = (ExamState(loc[t].row, now) = "closed")]
  /\ Proceed(t, "seal_cap")

\* No sitting on record: the student must be able to see the exam, and it must
\* have opened; after closing the writing is kept and marked late.
SealState(t) ==
  LET row == loc[t].row
      state == ExamState(row, now)
  IN  /\ pc[t] = "seal_state"
      /\ IF state \in {"draft", "upcoming"} \/ ~IsEnrolled(row, req[t].student)
         THEN ReplyOnly(t)
         ELSE /\ loc' = [loc EXCEPT ![t].late = (state = "closed")]
              /\ Proceed(t, "seal_cap")

SealCap(t) ==
  /\ pc[t] = "seal_cap"
  /\ IF SelfServe /\ SubmissionCount >= MonthlyCap THEN ReplyOnly(t)
     ELSE Proceed(t, "seal_late") /\ UNCHANGED loc

\* Mutant of SealLate: the margin forgotten.
GracelessLate(t) ==
  /\ pc[t] = "seal_late"
  /\ \E held \in GetSession(Key(t)) :
       loc' = [loc EXCEPT ![t].late = @ \/ (held # None /\ now > held)]
  /\ Proceed(t, IF OneSitting(t) THEN "seal_lock" ELSE "seal_insert")

\* Mutant of SealLate: the draft dropped ahead of the insert.
EarlyDropLate(t) ==
  /\ pc[t] = "seal_late"
  /\ \E held \in GetSession(Key(t)) :
       loc' = [loc EXCEPT ![t].late = @ \/ (held # None /\ now > held + Grace)]
  /\ DeleteDraft(Key(t))
  /\ Goto(t, IF OneSitting(t) THEN "seal_lock" ELSE "seal_insert")
  /\ UNCHANGED <<req, lock, exam, session, sub, cleared, enrolled, replies>>

\* Late against the deadline the server pinned for this sitting.
SealLate(t) ==
  /\ pc[t] = "seal_late"
  /\ \E held \in GetSession(Key(t)) :
       loc' = [loc EXCEPT ![t].late = @ \/ (held # None /\ now > held + Grace)]
  /\ Proceed(t, IF OneSitting(t) THEN "seal_lock" ELSE "seal_insert")

\* Mutant of SealLock: the check and the insert without the lock.
UnlockedSeal(t) ==
  /\ pc[t] = "seal_lock"
  /\ Proceed(t, "seal_check")
  /\ UNCHANGED loc

SealLock(t) ==
  /\ pc[t] = "seal_lock"
  /\ lock = None
  /\ lock' = t
  /\ Goto(t, "seal_check")
  /\ UNCHANGED <<req, loc, tables, replies>>

\* Mutant of Release: the lock stays with the thread.
LeakyRelease(t) == UNCHANGED lock

\* Leaving the `with` block.
Release(t) == lock' = IF lock = t THEN None ELSE lock

\* Mutant of SealCheck: a refused seal keeps the lock.
LeakyCheck(t) ==
  /\ pc[t] = "seal_check"
  /\ IF SealedFor(Key(t))
     THEN /\ Reply(t)
          /\ turnedAway' = turnedAway \cup {req[t].uuid}
          /\ UNCHANGED <<tables, lock, acked>>
     ELSE Proceed(t, "seal_insert") /\ UNCHANGED loc

\* Mutant of SealCheck: only the booklet's own uuid is looked up.
OwnUuidCheck(t) ==
  /\ pc[t] = "seal_check"
  /\ sub[req[t].uuid] = None
  /\ Proceed(t, "seal_insert") /\ UNCHANGED loc

SealCheck(t) ==
  /\ pc[t] = "seal_check"
  /\ IF SealedFor(Key(t))
     THEN /\ Reply(t) /\ Release(t)
          /\ turnedAway' = turnedAway \cup {req[t].uuid}
          /\ UNCHANGED <<tables, acked>>
     ELSE Proceed(t, "seal_insert") /\ UNCHANGED loc

\* INSERT under the unique index on submission_uuid.  The database may commit
\* and its answer still be lost: the row is there and the request fails.
SealInsert(t) ==
  /\ pc[t] = "seal_insert"
  /\ sub[req[t].uuid] = None
  /\ PutSubmission(req[t].uuid,
       [one |-> OneSitting(t), late |-> loc[t].late, asked |-> loc[t].asked,
        held |-> loc[t].held, at |-> now])
  /\ Release(t)
  /\ \/ Goto(t, "seal_drop") /\ UNCHANGED <<req, loc>>
     \/ StoreFaults /\ Reply(t)
  /\ UNCHANGED <<exam, session, draft, cleared, enrolled, replies>>

\* IntegrityError: a racing replay has stored the same uuid.
SealConflict(t) ==
  /\ pc[t] = "seal_insert"
  /\ sub[req[t].uuid] # None
  /\ \E prior \in GetByUuid(req[t].uuid) :
       acked' = IF prior # None THEN acked \cup {req[t].uuid} ELSE acked
  /\ Reply(t) /\ Release(t)
  /\ UNCHANGED <<tables, turnedAway>>

\* _drop_draft_after_seal, best effort, then the 201.
SealDrop(t) ==
  /\ pc[t] = "seal_drop"
  /\ DeleteDraft(Key(t)) \/ (StoreFaults /\ UNCHANGED draft)
  /\ acked' = acked \cup {req[t].uuid}
  /\ Reply(t)
  /\ UNCHANGED <<exam, session, sub, cleared, enrolled, lock, turnedAway>>

SealStep(t) ==
  \/ SealExam(t) \/ SealReplay(t) \/ SealSession(t) \/ SealState(t) \/ SealCap(t)
  \/ SealLate(t) \/ SealLock(t) \/ SealCheck(t) \/ SealInsert(t) \/ SealConflict(t)
  \/ SealDrop(t)
-----------------------------------------------------------------------------
(* PATCH and DELETE /bluebook/exams/{id}: read, then write.                 *)

PatchExam(t) ==
  /\ pc[t] = "patch_exam"
  /\ \E row \in GetExam(req[t].exam) :
       IF row = None THEN ReplyOnly(t)
       ELSE /\ loc' = [loc EXCEPT ![t].row = row]
            /\ Proceed(t, "patch_write")

PatchWrite(t) ==
  /\ pc[t] = "patch_write"
  /\ PutExam(req[t].exam, Patched(loc[t].row, req[t].patch))
  /\ Reply(t)
  /\ UNCHANGED <<session, draft, sub, cleared, enrolled, lock, replies>>

DeleteRead(t) ==
  /\ pc[t] = "delete_exam"
  /\ \E row \in GetExam(req[t].exam) :
       IF row = None THEN ReplyOnly(t)
       ELSE Proceed(t, "delete_list") /\ UNCHANGED loc

DeleteList(t) ==
  /\ pc[t] = "delete_list"
  /\ IF SealedOn(req[t].exam) THEN ReplyOnly(t)
     ELSE Proceed(t, "delete_write") /\ UNCHANGED loc

\* Mutant of DeleteWrite: the submissions go with the exam.
CascadingDelete(t) ==
  /\ pc[t] = "delete_write"
  /\ DeleteExam(req[t].exam)
  /\ sub' = [u \in Uuids |-> IF Owner[u][1] = req[t].exam THEN None ELSE sub[u]]
  /\ Reply(t)
  /\ UNCHANGED <<enrolled, lock, replies>>

DeleteWrite(t) ==
  /\ pc[t] = "delete_write"
  /\ DeleteExam(req[t].exam)
  /\ Reply(t)
  /\ UNCHANGED <<sub, enrolled, lock, replies>>

TeacherStep(t) ==
  PatchExam(t) \/ PatchWrite(t) \/ DeleteRead(t) \/ DeleteList(t) \/ DeleteWrite(t)
-----------------------------------------------------------------------------
(* A store call that raises answers 500; a `with` on the way is left.       *)

RaisingCalls ==
  { "launch_submitted", "launch_visible", "launch_cleared", "pin", "dash_visible",
    "dash_submitted", "dash_cleared", "draft_submitted", "draft_purge", "draft_read",
    "draft_write", "park_write", "seal_state", "seal_cap", "seal_check", "seal_insert",
    "patch_write", "delete_list", "delete_write" }

StoreRaises(t) ==
  /\ StoreFaults
  /\ pc[t] \in RaisingCalls
  /\ Reply(t) /\ Release(t)
  /\ UNCHANGED <<tables, replies>>

HandlerStep(t) ==
  \/ LaunchStep(t) \/ DashStep(t) \/ DraftStep(t) \/ ParkStep(t) \/ SealStep(t)
  \/ TeacherStep(t)

\* One thread moves; the clock and the request counters stand still.
Step(t) ==
  /\ HandlerStep(t) \/ StoreRaises(t)
  /\ UNCHANGED <<now, bounds>>
  /\ Recall

Tick ==
  /\ now < MaxTime
  /\ now' = now + 1
  /\ UNCHANGED <<tables, lock, pc, req, loc, replies, versions, bounds>>

\* The worker restarts: the threads and the lock are gone, the tables stay.
Crash ==
  /\ crashes < MaxCrashes
  /\ crashes' = crashes + 1
  /\ lock' = None
  /\ pc' = [t \in Threads |-> "idle"]
  /\ req' = [t \in Threads |-> NoRequest]
  /\ loc' = [t \in Threads |-> NoLocals]
  /\ UNCHANGED <<tables, now, replies, versions, begun>>

\* The roster changes under the students' feet.
ChangeRoster(c, s) ==
  /\ enrolled' = IF <<c, s>> \in enrolled THEN enrolled \ {<<c, s>>}
                 ELSE enrolled \cup {<<c, s>>}
  /\ UNCHANGED <<exam, session, draft, sub, cleared, now, lock, pc, req, loc,
                 replies, versions, bounds>>

Next ==
  \/ \E t \in Threads : Step(t)
  \/ \E t \in Threads, r \in Requests : Begin(t, r)
  \/ Tick
  \/ Crash
  \/ \E c \in Courses, s \in Students : ChangeRoster(c, s)

Spec == Init /\ [][Next]_vars

\* A request that has been taken up runs on: the pool schedules every thread.
FairSpec == Spec /\ \A t \in Threads : WF_vars(Step(t))
-----------------------------------------------------------------------------
(* What the routes promise.                                                 *)

Sealed(u) == sub[u] # None
SealedOneSitting(u) == Sealed(u) /\ sub[u].one

StudentPoints ==
  { "launch_exam", "launch_submitted", "launch_visible", "launch_resume", "launch_phone",
    "launch_cleared", "launch_ticks", "pin", "dash_exam", "dash_visible", "dash_submitted",
    "dash_session", "dash_cleared", "draft_exam", "draft_submitted", "draft_purge",
    "draft_read", "draft_write", "park_exam", "park_write" }
SealPoints ==
  { "seal_exam", "seal_replay", "seal_session", "seal_state", "seal_cap", "seal_late",
    "seal_lock", "seal_check", "seal_insert", "seal_drop" }
PatchPoints == { "patch_exam", "patch_write" }
DeletePoints == { "delete_exam", "delete_list", "delete_write" }
Points == {"idle"} \cup StudentPoints \cup SealPoints \cup PatchPoints \cup DeletePoints

\* Where the handler has found the exam's row and relies on it.
RowPoints ==
  { "launch_submitted", "launch_visible", "launch_resume", "launch_phone",
    "launch_cleared", "launch_ticks", "dash_visible", "dash_submitted", "dash_session",
    "dash_cleared", "seal_session", "seal_state", "seal_lock", "patch_write" }

Locals ==
  [ row : ExamRows \cup {None}, ticks : Nat \cup {None}, late : BOOLEAN,
    asked : Nat, held : Nat \cup {None} ]

\* Every handler runs on a request of its own kind, and has its row where it
\* uses one.
FramesOK ==
  \A t \in Threads :
    /\ pc[t] \in StudentPoints => req[t] \in StudentRequests
    /\ pc[t] \in SealPoints => req[t] \in SealRequests
    /\ pc[t] \in PatchPoints => req[t] \in PatchRequests
    /\ pc[t] \in DeletePoints => req[t] \in DeleteRequests
    /\ pc[t] \in RowPoints => loc[t].row # None

\* Every variable holds a value of its kind; in particular a pinned deadline and
\* a sitting's length are never negative, however late the sitting begins.
TypeOK ==
  /\ StoreTypeOK
  /\ lock \in Threads \cup {None}
  /\ pc \in [Threads -> Points]
  /\ req \in [Threads -> Requests \cup {NoRequest}]
  /\ loc \in [Threads -> Locals]
  /\ acked \subseteq Uuids /\ turnedAway \subseteq Uuids
  /\ versions \in [Exams -> SUBSET ExamRows]
  /\ begun \in Nat /\ crashes \in Nat
  /\ FramesOK

InsideLock(t) == pc[t] \in {"seal_check", "seal_insert"} /\ OneSitting(t)

\* _ONE_SITTING_LOCK is held exactly while a signed-in student's seal of a
\* stored exam is between its check and the end of its insert: it is never left
\* behind by a refusal, a uuid conflict, a raising store call or a restart, and
\* never entered by two seals.
LockDiscipline == \A t \in Threads : lock = t <=> InsideLock(t)

\* "One submission per student per stored exam": two booklets of one student
\* (two tabs, two uuids) are never both recorded under the one-sitting rule,
\* whatever interleaving, deletion, failing store call or restart comes between.
OneSealPerSitting ==
  \A u, v \in Uuids :
    SealedOneSitting(u) /\ SealedOneSitting(v) /\ Owner[u] = Owner[v] => u = v

\* What the check under the lock saw still holds at the insert: from the check
\* to the write no other seal of the same sitting is recorded under the rule.
CheckStillHolds ==
  \A t \in Threads, u \in Uuids :
    pc[t] = "seal_insert" /\ OneSitting(t) /\ SealedOneSitting(u) => Owner[u] # Key(t)

\* What a client was told stays true: a seal confirmed with 201 (also as a
\* replay, or after an IntegrityError) is in the table for good, and a student
\* told "You have already submitted" has work on record for that exam, so the
\* booklet may drop its own copy on either answer.
AnswersAreTrue ==
  /\ \A u \in acked : Sealed(u)
  /\ \A u \in turnedAway : SealedFor(Owner[u])

\* A student's saved writing leaves the server only once a submission of that
\* sitting is on record, or with the exam itself: no read, retry, refused seal
\* or failure drops the draft of an unsealed sitting.
DraftKeptUntilSealed ==
  [][ \A k \in Sittings :
        draft[k] /\ ~draft'[k] => SealedFor(k) \/ exam'[k[1]] = None ]_vars

\* The first start pins the deadline; no later start from either route, and no
\* PATCH of the exam, moves it.  It goes only with the exam.
DeadlinePinned ==
  [][ \A k \in Sittings :
        session[k] # None /\ session'[k] # session[k]
          => session'[k] = None /\ exam'[k[1]] = None ]_vars

Was(e, state) ==
  \E row \in versions[e], at \in 0..now : ExamState(row, at) = state

\* No sitting begins, by either route, before some stored version of the exam
\* was open, and no work is recorded under the one-sitting rule before it was
\* open or already closed: a stale read may lag a PATCH, but nothing lets a
\* student pin a deadline, and thereby unlock the seal, on an upcoming exam.
NothingBeforeOpening ==
  /\ \A k \in Sittings : session[k] # None => Was(k[1], "open")
  /\ \A u \in Uuids : SealedOneSitting(u) =>
       Was(Owner[u][1], "open") \/ Was(Owner[u][1], "closed")

\* A sitting that began without the phone being parked (or overridden) began
\* under a version of the exam that did not ask for it.  (Deleting the exam
\* removes the phone rows as well; instances of this property delete none.)
PhoneClearedFirst ==
  \A k \in Sittings :
    session[k] # None => k \in cleared \/ \E row \in versions[k[1]] : ~row.phone

\* The late tag follows the deadline the student had when pressing seal: work
\* handed in by then plus the margin is never tagged late, and untagged work
\* was never asked to be recorded after it -- also when another tab starts the
\* sitting or the teacher patches the window while the seal is on its way.
LateTagIsFair ==
  \A u \in Uuids :
    Sealed(u) /\ sub[u].held # None =>
      IF sub[u].late THEN sub[u].at > sub[u].held + Grace
      ELSE sub[u].asked <= sub[u].held + Grace

\* Every request is answered: no path leaves _ONE_SITTING_LOCK held by a thread
\* that has gone, so no seal waits for it for ever.
RequestsAnswered == \A t \in Threads : pc[t] # "idle" ~> pc[t] = "idle"

\* "The next draft read deletes what is left": a draft that a save racing the
\* seal left behind is gone once a later read of it has been served.
StaleDraftPurged ==
  \A t \in Threads, k \in Sittings :
    pc[t] = "draft_exam" /\ req[t].kind = "getdraft" /\ Key(t) = k /\ SealedFor(k)
      ~> ~draft[k]
\* Read as deadlines, recorded work and answers alone, every behaviour of the
\* routes is one that SittingPromise allows.
Promise == INSTANCE SittingPromise WITH
  deadline <- session,
  work <- [u \in Uuids |-> IF sub[u] = None THEN "none"
                           ELSE IF sub[u].one THEN "sitting" ELSE "loose"],
  confirmed <- acked,
  refused <- turnedAway

KeepsPromise == Promise!Spec
-----------------------------------------------------------------------------
(* Claims of the repository's text that the routes do not keep.             *)

\* "Within one tab a retried seal reuses its submission_uuid and gets the first
\* row back": a booklet is never turned away because of its own row.
RetryGetsItsRowBack == \A u \in turnedAway : ~Sealed(u)

\* "Delete an exam nobody has sat yet ... so no student's work is orphaned."
NoOrphanedSeal ==
  \A u \in Uuids : SealedOneSitting(u) => exam[Owner[u][1]] # None

\* "One submission per student per stored exam."
OneSubmissionPerStoredExam ==
  \A u, v \in Uuids : Sealed(u) /\ Sealed(v) /\ Owner[u] = Owner[v] => u = v
=============================================================================
