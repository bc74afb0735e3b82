------------------------- MODULE WorkspaceStore -------------------------
(***************************************************************************)
(* The tables of a Bluebook workspace (store.py) that its people and its   *)
(* teacher's desk share: accounts, invites, sign-up links, courses with    *)
(* their rosters, exams, parked phones, formation pathways; and the        *)
(* threads that serve requests on them.  Every operator on a table is one  *)
(* call of the store, one transaction.                                     *)
(*                                                                         *)
(* One workspace, without Original (a workspace with Original also gets    *)
(* profile records, see Baseline); exams that nobody has sealed (sealed    *)
(* ones are in Sitting).                                                   *)
(***************************************************************************)
EXTENDS Naturals, FiniteSets, Sequences

LOCAL INSTANCE FiniteSetsExt

CONSTANTS
  None,
  Threads, Students, Courses, Exams,
  Foreign,                \* those whose email belongs to an account of another kind
  SelfServe,              \* is it a free workspace, with caps?
  MaxStudents, MaxExams,  \* MAX_ENROLLED_STUDENTS, MAX_EXAMS
  FormationSteps,         \* FORMATION_STEPS
  StoreFaults,            \* may a store call fail?
  MaxInvites, MaxLinks    \* bounds: those that can be issued

ASSUME SwitchAssumption == SelfServe \in BOOLEAN /\ StoreFaults \in BOOLEAN
ASSUME CapAssumption == MaxStudents \in Nat /\ MaxExams \in Nat
ASSUME ForeignAssumption == Foreign \subseteq Students
ASSUME StepsAssumption == FormationSteps \in Nat \ {0}
ASSUME IssueAssumption == MaxInvites \in Nat /\ MaxLinks \in Nat
ASSUME FiniteAssumption == IsFiniteSet(Students) /\ IsFiniteSet(Exams)
ASSUME NamesAssumption ==
  None \notin Nat /\ None \notin Students /\ None \notin Courses /\ None \notin Exams

VARIABLES
  user,      \* users: [Students -> row or None]
  invite,    \* bluebook_invites, in the order issued; None once erased
  link,      \* bluebook_join_links, in the order issued; None once deleted
  course,    \* bluebook_courses: which exist
  roster,    \* bluebook_enrollments: [Courses -> SUBSET Students]
  exam,      \* bluebook_exams: [Exams -> row or None]
  park,      \* bluebook_phone_parks: [Exams -> [Students -> row or None]]
  path,      \* formation_pathways, in the order opened; None once erased
  minted,    \* how many invites and links, which exams and courses there were
  want,      \* [Exams -> the row that the writes so far asked for, or None]
  th,        \* what each thread is doing
  lost       \* what has happened that excuses a property (see Excuses)

people == <<user, invite, link, minted>>
desk == <<exam, park, want, path>>
tables == <<people, desk, course, roster>>

\* pwd: the request that set the password, 0 for the placeholder "!invited";
\* by: the request that inserted the row (0: before this history).
Account == [pwd : Nat, by : Nat]
Placeholder(n) == [pwd |-> 0, by |-> n]
Activated(u) == u.pwd # 0

\* old: its time has run out; uses: how often it was redeemed; over: the
\* invites that its issue meant to void.
Invite == [who : Students, course : Courses \cup {None},
           state : {"live", "redeemed", "voided"}, old : BOOLEAN, uses : Nat,
           over : SUBSET (1..MaxInvites)]

\* broken: SECRET_KEY has changed since.
Link == [course : Courses, on : BOOLEAN, broken : BOOLEAN]

\* title: the request that wrote it; park: phone parking is required; out:
\* results are released.
Exam == [title : Nat, course : Courses \cup {None}, park : BOOLEAN, out : BOOLEAN]

\* state: what the page last said; at: the request that parked it, or 0;
\* over: a teacher's override.
Park == [state : {"", "parked", "resumed"}, at : Nat, over : BOOLEAN]
NoPark == [state |-> "", at |-> 0, over |-> FALSE]

\* at: in which order rows were last written; given: the sessions it was
\* given; cleared: it has cleared the review flag of its submission.
Pathway == [who : Students, step : 0..FormationSteps, open : BOOLEAN, at : Nat,
            given : Nat, cleared : BOOLEAN]

ASSUME NoRowAssumption ==
  /\ None \notin Account /\ None \notin Invite /\ None \notin Link
  /\ None \notin Exam /\ None \notin Park /\ None \notin Pathway

Idle == [pc |-> "idle"]
Busy(t) == th[t] # Idle
At(t, pc) == th[t].pc = pc
Others(t) == {s \in Threads \ {t} : Busy(s)}

\* A store call may fail; once in a history, which bounds them.
MayFail == StoreFaults /\ "fault" \notin lost

Set(t, job) == th' = [th EXCEPT ![t] = job]
Go(t, pc) == Set(t, [th[t] EXCEPT !.pc = pc])
Finish(t) == Set(t, Idle)

\* A row was written: the copies other threads hold of it are out of date.
SetOver(t, job, readers) ==
  th' = [s \in Threads |-> IF s = t THEN job
                           ELSE IF s \in readers THEN [th[s] EXCEPT !.fresh = FALSE]
                           ELSE th[s]]

-----------------------------------------------------------------------------
(* Rosters                                                                 *)

Enrolled == UNION {roster[c] : c \in Courses}

\* put_enrollment: it asks nothing of the course.
PutEnrollment(c, s) == roster' = [roster EXCEPT ![c] = @ \cup {s}]
DeleteEnrollment(c, s) == roster' = [roster EXCEPT ![c] = @ \ {s}]

-----------------------------------------------------------------------------
(* Invites                                                                 *)

Issued == {i \in 1..minted.invites : invite[i] # None}
LiveOf(s) == {i \in Issued : invite[i].who = s /\ invite[i].state = "live"}

VoidInvites(s) ==
  invite' = [i \in DOMAIN invite |->
               IF i \in LiveOf(s) THEN [invite[i] EXCEPT !.state = "voided"] ELSE invite[i]]

PutInvite(s, c, over) ==
  /\ minted.invites < MaxInvites
  /\ minted' = [minted EXCEPT !.invites = @ + 1]
  /\ invite' = [invite EXCEPT ![minted.invites + 1] =
                  [who |-> s, course |-> c, state |-> "live", old |-> FALSE,
                   uses |-> 0, over |-> over]]

\* Mutant: the UPDATE does not ask whether it was redeemed.
NotVoided(i) == i \in Issued /\ invite[i].state # "voided"

\* redeem_invite: the UPDATE finds it neither redeemed nor voided.  Whether
\* its time has run out is the caller's business.
Redeemable(i) == i \in Issued /\ invite[i].state = "live"
RedeemInvite(i) ==
  invite' = [invite EXCEPT ![i].state = "redeemed", ![i].uses = @ + 1]

-----------------------------------------------------------------------------
(* Sign-up links                                                           *)

ActiveLinks(c) ==
  {l \in 1..minted.links : link[l] # None /\ link[l].course = c /\ link[l].on}

\* The latest one (active_join_link_for_course)
ActiveLink(c) ==
  IF ActiveLinks(c) = {} THEN None
  ELSE CHOOSE l \in ActiveLinks(c) : \A k \in ActiveLinks(c) : k <= l

VoidLinks(c) ==
  link' = [l \in DOMAIN link |->
             IF l \in ActiveLinks(c) THEN [link[l] EXCEPT !.on = FALSE] ELSE link[l]]

PutLink(c) ==
  /\ minted.links < MaxLinks
  /\ minted' = [minted EXCEPT !.links = @ + 1]
  /\ link' = [link EXCEPT ![minted.links + 1] = [course |-> c, on |-> TRUE, broken |-> FALSE]]

-----------------------------------------------------------------------------
(* Formation pathways                                                      *)

PathwaysOf(s) == {p \in DOMAIN path : path[p] # None /\ path[p].who = s}
OpenPathways(s) == {p \in PathwaysOf(s) : path[p].open}

Later == 1 + Max({0} \cup {path[p].at : p \in {q \in DOMAIN path : path[q] # None}})

PutPathway(s) ==
  path' = Append(path, [who |-> s, step |-> 0, open |-> TRUE, at |-> Later, given |-> 0,
                        cleared |-> FALSE])

Stepped(row, step, done) ==
  [row EXCEPT !.step = step, !.open = ~done, !.at = Later, !.given = @ + 1,
              !.cleared = @ \/ done]

-----------------------------------------------------------------------------
(* Deletions, each one transaction                                         *)

\* delete_bluebook_course: its roster and links go with it, its invites stay.
DropCourse(c) ==
  /\ course' = course \ {c}
  /\ roster' = [roster EXCEPT ![c] = {}]
  /\ link' = [l \in DOMAIN link |->
                IF link[l] # None /\ link[l].course = c THEN None ELSE link[l]]

DropExam(e) ==
  /\ exam' = [exam EXCEPT ![e] = None]
  /\ want' = [want EXCEPT ![e] = None]
  /\ park' = [park EXCEPT ![e] = [s \in Students |-> None]]

\* delete_student, as far as these tables go
HasFootprint(s) ==
  \/ s \in Enrolled \/ user[s] # None
  \/ \E i \in Issued : invite[i].who = s
  \/ \E e \in Exams : park[e][s] # None
DropStudent(s) ==
  /\ user' = [user EXCEPT ![s] = None]
  /\ invite' = [i \in DOMAIN invite |->
                  IF i \in Issued /\ invite[i].who = s THEN None ELSE invite[i]]
  /\ roster' = [c \in Courses |-> roster[c] \ {s}]
  /\ park' = [e \in Exams |-> [park[e] EXCEPT ![s] = None]]
  /\ path' = [p \in DOMAIN path |-> IF p \in PathwaysOf(s) THEN None ELSE path[p]]
=============================================================================
