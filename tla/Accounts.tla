---------------------------- MODULE Accounts ----------------------------
(***************************************************************************)
(* People (routers/bluebook_accounts.py, routers/auth.py, invites.py,      *)
(* join_links.py, users.py): the roster of a course, one-time links that   *)
(* set a password, forwardable sign-up links, erasure.  A handler takes    *)
(* one step per store call.                                                *)
(***************************************************************************)
EXTENDS WorkspaceStore

Rostering == {"add", "remove", "reissue", "pending"}
Linking   == {"enable", "regenerate", "disable"}
Joining   == {"join", "mejoin"}

\* What an issue has still to do for the other students of its request.
FirstFor(op) == IF op = "add" THEN "find" ELSE "void"
Advance(job) ==
  IF job.todo = {} THEN {Idle}
  ELSE {[job EXCEPT !.who = s, !.todo = @ \ {s}, !.pc = FirstFor(job.req.op)] : s \in job.todo}
ToNext(t) == \E job \in Advance(th[t]) : Set(t, job)

\* A request about a student that will write what they are.
About(t, s) == Busy(t) /\ (th[t].who = s \/ s \in th[t].todo)

-----------------------------------------------------------------------------
(* The handlers of a teacher start at the course (_owned_course).          *)

AfterCourse(job) ==
  LET op == job.req.op
  IN CASE op = "add" /\ SelfServe -> "new"
       [] op = "add" /\ ~SelfServe -> "next"
       [] op = "remove" -> "unenrol"
       [] op = "reissue" -> "member"
       [] op = "pending" -> "members"
       [] op = "enable" -> "active"
       [] op \in {"regenerate", "disable"} -> "voidlinks"

OwnedCourse(t) ==
  /\ At(t, "course") /\ th[t].req.op \in Rostering \cup Linking
  /\ IF th[t].req.course \in course THEN Go(t, AfterCourse(th[t])) ELSE Finish(t)
  /\ UNCHANGED <<tables, lost>>

-----------------------------------------------------------------------------
(* The cap on students (roster_add, auth_join, join_enrol): those on no    *)
(* roster yet are counted, then those on one.                              *)

Fresh(students) == Cardinality(students \ Enrolled)

CountNew(t) ==
  /\ At(t, "new")
  /\ LET batch == th[t].todo \cup ({th[t].who} \cap Students)
     IN Set(t, [th[t] EXCEPT !.new = Fresh(batch), !.pc = "count"])
  /\ UNCHANGED <<tables, lost>>

AfterCount(job) ==
  CASE job.req.op = "add" -> "next"
    [] job.req.op = "join" /\ ~job.made -> "find"
    [] OTHER -> "enrol"

Full(job) == Cardinality(Enrolled) + job.new > MaxStudents

\* Two that were let in by the same count may pass the cap together.
Count(t) ==
  /\ At(t, "count")
  /\ IF Full(th[t]) THEN Finish(t) /\ UNCHANGED lost
     ELSE /\ Set(t, [th[t] EXCEPT !.pc = AfterCount(th[t]), !.counted = TRUE])
          /\ lost' = IF \E s \in Others(t) : th[s].counted /\ th[s].req.op # "create"
                     THEN lost \cup {"rush"} ELSE lost
  /\ UNCHANGED tables

\* The batch of a roster addition, one student after the other.
NextStudent(t) ==
  /\ At(t, "next") /\ ToNext(t)
  /\ UNCHANGED <<tables, lost>>

-----------------------------------------------------------------------------
(* create_student_account: the row is read by email, and inserted when     *)
(* none was found.  get_user_by_email answers None when it fails, and      *)
(* put_user answers as if it had written.                                  *)

\* Mutant: a sign-up goes on with the account it found.
TakesOver(job) ==
  [job EXCEPT !.invited = ~Activated(user[job.who]),
              !.pc = IF job.req.op = "add" THEN "enrol" ELSE "password"]

\* An account was found: a sign-up is refused, only an addition goes on.
Existing(job) ==
  IF job.req.op = "add"
  THEN [job EXCEPT !.invited = ~Activated(user[job.who]), !.pc = "enrol"]
  ELSE Idle

Find(t) ==
  LET s == th[t].who
      adds == th[t].req.op = "add"
  IN /\ At(t, "find")
     /\ \/ /\ s \notin Foreign /\ user[s] = None
           /\ Go(t, "insert") /\ UNCHANGED lost
        \/ /\ s \notin Foreign /\ user[s] # None
           /\ Set(t, Existing(th[t])) /\ UNCHANGED lost
        \/ /\ s \in Foreign
           /\ IF adds THEN ToNext(t) ELSE Finish(t)
           /\ UNCHANGED lost
        \/ /\ MayFail /\ Go(t, "insert")
           /\ lost' = lost \cup {"fault"}
     /\ UNCHANGED tables

\* Mutant: nothing keeps an email to one account.
PutAnyUser(s, n) == [user EXCEPT ![s] = Placeholder(n)]

\* put_user is an upsert: a row that came in between is replaced.  An email
\* of another account is refused by its UNIQUE column.
PutUser(s, n) == IF s \in Foreign THEN user ELSE [user EXCEPT ![s] = Placeholder(n)]

Insert(t) ==
  LET s == th[t].who
  IN /\ At(t, "insert")
     /\ \/ /\ user' = PutUser(s, th[t].n)
           /\ lost' = IF user[s] # None THEN lost \cup {"raced"} ELSE lost
        \/ /\ MayFail
           /\ lost' = lost \cup {"fault"}
           /\ UNCHANGED user
     /\ Set(t, [th[t] EXCEPT !.invited = TRUE,
                             !.pc = IF th[t].req.op = "add" THEN "enrol" ELSE "password"])
     /\ UNCHANGED <<invite, link, minted, desk, course, roster>>

AfterPassword(job) ==
  CASE job.req.op = "change" -> Idle
    [] job.req.op = "redeem" /\ job.to = None -> Idle
    [] job.req.op = "join" /\ SelfServe -> [job EXCEPT !.made = TRUE, !.pc = "new"]
    [] OTHER -> [job EXCEPT !.made = TRUE, !.pc = "enrol"]

\* set_user_password_hash: an UPDATE; that it found no row is not looked at.
SetPassword(t) ==
  LET s == th[t].who
  IN /\ At(t, "password")
     /\ user' = IF user[s] = None THEN user ELSE [user EXCEPT ![s].pwd = th[t].n]
     /\ Set(t, AfterPassword(th[t]))
     /\ UNCHANGED <<invite, link, minted, desk, course, roster, lost>>

\* Mutant: only a new account gets a link.
IssuesWhenNew(job) == job.req.op = "add" /\ job.invited /\ user[job.who].by = job.n

Issues(job) == job.req.op = "add" /\ job.invited

Enrol(t) ==
  /\ At(t, "enrol")
  /\ PutEnrollment(th[t].to, th[t].who)
  /\ IF Issues(th[t]) THEN Go(t, "void") ELSE ToNext(t)
  /\ lost' = IF th[t].req.op \in {"redeem", "launch"} /\ th[t].who \notin Enrolled
             THEN lost \cup {"uncounted"} ELSE lost
  /\ UNCHANGED <<people, desk, course>>

-----------------------------------------------------------------------------
(* invites.issue: void, then put.                                          *)

Void(t) ==
  LET s == th[t].who
  IN /\ At(t, "void")
     /\ VoidInvites(s)
     /\ IF th[t].req.op = "remove" THEN Finish(t)
        ELSE Set(t, [th[t] EXCEPT !.over = LiveOf(s), !.pc = "issue"])
     /\ UNCHANGED <<user, link, minted, desk, course, roster, lost>>

Issue(t) ==
  /\ At(t, "issue")
  /\ PutInvite(th[t].who, th[t].to, th[t].over)
  /\ \E job \in Advance([th[t] EXCEPT !.over = {}]) : Set(t, job)
  /\ UNCHANGED <<user, link, desk, course, roster, lost>>

\* An invite's fortnight is over.
Expire(i) ==
  /\ Redeemable(i) /\ ~invite[i].old
  /\ invite' = [invite EXCEPT ![i].old = TRUE]
  /\ UNCHANGED <<user, link, minted, desk, course, roster, th, lost>>

-----------------------------------------------------------------------------
(* The roster                                                              *)

\* Mutant: removal leaves the links.
Removed(job) == Idle

AfterUnenrol(job) == [job EXCEPT !.pc = "void"]

Unenrol(t) ==
  LET s == th[t].who
  IN /\ At(t, "unenrol")
     /\ IF s \in roster[th[t].to]
        THEN /\ DeleteEnrollment(th[t].to, s)
             /\ Set(t, AfterUnenrol(th[t]))
             /\ lost' = lost \cup {"removed"}
                          \cup (IF \E o \in Others(t) : About(o, s) THEN {"overtaken"} ELSE {})
        ELSE Finish(t) /\ UNCHANGED <<roster, lost>>
     /\ UNCHANGED <<people, desk, course>>

\* roster_reissue_invite: enrolled, then (a student) with an account.
Member(t) ==
  /\ At(t, "member")
  /\ IF th[t].who \in roster[th[t].to] THEN Go(t, "holder") ELSE Finish(t)
  /\ UNCHANGED <<tables, lost>>

Holder(t) ==
  /\ At(t, "holder")
  /\ IF user[th[t].who] # None THEN Go(t, "void") ELSE Finish(t)
  /\ UNCHANGED <<tables, lost>>

\* roster_reissue_pending: the enrolled, then those without a password.
Members(t) ==
  /\ At(t, "members")
  /\ Set(t, [th[t] EXCEPT !.todo = roster[th[t].to], !.pc = "holders"])
  /\ UNCHANGED <<tables, lost>>

Holders(t) ==
  LET waiting == {s \in th[t].todo : user[s] # None /\ ~Activated(user[s])}
  IN /\ At(t, "holders")
     /\ \E job \in Advance([th[t] EXCEPT !.todo = waiting]) : Set(t, job)
     /\ UNCHANGED <<tables, lost>>

-----------------------------------------------------------------------------
(* auth_invite_redeem, the reset request, and a change of password         *)

\* find_redeemable.  (An earlier call of it decides only what is audited.)
Look(t) ==
  LET i == th[t].ref
  IN /\ At(t, "look")
     /\ IF Redeemable(i) /\ ~invite[i].old
        THEN Set(t, [th[t] EXCEPT !.who = invite[i].who, !.to = invite[i].course,
                                  !.pc = "redeem"])
        ELSE Finish(t)
     /\ UNCHANGED <<tables, lost>>

Redeem(t) ==
  LET i == th[t].ref
  IN /\ At(t, "redeem")
     /\ IF Redeemable(i) THEN RedeemInvite(i) /\ Go(t, "owner")
        ELSE Finish(t) /\ UNCHANGED invite
     /\ UNCHANGED <<user, link, minted, desk, course, roster, lost>>

Owner(t) ==
  /\ At(t, "owner")
  /\ IF user[th[t].who] # None THEN Go(t, "password") ELSE Finish(t)
  /\ UNCHANGED <<tables, lost>>

\* auth_password_reset_request reads the account by email.
ResetRequest(t) ==
  /\ At(t, "reset")
  /\ IF user[th[t].who] # None THEN Go(t, "void") ELSE Finish(t)
  /\ UNCHANGED <<tables, lost>>

\* auth_change_password verifies the current password.
Verify(t) ==
  LET s == th[t].who
  IN /\ At(t, "verify")
     /\ IF user[s] # None /\ Activated(user[s]) THEN Go(t, "password") ELSE Finish(t)
     /\ UNCHANGED <<tables, lost>>

-----------------------------------------------------------------------------
(* Sign-up links                                                           *)

\* Mutant: a link that needs replacing is not voided.
KeepsBroken(l) == IF l = None \/ link[l].broken THEN "putlink" ELSE "idle"

\* enable keeps a link that still works.
AfterActive(l) ==
  IF l = None THEN "putlink" ELSE IF link[l].broken THEN "voidlinks" ELSE "idle"

ReadActive(t) ==
  /\ At(t, "active")
  /\ LET next == AfterActive(ActiveLink(th[t].to))
     IN IF next = "idle" THEN Finish(t) ELSE Go(t, next)
  /\ UNCHANGED <<tables, lost>>

VoidCourseLinks(t) ==
  /\ At(t, "voidlinks")
  /\ VoidLinks(th[t].to)
  /\ IF th[t].req.op = "disable" THEN Finish(t) ELSE Go(t, "putlink")
  /\ UNCHANGED <<user, invite, minted, desk, course, roster, lost>>

PutCourseLink(t) ==
  /\ At(t, "putlink")
  /\ PutLink(th[t].to)
  /\ Finish(t)
  /\ lost' = IF \E s \in Others(t) : At(s, "putlink") THEN lost \cup {"crossed"} ELSE lost
  /\ UNCHANGED <<user, invite, desk, course, roster>>

\* The server restarts with another SECRET_KEY.  The links that are out keep
\* their stored hash.
Rotate ==
  /\ \A t \in Threads : ~Busy(t)
  /\ \E l \in 1..minted.links : link[l] # None /\ ~link[l].broken
  /\ link' = [l \in DOMAIN link |->
                IF link[l] = None THEN None ELSE [link[l] EXCEPT !.broken = TRUE]]
  /\ UNCHANGED <<user, invite, minted, desk, course, roster, th, lost>>

\* find_active looks its token's hash up.
FindActive(l) == link[l] # None /\ link[l].on

FindLink(t) ==
  LET l == th[t].ref
  IN /\ At(t, "link")
     /\ IF FindActive(l)
        THEN Set(t, [th[t] EXCEPT !.to = link[l].course, !.pc = "target"])
        ELSE Finish(t)
     /\ UNCHANGED <<tables, lost>>

\* join_link_target: the course still exists.
Target(t) ==
  LET next == IF th[t].req.op = "join" THEN "account"
              ELSE IF SelfServe THEN "new" ELSE "enrol"
  IN /\ At(t, "target")
     /\ IF th[t].to \in course THEN Go(t, next) ELSE Finish(t)
     /\ UNCHANGED <<tables, lost>>

\* auth_join refuses an email that has an account, whatever its state.
ReadAccount(t) ==
  LET s == th[t].who
      next == IF SelfServe THEN "new" ELSE "find"
  IN /\ At(t, "account")
     /\ \/ /\ IF user[s] # None \/ s \in Foreign THEN Finish(t) ELSE Go(t, next)
           /\ UNCHANGED lost
        \/ /\ MayFail /\ Go(t, next)
           /\ lost' = lost \cup {"fault"}
     /\ UNCHANGED tables

\* A signed launch link of a stored exam enrols its student on the course.
Launch(t) ==
  LET row == exam[th[t].req.exam]
  IN /\ At(t, "launch")
     /\ IF row = None THEN Finish(t)
        ELSE IF row.course = None THEN Finish(t)
        ELSE Set(t, [th[t] EXCEPT !.to = row.course, !.pc = "enrol"])
     /\ UNCHANGED <<tables, lost>>

\* me_join: the session's account is still there.
Me(t) ==
  /\ At(t, "me")
  /\ IF user[th[t].who] # None THEN Go(t, "link") ELSE Finish(t)
  /\ UNCHANGED <<tables, lost>>

-----------------------------------------------------------------------------
(* Erasure                                                                 *)

EraseCheck(t) ==
  /\ At(t, "erase")
  /\ IF HasFootprint(th[t].who) THEN Go(t, "wipe") ELSE Finish(t)
  /\ UNCHANGED <<tables, lost>>

Wipe(t) ==
  /\ At(t, "wipe")
  /\ DropStudent(th[t].who)
  /\ Finish(t)
  /\ lost' = lost \cup {"erased"} \cup
       (IF \E o \in Others(t) : About(o, th[t].who) THEN {"overtaken"} ELSE {})
  /\ UNCHANGED <<link, minted, exam, want, course>>

AccountStep(t) ==
  \/ OwnedCourse(t) \/ CountNew(t) \/ Count(t) \/ NextStudent(t)
  \/ Find(t) \/ Insert(t) \/ SetPassword(t) \/ Enrol(t)
  \/ Void(t) \/ Issue(t)
  \/ Unenrol(t) \/ Member(t) \/ Holder(t) \/ Members(t) \/ Holders(t)
  \/ Look(t) \/ Redeem(t) \/ Owner(t) \/ ResetRequest(t) \/ Verify(t)
  \/ ReadActive(t) \/ VoidCourseLinks(t) \/ PutCourseLink(t)
  \/ FindLink(t) \/ Target(t) \/ ReadAccount(t) \/ Me(t) \/ Launch(t)
  \/ EraseCheck(t) \/ Wipe(t)
=============================================================================
