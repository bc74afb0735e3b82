--------------------------- MODULE Workspace ---------------------------
(***************************************************************************)
(* A workspace: its people, its teacher's desk, a wall of phone tiles and  *)
(* formation pathways, served by the threads of one server.  A history     *)
(* starts from a state that earlier requests left behind; which requests   *)
(* follow, and how many at most, is its scenario.                          *)
(***************************************************************************)
EXTENDS Accounts, Desk, Formation, Tiles

CONSTANTS
  Scenarios,          \* what is there at first, and what is asked for
  MaxCalls            \* bound: the most requests of a scenario

Ops == Rostering \cup Linking \cup Joining \cup Forming \cup Tiling \cup
       { "redeem", "reset", "change", "launch", "erase", "create", "patch", "release",
         "delete", "editcourse", "dropcourse", "newcourse", "scan", "beat", "override" }

\* who: the students it names; fields, on: what a PATCH or a release carries.
Call == [op : Ops, who : SUBSET Students, course : Courses \cup {None},
         exam : Exams \cup {None}, fields : SUBSET Fields, on : BOOLEAN]

\* How far a student has come: no account; an account that waits for its
\* password, with its invite, or without (taken off the course); an account
\* with a password.
Stages == {"new", "invited", "removed", "active"}

\* courses: those there are at first; first: the one with the students and
\* the exams on it.
Scenario == [calls : SUBSET Call, most : 0..MaxCalls, courses : SUBSET Courses,
             first : Courses, stage : [Students -> Stages], exams : [Exams -> {None, "open"}]]

\* What the requests of an op name: a student, a course, an exam.  A reset
\* is of an account, its link of no course.
OfStudent == {"remove", "reissue", "join", "mejoin", "reset", "change", "launch", "erase",
              "scan", "beat", "override", "formation", "advance", "session"}
OfCourse == Rostering \cup Linking \cup {"editcourse", "dropcourse", "newcourse"}
OfExam == {"create", "patch", "release", "delete", "scan", "beat", "override", "launch"}

In(sc, stages) == {s \in Students : sc.stage[s] \in stages}

ASSUME ScenarioAssumption ==
  \A sc \in Scenarios :
    /\ sc \in Scenario /\ sc.first \in sc.courses
    /\ \A r \in sc.calls :
         /\ r.op # "add" => Cardinality(r.who) <= 1
         /\ r.op \in OfStudent => r.who # {}
         /\ r.op \in OfCourse => r.course # None
         /\ r.op \in OfExam => r.exam # None
         /\ r.op = "reset" => r.course = None
    /\ Cardinality(In(sc, {"invited"})) <= 1
    /\ Cardinality(In(sc, {"invited"})) <= MaxInvites
    /\ \A s \in Foreign : sc.stage[s] = "new"
    /\ SelfServe =>
         /\ Cardinality(In(sc, {"invited", "active"})) <= MaxStudents
         /\ Cardinality({e \in Exams : sc.exams[e] # None}) <= MaxExams
ASSUME BoundAssumption == MaxCalls \in Nat

VARIABLES
  scenario,       \* this history's
  begun           \* how many requests it has begun

vars == <<tables, wall, th, lost, scenario, begun>>

Excuses == {"fault",        \* a store call failed, or the process died
            "rush",         \* two requests were let in by one count
            "uncounted",    \* a student was enrolled who was on no roster
            "raced",        \* an insert replaced an account made meanwhile
            "overtaken",    \* a removal crossed a request about its student
            "stale exam", "stale course", "stale park",   \* a write over an unseen one
            "crossed",      \* two links of one course were put at once
            "stale path", "raced path",   \* a step, an opening over an unseen one
            "crossed walls",   \* two tokens of one sitting were put at once
            "late beat",    \* a beat came after its session had gone
            "removed", "erased"}

\* Requests are numbered from 2; 1 stands for those before the history.
Numbers == 2..(MaxCalls + 1)

Pcs == {"course", "new", "count", "next", "find", "insert", "password", "enrol", "void",
        "issue", "unenrol", "member", "holder", "members", "holders", "look", "redeem",
        "owner", "reset", "verify", "active", "voidlinks", "putlink", "link", "target",
        "account", "me", "launch", "erase", "wipe", "create", "named", "exams", "exam",
        "putexam", "dropexam", "putcourse", "dropcourse", "since", "parked", "readpark",
        "writepark", "mine", "pathway", "newpath", "reach", "step",
        "purge", "wall", "newtoken", "token", "tile", "owned", "dropwall"}

\* A pathway and its step, as they were read.
Reached == [id : Nat, step : 0..FormationSteps]

\* n: the request's number; who, todo: the student it is at, and those still
\* to come; to: the course it enrols on or acts on; ref: the invite or link
\* it presents; new: the students that would be new; counted: the cap let it
\* in; invited: the account it read has no password; made: it made the
\* account; over: the invites it meant to void; doc: its copy of a row,
\* fresh while nobody else has written that; at: the time of a parking.
Job == [pc : Pcs, req : Call, n : Numbers, who : Students \cup {None},
        todo : SUBSET Students, to : Courses \cup {None}, ref : Nat, new : Nat,
        counted : BOOLEAN, invited : BOOLEAN, made : BOOLEAN,
        over : SUBSET (1..MaxInvites), doc : Exam \cup Park \cup Reached \cup {None},
        fresh : BOOLEAN, at : Nat]

AccountsOK ==
  /\ user \in [Students -> Account \cup {None}]
  /\ invite \in [1..MaxInvites -> Invite \cup {None}]
  /\ link \in [1..MaxLinks -> Link \cup {None}]
  /\ course \subseteq Courses
  /\ roster \in [Courses -> SUBSET Students]
  /\ \A s \in Foreign : user[s] = None

DeskOK ==
  /\ path \in Seq(Pathway \cup {None})
  /\ exam \in [Exams -> Exam \cup {None}]
  /\ want \in [Exams -> Exam \cup {None}]
  /\ park \in [Exams -> [Students -> Park \cup {None}]]

WallOK ==
  /\ session \in Session \cup {None}
  /\ tiles \subseteq Numbers /\ handed \subseteq Numbers

TypeOK ==
  /\ AccountsOK /\ DeskOK /\ WallOK
  /\ minted \in [invites : 0..MaxInvites, links : 0..MaxLinks,
                 exams : SUBSET Exams, courses : SUBSET Courses]
  /\ th \in [Threads -> Job \cup {Idle}]
  /\ lost \subseteq Excuses
  /\ scenario \in Scenarios
  /\ begun \in 0..MaxCalls

InitInvites(sc) ==
  LET invited == In(sc, {"invited"})
  IN /\ invite = [i \in 1..MaxInvites |->
                    IF i = 1 /\ invited # {}
                    THEN [who |-> CHOOSE s \in invited : TRUE, course |-> sc.first,
                          state |-> "live", old |-> FALSE, uses |-> 0, over |-> {}]
                    ELSE None]
     /\ minted = [invites |-> Cardinality(invited), links |-> 0,
                  exams |-> {e \in Exams : sc.exams[e] # None}, courses |-> sc.courses]

InitDesk(sc) ==
  /\ exam = [e \in Exams |-> IF sc.exams[e] = None THEN None
                             ELSE [Blank EXCEPT !.course = sc.first, !.park = TRUE]]
  /\ want = exam
  /\ park = [e \in Exams |-> [s \in Students |-> None]]

Init ==
  /\ \E sc \in Scenarios :
       /\ scenario = sc
       /\ user = [s \in Students |-> CASE sc.stage[s] = "new" -> None
                                       [] sc.stage[s] = "active" -> [pwd |-> 1, by |-> 1]
                                       [] OTHER -> Placeholder(1)]
       /\ course = sc.courses
       /\ roster = [c \in Courses |-> IF c = sc.first
                      THEN In(sc, {"invited", "active"}) ELSE {}]
       /\ InitInvites(sc)
       /\ InitDesk(sc)
  /\ path = <<>>
  /\ TilesInit
  /\ link = [l \in 1..MaxLinks |-> None]
  /\ th = [t \in Threads |-> Idle]
  /\ lost = {}
  /\ begun = 0

-----------------------------------------------------------------------------
(* Requests                                                                *)

FirstPc(op) ==
  CASE op \in Rostering \cup Linking \cup {"editcourse", "dropcourse"} -> "course"
    [] op = "newcourse" -> "putcourse"
    [] op = "redeem" -> "look"
    [] op = "change" -> "verify"
    [] op = "join" -> "link"
    [] op = "mejoin" -> "me"
    [] op \in {"reset", "launch", "erase", "create"} -> op
    [] op = "formation" -> "pathway"
    [] op = "advance" -> "reach"
    [] op = "session" -> "mine"
    [] op = "openwall" -> "purge"
    [] op = "tilebeat" -> "token"
    [] op = "closewall" -> "owned"
    [] op \in {"patch", "release", "delete", "scan", "beat", "override"} -> "exam"

\* The student a request names, when it names one.
Named(r) ==
  IF r.op = "add" \/ r.who = {} THEN None ELSE CHOOSE s \in r.who : TRUE

\* A new row's id is fresh; who presents a link holds one; who is signed in
\* has a password; a phone that beats was parked.
Possible(r) ==
  /\ r.op = "create" => r.exam \notin minted.exams
  /\ r.op = "newcourse" => r.course \notin minted.courses
  /\ r.op \in {"mejoin", "change"} =>
       user[Named(r)] # None /\ Activated(user[Named(r)])
  /\ r.op = "beat" =>
       park[r.exam][Named(r)] # None /\ park[r.exam][Named(r)].at # 0

Refs(r) ==
  CASE r.op = "redeem" -> 1..minted.invites
    [] r.op \in Joining -> 1..minted.links
    [] r.op = "tilebeat" -> handed
    [] OTHER -> {0}

Begin(t) ==
  /\ ~Busy(t)
  /\ begun < scenario.most
  /\ \E r \in scenario.calls : \E ref \in Refs(r) :
       /\ Possible(r)
       /\ Set(t, [ pc |-> FirstPc(r.op), req |-> r, n |-> begun + 2, who |-> Named(r),
                   todo |-> IF r.op = "add" THEN r.who ELSE {}, to |-> r.course,
                   ref |-> ref, new |-> 0, counted |-> FALSE, invited |-> FALSE,
                   made |-> FALSE, over |-> {}, doc |-> None, fresh |-> TRUE, at |-> 0 ])
       /\ minted' = [minted EXCEPT
            !.exams = IF r.op = "create" THEN @ \cup {r.exam} ELSE @,
            !.courses = IF r.op = "newcourse" THEN @ \cup {r.course} ELSE @]
  /\ begun' = begun + 1
  /\ UNCHANGED <<user, invite, link, desk, course, roster, wall, lost, scenario>>

\* A store call raises, or the process dies: what was written stays, the
\* request goes no further.  (No state of these handlers is in memory.)
Fail(t) ==
  /\ MayFail /\ Busy(t)
  /\ Finish(t)
  /\ lost' = lost \cup {"fault"}
  /\ UNCHANGED <<tables, wall, scenario, begun>>

Next ==
  \/ \E t \in Threads : Begin(t) \/ Fail(t)
  \/ /\ \/ \E t \in Threads : AccountStep(t) \/ DeskStep(t) \/ FormationStep(t)
        \/ \E i \in Issued : Expire(i)
        \/ Rotate
     /\ UNCHANGED <<wall, scenario, begun>>
  \/ /\ Grow \/ \E t \in Threads : TileStep(t)
     /\ UNCHANGED <<tables, scenario, begun>>

Spec == Init /\ [][Next]_vars

-----------------------------------------------------------------------------
(* Properties                                                              *)

Quiet == \A t \in Threads : ~Busy(t)
Without(excuses) == lost \cap excuses = {}

\* One-time links (invites.py): in whatever order threads issue, void and
\* redeem, an invite is redeemed at most once and never after it was voided,
\* and one that was out when a later issue voided is never live again.
InviteOnce ==
  \A i \in Issued :
    /\ invite[i].uses <= 1
    /\ invite[i].state = "voided" => invite[i].uses = 0
    /\ \A j \in invite[i].over \cap Issued : invite[j].state # "live"

\* Taking a student off a course revokes their link (roster_remove): nobody
\* can redeem themselves onto a course that still exists and that they are
\* not on, unless the removal crossed another request about them or failed
\* half-way.
RemovalRevokes ==
  Quiet /\ Without({"fault", "overtaken", "stale course"}) =>
    \A i \in Issued :
      invite[i].state = "live" /\ invite[i].course \in course =>
        invite[i].who \in roster[invite[i].course]

\* A student on a roster whose account waits for its password has a link to
\* set it with (roster_add), however issues, redemptions and sign-ups of the
\* same student interleave; unless they were taken off a course (which voids
\* the links to every other) or came in by a launch link.
InvitedHasLink ==
  Quiet /\ Without({"fault", "removed", "uncounted"}) =>
    \A s \in Enrolled :
      user[s] # None /\ ~Activated(user[s]) => LiveOf(s) # {}

\* A sign-up link only ever sets the password of an account that its own
\* request created (auth_join), unless two inserts of one account raced.
JoinOwnsAccount ==
  Without({"fault", "raced", "erased"}) =>
    \A t \in Threads :
      At(t, "password") /\ th[t].req.op = "join" =>
        user[th[t].who] # None /\ user[th[t].who].by = th[t].n

\* One active link per course (join_links.py), also after the signing secret
\* has changed, unless two requests put theirs at once.
OneActiveLink ==
  Without({"crossed"}) => \A c \in Courses : Cardinality(ActiveLinks(c)) <= 1

\* The caps of a free workspace (bluebook_rules.py) hold across additions,
\* sign-ups, removals and deletions, unless two requests were counted at once
\* or a student came in by a link that does not count.
CapsKept ==
  SelfServe /\ Without({"fault", "rush", "uncounted", "overtaken", "stale exam"}) =>
    Cardinality(Enrolled) <= MaxStudents /\ Cardinality(Listed) <= MaxExams

\* The row of an exam is what its edits, releases and deletions asked for, in
\* the order they were written, unless one was written over a row that its
\* request had not seen.
EditsKept == Without({"stale exam"}) => exam = want

\* An exam's course exists: it is not deleted under its exams, and no exam
\* moves to a course that is gone.
ExamOnCourse ==
  Without({"stale exam", "stale course", "fault"}) =>
    \A e \in Listed : exam[e].course \in course \cup {None}

\* Once a phone is parked or a teacher let the student begin without, later
\* scans, beats and overrides keep it so: the student is not locked out.
Uncleared ==
  \E e \in Exams, s \in Students :
    /\ park[e][s] # None /\ park'[e][s] # None
    /\ \/ park[e][s].over /\ ~park'[e][s].over
       \/ park[e][s].at # 0 /\ park'[e][s].at = 0
ClearanceKept == [][Uncleared => "stale park" \in lost']_vars

\* A pathway has the step of the sessions it was given, and never one more;
\* it clears a review flag only after all of them; a student has at most one
\* open (open_formation_pathway), unless two requests opened or stepped it at
\* once, or a read failed and found none.
PathwaysCount ==
  \A p \in DOMAIN path :
    path[p] # None =>
      /\ path[p].step <= path[p].given
      /\ path[p].cleared => path[p].given >= FormationSteps
      /\ Without({"stale path"}) =>
           path[p].step = path[p].given /\ path[p].open = (path[p].step < FormationSteps)
      /\ Without({"raced path", "stale path", "fault"}) =>
           Cardinality(OpenPathways(path[p].who)) <= 1

\* No tile outlives its session: what phones left behind goes when a session
\* is closed, purged or replaced, unless a beat was under way meanwhile.
TilesGoWithSession ==
  Without({"late beat"}) => \A k \in tiles : session # None /\ session.token = k

\* Opening a live session again hands back the same token (open_park_session),
\* so that the phones parked on it are not stranded.
Stranded == Live /\ session' # None /\ session'.token # session.token
TokenStands == [][Stranded => "crossed walls" \in lost']_vars
=============================================================================
