------------------------- MODULE MCWorkspace -------------------------
(* Workspace on a small instance: two courses, two exams, a student to     *)
(* follow, two others, and one (s3) whose email belongs to somebody else.  *)
EXTENDS Workspace, TLC

CONSTANTS t1, t2, s1, s2, s3, s4, c1, c2, e1, e2

TwoThreads == {t1, t2}
ThreadSymmetry == Permutations(TwoThreads)

Ask(op, who, c, e, fields, on) ==
  [op |-> op, who |-> who, course |-> c, exam |-> e, fields |-> fields, on |-> on]
Person(op, who) == Ask(op, who, None, None, {}, FALSE)
OnCourse(op, who, c) == Ask(op, who, c, None, {}, FALSE)
OnExam(op, who) == Ask(op, who, None, e1, {}, TRUE)

Start(one, active, e, asked, most) ==
  [ calls |-> asked, most |-> most, first |-> c1, courses |-> {c1},
    stage |-> [s \in Students |-> IF s = s1 THEN one ELSE IF s \in active THEN "active"
                                  ELSE "new"],
    exams |-> [x \in Exams |-> IF x = e1 THEN e ELSE None] ]

\* One student's links: added, taken off, sent a new link, resetting, redeeming.
InviteCalls ==
  { OnCourse("add", {s1}, c1), OnCourse("remove", {s1}, c1), OnCourse("reissue", {s1}, c1),
    OnCourse("pending", {}, c1), Person("reset", {s1}), Person("redeem", {}) }
Invites == {Start(stage, {}, None, InviteCalls, 3) : stage \in {"new", "invited", "removed"}}

\* A batch at the cap, and erasure.
RosterCalls ==
  { OnCourse("add", {s1, s2}, c1), OnCourse("remove", {s2}, c1), Person("erase", {s1}),
    Person("change", {s1}) }
Rosters ==
  { Start("new", {s2, s4}, None, RosterCalls, 3), Start("invited", {s2}, None, RosterCalls, 3),
    Start("active", {s2}, None, RosterCalls, 2),
    Start("new", {}, None, {OnCourse("add", {s1, s3}, c1)}, 2) }

\* The sign-up link of a course.
LinkCalls ==
  { OnCourse("enable", {}, c1), OnCourse("regenerate", {}, c1), OnCourse("disable", {}, c1),
    Person("join", {s1}), Person("mejoin", {s2}), OnCourse("add", {s1}, c1) }
SignUps == {Start("new", {s2}, None, LinkCalls, 3), Start("new", {}, None, LinkCalls, 3)}

\* Courses that come and go under their people.
CourseCalls ==
  { OnCourse("dropcourse", {}, c1), OnCourse("editcourse", {}, c1),
    OnCourse("newcourse", {}, c2), OnCourse("add", {s2}, c2), OnCourse("enable", {}, c1),
    Person("redeem", {}), OnExam("launch", {s1}) }
TurnOver ==
  {Start("invited", {}, None, CourseCalls, 3), Start("invited", {}, "open", CourseCalls, 3)}

\* The caps reached by two requests at once, and by an invite that outlives
\* its course.
AtTheCaps ==
  { Start("new", {s4}, None, {OnCourse("add", {s1}, c1), OnCourse("add", {s2}, c1)}, 3),
    Start("new", {}, None,
          {Ask("create", {}, None, e1, {}, FALSE), Ask("create", {}, None, e2, {}, FALSE)}, 2),
    [Start("invited", {}, None,
           { OnCourse("dropcourse", {}, c1), OnCourse("add", {s2, s4}, c2),
             Person("redeem", {}) }, 3) EXCEPT !.courses = {c1, c2}] }

\* An account that an erasure takes from under its sign-up, and a student who
\* comes back by a launch link.
Returns ==
  { Start("new", {}, None,
          { OnCourse("enable", {}, c1), Person("join", {s1}), Person("erase", {s1}),
            OnCourse("add", {s1}, c1) }, 4),
    Start("removed", {}, "open", {OnExam("launch", {s1}), OnCourse("add", {s1}, c1)}, 3) }

\* Exams.
ExamCalls ==
  { Ask("create", {}, c1, e2, {}, FALSE), Ask("patch", {}, None, e1, {"title"}, FALSE),
    Ask("patch", {}, c2, e1, {"course", "park"}, FALSE), OnExam("release", {}),
    OnExam("delete", {}), OnCourse("dropcourse", {}, c1), OnCourse("newcourse", {}, c2) }
DeskWork == {Start("new", {}, "open", ExamCalls, 4)}

\* Phones.
PhoneCalls ==
  { OnExam("scan", {s1}), OnExam("beat", {s1}), OnExam("override", {s1}),
    OnExam("delete", {}), Person("erase", {s1}), Ask("patch", {}, None, e1, {"park"}, FALSE) }
Phones == {Start("active", {}, "open", PhoneCalls, 4)}

\* Formation pathways.
FormationCalls ==
  { Person("formation", {s1}), Person("advance", {s1}), Person("session", {s1}),
    Person("erase", {s1}) }
Formations == {Start("active", {}, None, FormationCalls, 4)}

\* Phone tiles.
TileCalls == {Person("openwall", {}), Person("tilebeat", {}), Person("closewall", {})}
Walls == {Start("new", {}, None, TileCalls, 4)}

AllScenarios ==
  Invites \cup Rosters \cup SignUps \cup TurnOver \cup AtTheCaps \cup Returns
    \cup DeskWork \cup Phones \cup Formations \cup Walls
=============================================================================
