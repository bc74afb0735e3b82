-------------------------- MODULE BluebookRules --------------------------
(***************************************************************************)
(* The pure rules of original/bluebook_rules.py that decide when an exam   *)
(* may be sat and for how long.  Time is counted in abstract ticks; an     *)
(* instant or a length the code leaves NULL is the value None.             *)
(***************************************************************************)
EXTENDS Integers

CONSTANTS
  None,        \* SQL NULL / Python None
  MinSitting,  \* the 60-second floor of a sitting, in ticks
  Courses      \* course ids an exam may be placed on

ASSUME NoneAssumption == None \notin Int
ASSUME MinSittingAssumption == MinSitting \in Nat \ {0}

\* exam_state only tells these apart: "CLOSED" stands for CLOSED and
\* ARCHIVED, "LIVE" for every other status a teacher may write.
Statuses == {"DRAFT", "LIVE", "CLOSED"}

\* The columns of a bluebook_exams row the sitting routes read.
ExamRow ==
  [ status : Statuses, opens : Nat \cup {None}, closes : Nat \cup {None},
    timed : BOOLEAN, duration : Nat, phone : BOOLEAN,
    course : Courses \cup {None} ]

ExamStates == {"draft", "upcoming", "open", "closed"}

ExamState(row, at) ==
  IF row.status = "DRAFT" THEN "draft"
  ELSE IF row.status = "CLOSED" THEN "closed"
  ELSE IF row.opens # None /\ at < row.opens THEN "upcoming"
  ELSE IF row.closes # None /\ at >= row.closes THEN "closed"
  ELSE "open"

\* Mutant of AtLeastFloor: the 60-second floor forgotten.
Unfloored(ticks) == ticks

AtLeastFloor(ticks) == IF ticks < MinSitting THEN MinSitting ELSE ticks

\* The length of a sitting begun at `at`: the duration clipped to the closing
\* time, the closing time itself when untimed, None when nothing bounds it.
SessionTicks(row, at) ==
  LET full == AtLeastFloor(row.duration)
      left == row.closes - at
  IN  IF row.closes = None
      THEN IF row.timed THEN full ELSE None
      ELSE IF row.timed /\ full < left THEN full
      ELSE AtLeastFloor(left)
============================================================================
