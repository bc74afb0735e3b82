-------------------------- MODULE SittingStore --------------------------
(***************************************************************************)
(* The tables a sitting touches and the store functions over them          *)
(* (original/store.py; original/postgres_repository.py has the same        *)
(* contract).  One store function is one committed transaction, so it is   *)
(* one atomic change here.                                                 *)
(*                                                                         *)
(* A submission_uuid is minted by one booklet, for one student and one     *)
(* exam: Owner[u] is that <<exam, student>> pair.                          *)
(***************************************************************************)
EXTENDS BluebookRules, FiniteSets

CONSTANTS
  Exams, Students,
  Uuids,        \* submission_uuids that clients may mint
  Owner,        \* [Uuids -> Exams \X Students]
  ExamRows,     \* the rows a teacher may store for an exam
  StoreFaults   \* may a store call fail (database down, locked too long)?

ASSUME OwnerAssumption == Owner \in [Uuids -> Exams \X Students]
ASSUME ExamRowsAssumption == ExamRows \subseteq ExamRow
ASSUME StoreFaultsAssumption == StoreFaults \in BOOLEAN
ASSUME UuidsAssumption == IsFiniteSet(Uuids) /\ None \notin Uuids

VARIABLES
  exam,      \* bluebook_exams: [Exams -> ExamRows or None]
  session,   \* bluebook_sessions: the pinned deadline per sitting, or None
  draft,     \* bluebook_exam_drafts: does a row exist for the sitting?
  sub,       \* bluebook_submissions, by submission_uuid
  cleared,   \* sittings whose phone row carries parked_at or override_at
  enrolled,  \* bluebook_enrollments: <<course, student>> pairs
  now        \* the server's clock

tables == <<exam, session, draft, sub, cleared, enrolled>>

Sittings == Exams \X Students

\* one: written under the one-sitting rule; asked: the clock when the request
\* arrived; held: the deadline pinned for the sitting by then; at: created_at.
Submission ==
  [ one : BOOLEAN, late : BOOLEAN, asked : Nat, held : Nat \cup {None}, at : Nat ]

ASSUME NoRecordAssumption == None \notin ExamRows /\ None \notin Submission

StoreTypeOK ==
  /\ exam \in [Exams -> ExamRows \cup {None}]
  /\ session \in [Sittings -> Nat \cup {None}]
  /\ draft \in [Sittings -> BOOLEAN]
  /\ sub \in [Uuids -> Submission \cup {None}]
  /\ cleared \subseteq Sittings
  /\ enrolled \subseteq Courses \X Students
  /\ now \in Nat

StoreInit ==
  /\ exam \in [Exams -> ExamRows]
  /\ session = [k \in Sittings |-> None]
  /\ draft = [k \in Sittings |-> FALSE]
  /\ sub = [u \in Uuids |-> None]
  /\ cleared = {}
  /\ enrolled = Courses \X Students
  /\ now = 0
-----------------------------------------------------------------------------
(* Reads.  get_bluebook_exam, get_bluebook_session and                      *)
(* get_bluebook_submission_by_uuid log an exception and return None, so a   *)
(* failing read is indistinguishable from an absent row; every other store  *)
(* call raises.                                                             *)

FailOpen(value) == {value} \cup (IF StoreFaults THEN {None} ELSE {})

GetExam(e) == FailOpen(exam[e])
GetSession(k) == FailOpen(session[k])
GetByUuid(u) == FailOpen(sub[u])

\* list_bluebook_submissions_for_student, filtered by exam_id
SealedFor(k) == \E u \in Uuids : sub[u] # None /\ Owner[u] = k

\* list_bluebook_submissions_for_exam is not empty
SealedOn(e) == \E u \in Uuids : sub[u] # None /\ Owner[u][1] = e

\* count_bluebook_submissions_since the start of the month (no month passes)
SubmissionCount == Cardinality({u \in Uuids : sub[u] # None})

IsEnrolled(row, s) == row.course = None \/ <<row.course, s>> \in enrolled
-----------------------------------------------------------------------------
(* Writes.                                                                  *)

\* Mutant of GetOrCreateSession: a later start pins again.
RestartingPin(k, ticks) == session' = [session EXCEPT ![k] = now + ticks]

\* INSERT ... ON CONFLICT DO NOTHING: the first call pins the deadline.
GetOrCreateSession(k, ticks) ==
  session' = [session EXCEPT ![k] = IF @ = None THEN now + ticks ELSE @]

PutSubmission(u, row) == sub' = [sub EXCEPT ![u] = row]

PutDraft(k) == draft' = [draft EXCEPT ![k] = TRUE]

DeleteDraft(k) == draft' = [draft EXCEPT ![k] = FALSE]

\* Read, then INSERT OR REPLACE: of a scan and an override that cross, one may
\* overwrite the other's field, but a row that is written carries at least one.
PutPhonePark(k) == cleared' = cleared \cup {k}

\* The whole row is upserted, so a row deleted meanwhile is inserted again.
PutExam(e, row) == exam' = [exam EXCEPT ![e] = row]

\* The exam and what hangs off it before a seal, in one transaction.
DeleteExam(e) ==
  /\ exam' = [exam EXCEPT ![e] = None]
  /\ session' = [k \in Sittings |-> IF k[1] = e THEN None ELSE session[k]]
  /\ draft' = [k \in Sittings |-> k[1] # e /\ draft[k]]
  /\ cleared' = {k \in cleared : k[1] # e}
============================================================================
