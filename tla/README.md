# A TLA+ model of Collections (the Bluebook exam layer of Original)

The repository holds a FastAPI service (`original/`) with a SQLite or Postgres
store, and static front ends (`demo/`). The service does two things: it lets
students sit written examinations ("Bluebook", shown to users as Collections),
and it compares writing with a student's baseline ("Original"). The second is
numerical text analysis; the first, and everything that feeds the second, is a
concurrent protocol between browsers, a pool of request threads and a database,
and this is what these modules model.

All paths below are relative to `src/`.

## 1. Inventory

| Component | Code | State it keeps | Operations | Talks to |
|---|---|---|---|---|
| A student's sitting | `original/routers/bluebook.py`, `bluebook_accounts.py` (`my_exam_start`) | `_ONE_SITTING_LOCK`, and per request the handler's locals | start by launch link, start from the dashboard, get/put draft, seal, replayed seal | the store, the rules, phone parking |
| Sitting tables | `original/store.py`, `postgres_repository.py` | exams, sessions (pinned deadlines), drafts, submissions, phone parks, enrolments | one committed transaction per function | every route |
| Availability rules | `original/bluebook_rules.py` | none | `exam_state`, `session_seconds`, option and answer checks | the routes |
| Exam administration | `original/routers/bluebook.py` | none of its own | create, PATCH, release, delete exam; courses; feedback | the store |
| Phone parking | `original/routers/phone_park.py` | `_last_beat` | scan, beat, status, override | both start routes |
| Accounts and rosters | `bluebook_accounts.py`, `invites.py`, `join_links.py`, `users.py`, `routers/auth.py` | users, invites, join links, enrolments | roster add/remove, invite issue/redeem, join link enable/regenerate/disable, join | the sitting reads enrolments |
| Booklet client | `demo/bluebook/Exam.jsx` | device draft, `sealingRef`, the seal's uuid | push draft, resume, seal with retries | the sitting routes |
| Baselines | `routers/students_baseline.py`, `bluebook_baselines.py`, `past_papers.py`, `consumed_attestations.py` | one JSON document per student, attestation ledger, shared papers | add, approve, decline, remove, erase | submissions, baseline requests |
| Baseline requests | `baseline_requests.py` | in-memory registry with a lock, written through outside it | record, expire, complete, fail, purge, hydrate | baselines |
| Shadow repository | `repository.py` | two stores | every write twice, shadow failures swallowed | all |
| Formation pathway | `store.py`, `routers/students.py`, `me.py` | rows with a status and a step | open, advance | erasure |
| Phone tiles | `routers/proctor.py` | a session with a token, beats under it | open, beat, close, purge | none |
| Calibration, thresholds | `store.py`, `lab/runner.py`, `routers/admin.py` | rows with a status | start/complete/fail, append | scoring |
| Sign-in, tenancy, throttle | `routers/auth.py`, `_shared.py`, `principal.py` | failure windows, caches | sign in, throttle | all routes |
| Scoring engine | `features/`, `quantum/`, `context/`, `fusion/` | caches | numeric | baselines |
| Imports, LTI, mail, operations, CLI | `routers/imports.py`, `lti.py`, `mailer.py`, `backup.py`, `cli/` | outside services | I/O | |

**What makes a sitting hard.** The handlers are plain `def` functions, so
FastAPI runs each in a thread of a pool; `render.yaml` and `_ONE_SITTING_LOCK`
rely on there being one worker process. A handler makes up to eight store calls,
each its own transaction, and between two of them anything may happen: another
tab of the same student, a teacher's PATCH or DELETE, the clock, a restart.
Some reads answer "no row" when the database fails (`get_bluebook_exam`,
`get_bluebook_session`, `get_bluebook_submission_by_uuid`), the other calls
raise, and a client that hears nothing retries with the same
`submission_uuid`.

**What makes it correct.** One recorded seal per student and stored exam; a
deadline pinned once; nothing begun or sealed before the exam was open; no
sitting without the phone where the teacher asks for it; a late tag that is
fair; a draft that is not lost before its seal; answers to the client that
stay true; requests that are all answered.

For the other components what makes them correct is: no edit that is silently
undone, caps that hold (administration); a clearance that a beat does not take
back (phone parking); links that work once, a removal that revokes them, a
password that is not overwritten (accounts); no sample lost, counted twice or
given proctored weight on a spent attestation, an erasure that leaves nothing (baselines);
memory and table that agree (baseline requests); a student with one pathway and
as many steps as sessions (formation); tiles that go with their session (proctor
tiles); a client that never drops the only copy of the writing, and a seal that
is recorded in the end (booklet).

`PROJECT.json` lists each place where this goes wrong without a test noticing
("hazards"), with the properties that watch it.

## 2. The modules

| Module | Models | Extends |
|---|---|---|
| `BluebookRules` | `exam_state`, `session_seconds` | Integers |
| `SittingStore` | the six tables and the store functions over them | `BluebookRules` |
| `Sitting` | the routes, request by request, thread by thread; their properties | `SittingStore` |
| `SittingPromise` | the abstract promise: pin, forget, record, confirm, refuse | Naturals |
| `SittingProofs` | types, the lock, one seal, answers, drafts, the refinement | `Sitting`, TLAPS |
| `SittingWindowProofs` | what a sitting began on: opening, phone, late tag | `SittingProofs` |
| `MCSitting` | small instances for TLC | `Sitting`, TLC |
| `BaselineRequests` | the registry of baseline requests, its table and its cache | Naturals |
| `Baseline` | a student's baseline and the routes that change it, erasure | `BaselineRequests` |
| `BaselineProofs` | types, replay guard, registry, erasure | `Baseline`, TLAPS |
| `BaselineTrustProofs` | attestations and approved papers | `BaselineProofs` |
| `WorkspaceStore` | the tables that people and desk share, threads | Naturals, Sequences |
| `Accounts` | rosters, invites, join links, sign-up, erasure | `WorkspaceStore` |
| `Desk` | courses, exams, parked phones | `WorkspaceStore` |
| `Formation` | formation pathways | `WorkspaceStore` |
| `Tiles` | the proctor's wall of phone tiles | `WorkspaceStore` |
| `Workspace` | the four composed: histories, requests, failures, properties | the four |
| `WorkspaceProofs` | types, and what each step of a handler can change | `Workspace`, TLAPS |
| `WorkspaceDeskProofs` | tiles, exams and courses, phones, pathways | `WorkspaceProofs` |
| `WorkspaceRosterProofs` | invites, links, accounts, removals, caps | `WorkspaceProofs` |
| `Booklet` | the student's browser, the network, the server as promised | Naturals |
| `BookletProofs` | the theorems about `Booklet` | `Booklet`, TLAPS |
| `MCBaseline`, `MCWorkspace`, `MCBooklet` | small instances for TLC | each its module |

**Rules.** Time is counted in ticks. `ExamState` follows the code's order of
tests; statuses are `DRAFT`, `CLOSED` (also for ARCHIVED) and `LIVE` (any other
word a teacher may store). `SessionTicks` is `session_seconds`, with the
60-second floor as the constant `MinSitting` and "no deadline" as `None`.

**Store.** A table is a function from its key: `exam`, `session`, `draft`,
`sub`; `cleared` is the set of sittings whose phone row carries `parked_at` or
`override_at`; `enrolled` the roster. The content of drafts and submissions is
left out. A uuid is minted by one booklet for one student and exam, given by
the constant `Owner`. A submission keeps whether it was written under the
one-sitting rule, its late tag and, as history, when the request arrived and
which deadline the sitting had by then. Both back ends have the same contract;
`StoreFaults` allows each call to fail the way the code lets it.

**Routes.** `pc[t]` names the store call thread `t` makes next, `loc[t]` holds
the handler's locals and `req[t]` the request. `Begin` hands a request to a
thread; then there is one action per store call, in the code's order, each with
the guards and early returns that precede the next call. `StoreRaises` is the
500 of a call that raises, leaving the `with` block on its way. `Crash` empties
the threads and the lock and keeps the tables. `versions` (every row an exam ever
had), `acked` and `turnedAway` (the answers given) are history: no action of
the routes reads them.

| Route | Actions |
|---|---|
| `POST /bluebook/exams/{id}/session` | `LaunchExam` .. `LaunchTicks`, `Pin` |
| `POST /bluebook/me/exams/{id}/start` | `DashExam` .. `DashCleared`, `Pin` |
| `GET`, `PUT /bluebook/exams/{id}/draft` | `DraftExam` .. `DraftWrite` |
| `POST /bluebook/submissions` | `SealExam` .. `SealDrop` |
| `POST /bluebook/phone-park/scan`, `.../override` | `ParkExam`, `ParkWrite` |
| `PATCH /bluebook/exams/{id}` (and release, which has its shape) | `PatchExam`, `PatchWrite` |
| `DELETE /bluebook/exams/{id}` | `DeleteRead`, `DeleteList`, `DeleteWrite` |
| roster add and remove, as the sitting sees them | `ChangeRoster` |

**The abstract specification.** `SittingPromise` knows no threads, locks or
requests. `RecordSitting(u)` asks that no other work of that student and exam
was recorded as a sitting; `Confirm` and `Refuse` ask that the work they
speak of is on record; `Pin` that there is no deadline yet. `Sitting` maps
`session` to deadlines, `sub` to recorded work, `acked` and `turnedAway` to
answers, and `KeepsPromise` says it implements the promise.

**Baselines.** `profile` is the student's document: its samples in order, each
with its text, its provenance and, as history, the attestation it was trusted on.
Three of the four provenances are trusted (`Trusted`): staff and holders of an
attestation get the one they ask for, others are downgraded. The ledger is entered
for "proctored" alone (`Judge`, `Consume`, `Spent`). A handler reads
all of it (`Get`), works on its copy (`Judge`, `Consume`), puts all of it back
(`Put`) and then completes the requests it answers (`Complete`). A batch goes
round that loop once per text. What an extractor measures is left out: of the
drift gate the model keeps where it stands and that it may refuse a text or not.
`BaselineRequests` keeps apart what the code keeps apart: the objects (`obj`),
which of them the cache lists (`listed`, `hydrated`), and the table (`row`). A
change is made in memory under the lock, the snapshots are persisted after it,
one thread step each (`PersistThen`). `Crash` forgets threads and cache.

| Route | Actions |
|---|---|
| `POST /students/{id}/baseline`, `.../batch`, Canvas import | `Get`, `Create`, `ReadHashes`, `Judge`, `Consume`, `Put`, `Complete` |
| approval of one or several sealed exams | `Rows`, `ReadRow`, then as above |
| past papers: share, approve, decline | `InsertPaper`, `ReadPaper`, then as above, `SetPaperStatus` |
| removal of an exam's sample | `ReadRemove`, `Get`, `Put` |
| baseline request, its list | `Note`, `CallBbook`, `List`, `Persist` |
| `DELETE` of a student, from both products | `EraseCheck`, `Wipe`, `Purge` |

**Workspace.** The same threads, store calls and failures, over accounts,
invites, links, courses, rosters, exams, parked phones, pathways and tiles.
Each table operator of `WorkspaceStore` is one function of `store.py`. A
`Scenario` says what there is at first (how far each student has come, which
exam is there), which requests may follow and how many: the state space is the
sum of the scenarios and not their product. `want` (what an exam's row should
be after the writes so far), `given` and `uses` are history.

| Route | Actions |
|---|---|
| `POST`, `DELETE /bluebook/courses/{id}/students`, invites again | `OwnedCourse` .. `Enrol`, `Void`, `Issue`, `Unenrol`, `Member` .. `Holders` |
| redeem an invite, reset and change a password | `Look`, `Redeem`, `Owner`, `ResetRequest`, `Verify`, `SetPassword` |
| join link: enable, regenerate, disable; both ways to join | `ReadActive`, `VoidCourseLinks`, `PutCourseLink`; `FindLink`, `Target`, `ReadAccount`, `Me` |
| exams and courses: create, PATCH, release, delete | `CreateExam` .. `DeleteExam`, `ReadCourse` .. `DeleteCourse` |
| phones: scan, beat, override | `Since`, `Parked`, `ReadPark`, `WritePark` |
| formation: open, advance, the student's own | `Mine`, `ReadOpen`, `OpenPathway`, `Reach`, `StepOn` |
| tiles: open, beat, close | `Purge`, `ReadWall`, `OpenWall`, `ReadToken`, `Beat`, `OwnedWall`, `CloseWall` |

**Excuses.** Nothing locks these read-then-write handlers, so some properties
fail in the crossings that the code accepts. `lost` records, at the write that
does it, that such a thing has happened ("stale exam": a row was put over one its
writer had not seen; "rush": two requests were let in by one count; "fault": a
store call failed). A property is then stated for histories without the
excuses it names, and only those: it says exactly which accidents can break
it, and that none of the others can. `InviteOnce`, `NoTextTwice` and the first
two parts of `PathwaysCount` need no excuse at all.

**Booklet.** `page[p]` is a tab of `Exam.jsx`, `draft[b]` the localStorage entry
that all tabs of one browser share, `record` and `copy` what the server holds.
A text is known by the moment it was written, a seal by its uuid. The
server is one step (`Serve`): the first seal is recorded, a repeat confirmed,
any other refused, which is what `SittingPromise` says and `Sitting` implements.
A seal that its page has given up on stays in `late` and may still arrive.
Storage that fails, answers that do not come, reloads and lost connections are
faults, bounded by the history. `kept` (what the student last wrote or
confirmed on a browser) and `sent` are history.

| `Exam.jsx` | Actions |
|---|---|
| opening, resuming, leaving | `Open`, `StartAnswered`, `Fetched`, `Close` |
| typing, saving, pushing | `Type`, `Save`, `Push` |
| sealing (`handleSubmit`) | `Confirm`, `ExpireEmpty`, `Attempt`, `Answered`, `Unanswered`, `Refused` |
| the network | `SealArrives`, `GoOffline`, `GoOnline` |

## 3. What the runs check

Every `sitting` run has one exam and one student with two booklets (`u1`, `u2`: two
tabs), except `sitting_window` with one, whose properties speak of a single
sitting and a single seal. That is enough for the rules, which are all per sitting; a second exam or student
would only share the lock, whose discipline does not depend on whom
it keeps out, and the theorems hold for any number of them.

| Run | Instance | Checks |
|---|---|---|
| `sitting_seal` | 3 threads, 4 requests, failing store, 1 restart; seal, drafts, launch, delete; exam always open | `LockDiscipline`, `CheckStillHolds`, `OneSealPerSitting`, `AnswersAreTrue`, `DraftKeptUntilSealed`, `KeepsPromise` |
| `sitting_window` | 2 threads, 3 requests, 4 ticks, margin 1; both starts, seal, PATCH of the window | `TypeOK`, `NothingBeforeOpening`, `LateTagIsFair`, `DeadlinePinned` |
| `sitting_gate` | 2 threads, 4 requests; draft/live/closed, phone on/off, roster flips, free-tier cap 1; both starts, seal, PATCH, scan, override | `NothingBeforeOpening`, `PhoneClearedFirst` |
| `sitting_live` | 2 threads, 4 requests, fair threads; seal, drafts, launch | `RequestsAnswered`, `StaleDraftPurged` |
| `baseline` | 2 threads, 3 requests of 15, failing store, 1 restart; 3 texts, 1 attestation, 1 shared paper, 2 sealed exams, 1 baseline request | `TypeOK`, `AttestationOnce`, `NoTextTwice`, `ApprovedIsCounted`, `SpentOnASample`, `TableFollowsCache`, `ErasedLeavesNothing`, `SettledStaysSettled` |
| `workspace` | 2 threads, 2 to 4 requests in each of 20 histories, one failing call; 4 students, 2 courses, 2 exams, caps of 2 students and 1 exam, 3 invites, 2 links, 2 sessions to a pathway | `TypeOK`, `InviteOnce`, `RemovalRevokes`, `InvitedHasLink`, `JoinOwnsAccount`, `OneActiveLink`, `CapsKept`, `EditsKept`, `ExamOnCourse`, `ClearanceKept`, `PathwaysCount`, `TilesGoWithSession`, `TokenStands` |
| `booklet` | 1 page, 2 pages of one browser, 2 browsers; 2 attempts; up to 2 texts, 2 seals, 3 faults; fair | `TypeOK`, `WritingKept`, `OneTextPerSeal`, `TypingStands`, `FinalIsRecorded` |
| `sitting_retry`, `sitting_orphan`, `sitting_failopen` | as `sitting_seal`, 2 threads | three claims of the code's comments that do not hold (below) |
| `baseline_unverified`, `baseline_attestation` | as `baseline` | two more (below) |

*Bounds.* `MaxRequests` (requests received), `MaxTime` (clock), `MaxCrashes`
(restarts) and the number of `Threads` bound an instance; `MonthlyCap` stands for
500 and `Grace` for 300 seconds. Three threads let one seal hold the lock,
one wait for it and a third (a deletion, a save, a retry) run between; four
requests are two seals, a retry and one of the others. Four ticks cover
before opening, open, closed, and past deadline plus margin. Three requests in
`sitting_window` are a start, a PATCH and a seal, or two starts and a seal.
Only `Begin`, `Tick` and `Crash` are bounded, so no handler is ever cut short.
`SYMMETRY` permutes the threads, which no constant tells apart; it is not used
for liveness. Where no roster changes, an instance stops when its last request
is answered, so those runs do not check for deadlock: that no request waits for
ever is what `RequestsAnswered` shows.

*Bounds of the others.* A read-then-write handler is broken by one other writer
between its read and its write, so two threads are enough for each pair of
handlers; the third and fourth request make the state that the pair meets or
show what it left behind (an issue, a removal, a redemption; two openings and
two steps). In `baseline` every choice of three of the 15 requests is tried.
`workspace` groups requests that touch the same rows. The caps are reached by two
additions at once, by a sign-up and by an invite that outlives its course.
`FormationSteps` stands for 3: with 2, a pathway is completed, and written
again by a step that had read it before, within four requests. `MaxInvites` and
`MaxLinks` stop an issue that would exceed them, which no history with four
requests needs to. In `booklet` `Attempts` stands for 5: one retry already
separates the first attempt from the last. Two texts let an older one come back,
two seals let two tabs race, and the fault bound differs between the
histories so that their sum stays within minutes. The three runs may stop when
the last request is answered, so deadlock is not checked there.

*Fairness.* `FairSpec` asks weak fairness of each thread's next step: the pool
schedules a thread that can run. The lock of Python is not fair, and none is
assumed of it: a thread waiting for it has its step disabled while it is
held, and as requests are finite its last holder eventually leaves it free for
good. Arrivals, the clock, restarts and roster changes carry no fairness. The
live run has no store failures: a draft purge that raises answers 500 and the
draft then stays until the next read.

`Booklet` has its own: the connection comes back in the end, a page that is
sealing makes its next attempt (a timer of the page), and an attempt that is out
is answered or given up. Last, a student whose answers are final comes back to
them (`ComesBack`): the outcome screen offers to try again and the home screen
reopens a sitting in progress. This one is an assumption about people; it is
needed because the booklet gives up after its last retry and does nothing
more by itself. Typing, confirming, closing and the faults carry no fairness.

*Mutants.* Each property has a mutant of the model, kept next to the
definition it alters ("Mutant of ..."): a seal that skips the lock, a check of
its own uuid only, a lock left behind, a cascade that takes the submissions,
a draft dropped before the insert, a start that restarts the clock, a start
that forgets the phone, a forgotten margin, a missing floor; a replay guard that
compares supervised samples only, an attestation trusted on replay or spent
before the drift gate, a decline that goes by what it read before, an erasure
that skips the cache, a snapshot that persists the status only; an invite
redeemable after use, a removal that voids nothing, a sign-up that takes over an
account, a cap off by one, a PATCH that forgets the release or the course, a
phone row replaced and not merged, a pathway one session short, a token minted
anew; a draft cleared whatever the answer, a final draft reopened for
editing or only shown; and others. TLC finds each
of them to violate the property it stands beside.

*Findings.* Five claims in comments and docstrings are not kept:

1. `RetryGetsItsRowBack` ("a retried seal ... gets the first row back",
   `routers/bluebook.py:341`). The replay lookup runs before the lock. A retry that
   arrives while the first request is still on its way finds no row, waits for the
   lock, then finds its own row as "another" submission and is answered 409.
2. `NoOrphanedSeal` (`store.py:3062`, `routers/bluebook.py:893`). The deletion
   lists and deletes in two transactions outside the lock; a seal that read
   the exam before can be recorded between them, or after them.
3. `OneSubmissionPerStoredExam` (`routers/bluebook.py:341`). `get_bluebook_exam`
   answers None when the database fails; the seal then takes the exam for a
   sample id, skips the rule, and a second tab's work is recorded as well. What
   does hold is `OneSealPerSitting`, about the rows written under the rule.

4. `OnlyTrustedCompletes` (`routers/students_baseline.py:254`: "an unverified
   self-upload doesn't satisfy a 'proctored baseline' request"). The call is
   guarded by `auth_weight > 0`, and `AUTH_WEIGHTS` gives "unverified" 0.5
   (`constants.py:690-695`), so it always passes. The drift gate's comment (173-176)
   rests on the same assumption.
5. `AttestationForOneDocument` (`routers/students_baseline.py:589`: "a proctor
   attestation authorizes ONE document, so a batch trying to admit several under
   the same attestation must only honor the first"). An attestation lets a student
   keep "verified" and "canvas" as well as "proctored" (`_shared.py:446`, 487-489),
   but only a proctored sample is entered in the ledger (101). A batch sent as
   "verified", the form's default, stores each of its texts at weight 1.0 under
   one attestation. What does hold is `AttestationOnce`, about proctored weight.

*What else the models show*, most of it without a text that promises otherwise; the
properties name each as an excuse or leave the case out by name:

* An approval and a decline of one paper that cross can leave it declined and
  in the baseline.
* A student who has nothing but a pending baseline request is not found by the
  erasure (`store.py:1871-1882`), and the request's row stays. A listing that
  runs between the erasure's commit and its purge persists an erased row again.
* Deleting a course leaves its unredeemed invites live. Redeeming one
  (`auth.py:211`) checks neither course nor cap: the student is then on a course
  that is gone, counts toward the cap, and only erasure takes them off.
* A removal that fails between its two store calls leaves the link live, and
  cannot be repeated: the enrolment is gone, so the route answers 404.
* Removing a student from one course voids their links to all others.
* Two sign-ups of one new student can both insert: the second then sets its
  password over the first's.
* Two requests to enable a join link leave two active ones.
* `find_active` compares the stored sha256 of a join link's token, which no
  secret enters: links handed out before `SECRET_KEY` was rotated go on admitting,
  though `join_links.py:13` says that rotating breaks them. Only the teacher's view,
  which derives the token again, finds the link broken (`Rotate`).
* `list_bluebook_exams` answers [] when it fails, so a course is deleted under its
  exams, or an exam created above the cap.
* Two openings of a pathway leave a student with two; a step that read an
  earlier row reopens a pathway that was completed meanwhile, after its
  review flag was cleared.
* A beat that was under way when its tile session was closed, purged or
  replaced stays in `park_beats` for good: `park_purge` goes by the tokens in
  `park_sessions`. The store's privacy note says rows purge after 24 hours.
* Two tabs of one browser share one draft: the periodic save of an idle tab
  (`Exam.jsx:1206`) overwrites what the other made final, and an empty tab whose
  time runs out (938-943) erases it. Idle saves also renew the draft's time, so
  an older text can look newer than another browser's copy on the server.

## 4. What is proved

Every safety property of every passing run is also a theorem: it holds for all values of
the constants that satisfy the named assumptions, of any number of threads,
people, exams and requests, with or without store failures, of any bounds and
histories. An excuse in a property (section 2) is part of what its theorem says; where a
theorem asks for more, it is said here.

### The sitting

| Theorem | Property |
|---|---|
| `TypeCorrect` | `TypeOK`, including that a pinned deadline is never negative |
| `LockIsDisciplined` | `LockDiscipline` |
| `CheckIsNotStale` | `CheckStillHolds` |
| `OneSealEver` | `OneSealPerSitting` |
| `AnswersEverTrue` | `AnswersAreTrue` |
| `DeadlineStaysPinned` | `DeadlinePinned` |
| `DraftEverKept` | `DraftKeptUntilSealed` |
| `RoutesKeepPromise` | `KeepsPromise`, the refinement |
| `NothingStartsEarly` | `NothingBeforeOpening` |
| `PhoneSeenToFirst` | `PhoneClearedFirst`, where no exam is deleted |
| `LateTagsAreFair` | `LateTagIsFair`, where no exam is deleted and no call fails |

*Type correctness* needs to know that a handler has its exam's row where it
uses it and that its request has the right kind; `FramesOK` says so and is part
of `TypeOK`. Each route's steps are one lemma (`LaunchStepTyped`, ...).

*One seal per sitting* is not inductive: nothing in it says why the insert is
safe. `OneSealInv` adds that the check still holds at the insert
(`CheckStillHolds`), and this adds that whoever is between check and insert
holds the lock (`LockDiscipline`): an insert by another thread under the rule
would need the lock too. The steps that touch neither lock, nor submissions,
nor the guarded section are dealt with in one lemma (`ElsewhereKeepsOneSeal`),
the others one by one (`GuardedStepsKeepOneSeal`).

*True answers and kept drafts* need that a thread about to drop a draft, or to
confirm, does so for work on record. `DropsAreSafe` says it of the program
points `draft_purge` and `seal_drop`; it is inductive because
submissions are never removed in this model (`SealsStaySealedFor`). The refinement
then uses both invariants: a rule-abiding insert is `RecordSitting`, any other
`RecordLoose`, and each answer a `Confirm` or a `Refuse`.

*What a sitting began on* is a matter of stale reads: the exam's row in a
handler's hands need not be the stored one any more. `MemoryInv` says that it is
some version the exam had, and that clock and versions only go forward, so that
what such a row once showed stays shown. `WindowInv` adds, per program
point, that the opening was seen before the deadline is pinned and before
the seal's insert; `PhoneInv` that the phone was, or that some version did
not ask for it. The phone rows go with a deleted exam, and so does the
deadline: hence the first condition on the last two theorems. `LateInv` follows the
deadline that `loc` holds from its read to the insert; a read of the session
that fails tags by another deadline than the student's, hence the second.

*Assumptions.* `None` is no integer, row, uuid, submission or thread; every
patch of a stored row yields a storable row; `Uuids` is finite; `MinSitting`
is positive, `Grace` natural.

### The booklet

| Theorem | Property |
|---|---|
| `BookletTypeCorrect` | `TypeOK` |
| `SealedTextIsFixed` | `OneTextPerSeal` |
| `NothingWrittenIsLost` | `WritingKept` |
| `TypedTextStands` | `TypingStands` |

That two sends of one seal carry one text does not follow from what was sent:
the next send comes from a page, a page gets its text from a draft, and a
draft from another page. `OneTextInv` therefore speaks of all the places where a
final text can be (`Finals`: pages, drafts, what was sent): those with one seal
agree, their seals are ones already given out, and a page that seals has one.
A new seal is larger than any of them; every other step moves a final
text or drops it (`NoNewFinals`). `WritingKept` is then inductive with it:
a draft is removed only by the page whose seal was confirmed, and then there is
a record, or by an empty page, which records the excuse. `TypingStands` is an action
property; its steps are those that change a page's text.
Assumed: `Bound` and `Attempts` are naturals, `Attempts` is positive,
`None` is no writing, and the scenarios have the shape of `Scenario`.

### The baselines

| Theorem | Property |
|---|---|
| `BaselineTypeCorrect` | `TypeOK` |
| `NoTextCountedTwice` | `NoTextTwice` |
| `SettledForGood` | `SettledStaysSettled` |
| `ErasureIsComplete` | `ErasedLeavesNothing` |
| `CacheWrittenThrough` | `TableFollowsCache` |
| `AttestationCountsOnce` | `AttestationOnce` |
| `AttestationFindsSample` | `SpentOnASample` |
| `ApprovedPaperCounts` | `ApprovedIsCounted` |

`TypeInv` adds to the types what each program point of a handler has
established (`FramesOK`), that no document repeats a keyed text, and what the registry
knows (`RegistryInv`): a row, a snapshot or a handler has its object, and an id
being noted is new and nobody else's. The replay guard then is an argument about one
thread: whatever others put meanwhile, it compares with the very copy it
appends to and puts back.

`TrustInv` is about what a copy has to do with the document. `LedgerInv` says of
the document *and of every copy* that an attestation has at most one proctored sample there
and has been spent for it; a sample whose attestation is about to be spent does
not count yet (`Solid`). `FreshInv`: a copy that nobody has overtaken extends
the document. `SpentInv`: a spent attestation has its sample in the document or in a
copy on its way there, and a put that has not been overtaken loses none,
because of `FreshInv`. `PaperInv` follows the text of a paper from the judgement to
the row that says "approved".

`TableInv` is the same argument for the registry: where table and cache disagree on a
request, some handler still owes the snapshot of its present state. `EraseInv`
carries what the wipe left to the purge of a handler that is alone.

Assumed: `None` is no token, status, document or object; papers have a text;
sealed exams are texts; requests have the shapes their routes accept (an import from
Canvas is sent by staff and asks for "canvas").

### The workspace

| Theorem | Property |
|---|---|
| `WorkspaceTypeCorrect` | `TypeOK` |
| `TilesGo`, `TokenStays` | `TilesGoWithSession`, `TokenStands` |
| `EditsStand`, `ExamsOnCourses` | `EditsKept`, `ExamOnCourse` |
| `ClearanceStays` | `ClearanceKept` |
| `PathwaysAreCounted` | `PathwaysCount` |
| `InvitesAreOnce` | `InviteOnce` |
| `LinksAreOne` | `OneActiveLink` |
| `SignUpsOwnAccounts` | `JoinOwnsAccount` |
| `RemovalsRevoke` | `RemovalRevokes` |
| `InvitedStudentsHaveLinks` | `InvitedHasLink` |
| `CapsAreKept` | `CapsKept` |

`WorkspaceProofs` says once what all the others use: which routes reach a program point
(`Routed`), what a handler has there (`Framed`), and what a step changes in the jobs
(`Follows`, `Kept`). Each property is then a question of what a handler
that has read, and not yet written, may rely on. A job is `fresh` until another
thread writes what it has read; a stale write records its excuse, so each
invariant says what is so *as long as the job is fresh*:

| Invariant | What it adds to the property |
|---|---|
| `WallInv` | an opening about to mint a token has seen no live session |
| `EditsInv` | a copy is what its request makes of the row that is there |
| `CourseInv` | a copy's course exists; a course being deleted has no exams |
| `ParkInv` | a copy of a phone's row is its change to the row that is there |
| `PathInv` | a row's step and sessions agree; a step knows its row's; an opening has seen no open pathway |
| `OnceInv` | what is voided or redeemed stays so, and every invite an issue voided before is `Settled` |
| `LinkInv` | a handler about to put a link sees none active |
| `SignUpsOwn` | from its insert on, a sign-up's account bears its mark |
| `RevokeInv` (with `CoursesInv`) | a handler about to send a link has its student on the roster (`Relies`); a live link off the roster has a removal about to void it; names of courses are not used again |
| `ServedInv` | a student is served by a live link, a password, or a request that is bound to give them one; every request that claims to have served its student has |
| `SeatsInv` | at most one request was counted in, and there is room for all of its students |
| `ExamsInv` | the same for a new exam; other writes are of exams that are there |

`InvitedHasLink` and `RemovalRevokes` speak of moments when no request is under
way. Their invariants cannot: they say which request still owes the link
(`Claim`, `ServedNow`) or the revocation (`Relies`), and at a quiet moment there is none.
`CapsKept` rests on `rush` as an excuse: without it, two requests counted at
once are both let in, as the code does.

Assumed: the sets of students and exams are finite (they are counted); `None` is
no number, name or row; a history starts within its caps and with exams on
courses, and its requests have the fields their routes read (a reset of a password
names no course); at most one student has an invite out when it starts, all others are
sent by requests.

### What TLC alone shows

* Liveness: `RequestsAnswered` and `StaleDraftPurged` of the sitting, `FinalIsRecorded`
  of the booklet. TLAPS proves nothing under fairness or about ENABLED.
* The five counterexamples: a claim is refuted by one run, not by a proof.
* That the instances reach what the theorems speak of: no excuse is always
  there, and the mutants break each property. A theorem would be as true of a model
  that never moved.

## 5. What is left out, and why

* **Staff in the same routes.** A teacher previewing an exam, or recording a
  submission, is outside the one-sitting rule by design.
* **Who the caller is.** Sessions, tenants and tokens decide whether a
  request reaches the modelled part; every request here has passed them.
* **Seals without a `submission_uuid`**, or for exam ids that are not stored:
  older clients and samples; the one-sitting rule or the replay does not apply.
* **Refusals of malformed input** (413, 422): they change nothing.
* **Erasure of a student** removes submissions and deadlines, which the
  properties of `Sitting` take to be permanent; it is modelled against the
  baselines and the workspace, where it does its damage.
* **Phone beats and re-created rows after a deletion** in the sitting runs: no
  instance of `PhoneClearedFirst` deletes an exam, whose phone rows go with it.
  `Desk` models both.
* **A workspace with Original** also keeps a profile row and a display name per
  enrolled student; `Workspace` is one without, `Baseline` has the document.
* **Feedback** on a submission is written for the student to read and decides
  nothing. **Location and display settings** likewise.
* **Throttles** (sign-in, beats, tiles) only refuse, and are forgotten with the
  process.
* **Other institutions.** A tile sitting that another institution opened is
  refused; the model has one.
* **The booklet's extras**: staff previews, lockdown warnings and the
  scoring call after a seal. Two saves of one tab that overtake each other in
  flight are not modelled either: a push is one step.
* **What a text measures like.** The drift gate's verdict is a choice.
* **The month** of the free-tier cap does not end within an instance.
* **The audit log** decides nothing and swallows its own failures.
* **The scoring engine**: floating-point statistics, no protocol.

* **Calibration runs and tuned thresholds**: a batch job whose row nobody waits
  for (a restart leaves it "running"), and an append-only table.
* **The shadow repository**: every write goes to a second store whose failures
  are swallowed; it exists for a migration and is off by default. What it can
  promise, that the copies agree, it does not under concurrency.

## 6. Plan

1. *(done)* `BluebookRules`, `SittingStore`, `Sitting`, `SittingPromise`, and
   their proofs.
2. *(done)* `Desk`, `Accounts`, `Formation`, `Tiles` over `WorkspaceStore`, composed
   in `Workspace`.
3. *(done)* `BaselineRequests` and `Baseline` with erasure.
4. *(done)* `Booklet` over the server's promise, and its safety proofs.
5. *(done)* Proofs of every safety property of the passing runs. Left with proofs: that
   `Booklet`'s `Serve` is what `SittingPromise` allows, stated as a refinement.
6. The shadow repository, and the remaining pure rules (collection options,
   warnings) against reference definitions.

## 7. Running it

    tlasany Sitting.tla
    tlc -workers 2 -config sitting_seal.cfg MCSitting
    tlc -workers 2 -config workspace.cfg MCWorkspace
    tlapm SittingProofs.tla

and `tlapm` likewise for the other modules named `...Proofs`. `sitting_seal`, `baseline`,
`workspace` and `booklet` take one to two minutes, the other runs well under one.
From nothing, the proofs of `WorkspaceProofs` and `WorkspaceRosterProofs` take
five to six minutes each, the others one to three.
