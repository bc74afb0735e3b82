---------------------------- MODULE Baseline ----------------------------
(***************************************************************************)
(* One student's writing baseline (quantum/state.py, stored as one JSON    *)
(* document per student) and every route that changes it: the upload of    *)
(* one text, of a batch or from Canvas, the approval of sealed exams and   *)
(* of past papers the student shared, removal, erasure, and the            *)
(* proctored-baseline requests that an upload completes.                   *)
(*                                                                         *)
(* A handler runs in a thread of the pool and takes one step per store     *)
(* call.  It reads the whole document, works on its copy, and puts the     *)
(* whole document back; nothing locks it in between.                       *)
(***************************************************************************)
EXTENDS BaselineRequests

CONSTANTS
  Threads,
  Texts,        \* texts, told apart by their SHA-256
  Tokens,       \* jtis of the student's proctor attestations
  Papers,       \* paper_ids the student may share
  PaperText,    \* [Papers -> Texts]
  Seals,        \* the texts of the student's sealed exams
  TakeHome,     \* those of take-home exams
  SetAside,     \* those late or with lockdown warnings
  MinSamples,   \* min_baseline_samples()
  Calls,        \* the requests clients may send
  MaxCalls, MaxCrashes   \* bounds

\* AUTH_WEIGHTS; _TRUSTED_PROVENANCE: those nobody may give themselves.
Trusted == {"proctored", "verified", "canvas"}
Provenances == Trusted \cup {"unverified"}

\* Requests, by route.  asks: the provenance asked for; staff: a staff
\* account sends it; keyed: it carries a submission_uuid.
Upload  == [op : {"upload"}, texts : Seq(Texts), asks : Provenances,
            staff : BOOLEAN, token : Tokens \cup {None}, keyed : BOOLEAN,
            via : {"single", "batch", "canvas"}]
Approve == [op : {"approve"}, texts : Seq(Seals), bulk : BOOLEAN]
Remove  == [op : {"remove"}, texts : Seq(Seals)]
OnPaper == [op : {"share", "paper", "decline"}, paper : Papers]
Erase   == [op : {"erase"}, bluebook : BOOLEAN]
Ask     == [op : {"ask"}, id : Ids]
Poll    == [op : {"poll"}]

ASSUME TokensAssumption == None \notin Tokens
ASSUME NoStatusAssumption == None \notin {"pending", "held", "approved", "declined"}
ASSUME PaperTextAssumption == PaperText \in [Papers -> Texts]
ASSUME SealsAssumption == Seals \subseteq Texts
ASSUME BoundsAssumption ==
  MinSamples \in Nat /\ MaxCalls \in Nat /\ MaxCrashes \in Nat
ASSUME CallsAssumption ==
  \A r \in Calls : CASE r.op = "upload"  -> /\ r \in Upload /\ r.texts # <<>>
                                            /\ r.via = "canvas" =>
                                                 r.asks = "canvas" /\ r.staff /\ ~r.keyed
                     [] r.op = "approve" -> r \in Approve /\ r.texts # <<>>
                     [] r.op = "remove"  -> r \in Remove /\ Len(r.texts) = 1
                     [] r.op \in {"share", "paper", "decline"} -> r \in OnPaper
                     [] r.op = "erase"   -> r \in Erase
                     [] r.op = "ask"     -> r \in Ask
                     [] r.op = "poll"    -> r \in Poll
                     [] OTHER -> FALSE

VARIABLES
  profile,   \* student_profiles: the student's document, or None
  used,      \* consumed_attestations: the jtis spent
  sealed,    \* bluebook_submissions: which of Seals have their row
  paper,     \* student_past_papers: [Papers -> status or None]
  th,        \* what each thread is doing
  begun, crashes,   \* counted for the bounds
  lost,      \* what has happened that may lose a write (see Losses)
  clean      \* the last request was an erasure that nothing overlapped

tables == <<profile, used, sealed, paper>>
vars == <<tables, registry, th, begun, crashes, lost, clean>>

\* token: the attestation that was presented with a trusted sample (history).
Sample == [text : Texts, prov : Provenances, token : Tokens \cup {None},
           keyed : BOOLEAN]
Document == [samples : Seq(Sample), drift : 0..2]
Blank == [samples |-> <<>>, drift |-> 0]

ASSUME NoDocumentAssumption == None \notin Document

Losses == {"stale",     \* a document was put over one its writer had not read
           "fault",     \* a store call failed
           "crossed",   \* a snapshot was persisted that memory had moved on from
           "crash", "removed", "erased"}

Idle == [pc |-> "idle"]
Pcs == {"paper", "insert", "rows", "row", "get", "create", "hash", "judge", "consume",
        "put", "complete", "persist", "decide", "remove", "check",
        "wipe", "purge", "record", "bbook", "poll"}

\* todo: texts still to be handled; doc: the thread's copy of the document,
\* fresh while nobody has written since it was read; seen: the texts a new
\* one is compared with; prov: the effective
\* provenance; changed: the copy was changed; held: the drift gate held the
\* text; snaps: snapshots still to be persisted; asked: Bbook was called;
\* alone: no other request has overlapped with this one.
Job == [pc : Pcs, req : Calls, todo : Seq(Texts), doc : Document, fresh : BOOLEAN,
        seen : SUBSET Texts, prov : Provenances, changed : BOOLEAN, held : BOOLEAN,
        snaps : SUBSET [id : Ids, request : Request], asked : BOOLEAN,
        alone : BOOLEAN]

TypeOK ==
  /\ RegistryTypeOK
  /\ profile \in Document \cup {None}
  /\ used \subseteq Tokens
  /\ sealed \subseteq Seals
  /\ paper \in [Papers -> {None, "pending", "held", "approved", "declined"}]
  /\ th \in [Threads -> Job \cup {Idle}]
  /\ begun \in 0..MaxCalls /\ crashes \in 0..MaxCrashes
  /\ lost \subseteq Losses
  /\ clean \in BOOLEAN

Init ==
  /\ RegistryInit
  /\ profile = None
  /\ used = {}
  /\ sealed = Seals
  /\ paper \in [Papers -> {None, "pending"}]
  /\ th = [t \in Threads |-> Idle]
  /\ begun = 0 /\ crashes = 0
  /\ lost = {}
  /\ clean = FALSE

-----------------------------------------------------------------------------
(* Helpers                                                                 *)

Busy(t) == th[t] # Idle
At(t, pc) == th[t].pc = pc

\* Mutant: only supervised samples are compared.
SupervisedTexts(doc) ==
  {doc.samples[i].text : i \in {j \in DOMAIN doc.samples : doc.samples[j].prov = "proctored"}}

\* The elements of s at the positions ks, in their order.
Part(s, ks) ==
  [n \in 1..Cardinality(ks) |->
     s[CHOOSE k \in ks : Cardinality({j \in ks : j <= k}) = n]]

\* _hashes_from_samples
Hashes(doc) == {doc.samples[i].text : i \in DOMAIN doc.samples}
TextsOf(doc) == {doc.samples[i].text : i \in DOMAIN doc.samples}

\* _authorize_provenance: staff and holders of an attestation get what they ask.
Effective(r) ==
  IF r.asks \notin Trusted \/ r.staff \/ r.token # None THEN r.asks
  ELSE "unverified"

IsBatch(r) == r.op = "upload" /\ r.via # "single"
IsCanvas(r) == r.op = "upload" /\ r.via = "canvas"
\* Its texts are compared with the document they are appended to; an import
\* from Canvas compares them with a second reading of it.
Keyed(r) == r.op # "upload" \/ r.keyed \/ r.via = "batch"
TokenOf(r) == IF r.op = "upload" THEN r.token ELSE None

Set(t, job) == th' = [th EXCEPT ![t] = job]
Go(t, pc) == Set(t, [th[t] EXCEPT !.pc = pc])
Finish(t) == Set(t, Idle)

\* The rest of a bulk approval, or the answer.
Rest(job) ==
  IF job.req.op = "approve" /\ Len(job.todo) > 1
  THEN [job EXCEPT !.todo = Tail(@), !.pc = "row", !.held = FALSE, !.changed = FALSE]
  ELSE Idle

\* What follows when add_baseline returned to its route.
Returned(job) ==
  IF job.req.op = "paper" THEN [job EXCEPT !.pc = "decide"] ELSE Rest(job)

\* A raised store error ends the request, or only its row in a bulk approval.
Fails(t) == /\ StoreFaults
            /\ lost' = lost \cup {"fault"}
            /\ Set(t, Rest(th[t]))
            /\ UNCHANGED <<tables, registry>>

\* What follows the snapshots.
Persisted(job) ==
  CASE job.req.op = "ask" -> IF job.asked THEN Idle ELSE [job EXCEPT !.pc = "bbook"]
    [] job.req.op = "poll" -> Idle
    [] OTHER -> Returned(job)

NoteLoad(loads) == lost' = IF loads THEN lost ELSE lost \cup {"fault"}

PersistThen(t, snaps) ==
  LET job == [th[t] EXCEPT !.snaps = snaps, !.pc = "persist"]
  IN Set(t, IF snaps = {} THEN Persisted(job) ELSE job)

\* The document was written: every other copy of it is out of date.
Overwritten(t, job) ==
  [s \in Threads |-> IF s = t THEN job
                     ELSE IF Busy(s) THEN [th[s] EXCEPT !.fresh = FALSE]
                     ELSE th[s]]

FirstPc(r) == CASE r.op = "upload" -> "get"
                [] r.op \in {"approve", "remove"} -> "rows"
                [] r.op \in {"share", "paper", "decline"} -> "paper"
                [] r.op = "erase" -> "check"
                [] r.op = "ask" -> "record"
                [] r.op = "poll" -> "poll"

Begin(t) ==
  /\ ~Busy(t)
  /\ begun < MaxCalls
  /\ \E r \in Calls :
       /\ r.op = "ask" => obj[r.id] = None /\ \A s \in Threads : Busy(s) => th[s].req # r
       /\ LET job == [ pc |-> FirstPc(r), req |-> r,
                       todo |-> IF r.op \in {"upload", "approve", "remove"}
                                THEN r.texts ELSE <<>>,
                       doc |-> Blank, fresh |-> TRUE, seen |-> {},
                       prov |-> IF r.op = "upload" THEN Effective(r) ELSE "unverified",
                       changed |-> FALSE, held |-> FALSE, snaps |-> {}, asked |-> FALSE,
                       alone |-> \A s \in Threads : ~Busy(s) ]
          IN th' = [s \in Threads |-> IF s = t THEN job
                                      ELSE IF Busy(s) THEN [th[s] EXCEPT !.alone = FALSE]
                                      ELSE th[s]]
  /\ begun' = begun + 1
  /\ clean' = FALSE
  /\ UNCHANGED <<tables, registry, crashes, lost>>

-----------------------------------------------------------------------------
(* Past papers (routers/past_papers.py)                                    *)

\* Share reads the student's papers for a duplicate; approve and decline
\* read the paper's own row.
ReadPaper(t) ==
  LET r == th[t].req
      mine == {p \in Papers : paper[p] # None}
  IN /\ At(t, "paper")
     /\ \/ /\ r.op = "share"
           /\ IF \E p \in mine : PaperText[p] = PaperText[r.paper]
              THEN Finish(t) ELSE Go(t, "insert")
        \/ /\ r.op = "paper"
           /\ IF paper[r.paper] \in {"pending", "held"}
              THEN th' = [th EXCEPT ![t].todo = <<PaperText[r.paper]>>, ![t].pc = "get"]
              ELSE Finish(t)
        \/ /\ r.op = "decline"
           /\ IF paper[r.paper] \in {None, "approved"} THEN Finish(t) ELSE Go(t, "decide")
     /\ UNCHANGED <<tables, registry, begun, crashes, lost, clean>>

InsertPaper(t) ==
  /\ At(t, "insert")
  /\ paper' = [paper EXCEPT ![th[t].req.paper] = "pending"]
  /\ Finish(t)
  /\ UNCHANGED <<profile, used, sealed, registry, begun, crashes, lost, clean>>

\* Mutant: a paper the drift gate held is marked approved.
HeldApproved(job) == IF job.req.op = "decline" THEN "declined" ELSE "approved"

Verdict(job) ==
  IF job.req.op = "decline" THEN "declined" ELSE IF job.held THEN "held" ELSE "approved"

\* UPDATE: a paper erased meanwhile stays erased.
SetPaperStatus(t) ==
  LET p == th[t].req.paper
  IN /\ At(t, "decide")
     /\ paper' = IF paper[p] = None THEN paper ELSE [paper EXCEPT ![p] = Verdict(th[t])]
     /\ Finish(t)
     /\ UNCHANGED <<profile, used, sealed, registry, begun, crashes, lost, clean>>

-----------------------------------------------------------------------------
(* Sealed exams (routers/bluebook_baselines.py)                            *)

Rows(t) ==
  /\ At(t, "rows")
  /\ LET todo == th[t].todo
         found == Part(todo, {i \in DOMAIN todo : todo[i] \in sealed})
         next == IF th[t].req.op = "remove" THEN "remove" ELSE "row"
     IN IF found = <<>> THEN Finish(t)
        ELSE th' = [th EXCEPT ![t].todo = found, ![t].pc = next]
  /\ UNCHANGED <<tables, registry, begun, crashes, lost, clean>>

\* _add: one sealed exam, as far as the call of add_baseline.
ReadRow(t) ==
  LET x == Head(th[t].todo)
      samples == IF profile = None THEN <<>> ELSE profile.samples
  IN /\ At(t, "row")
     /\ IF \/ x \in {samples[i].text : i \in DOMAIN samples}
           \/ th[t].req.bulk /\ x \in SetAside \cup TakeHome
           \/ x \in TakeHome /\ Len(samples) < MinSamples
        THEN Set(t, Rest(th[t]))
        ELSE th' = [th EXCEPT ![t].pc = "get",
                              ![t].prov = IF x \in TakeHome THEN "unverified"
                                          ELSE "proctored"]
     /\ UNCHANGED <<tables, registry, begun, crashes, lost, clean>>

\* remove_submission_baseline: drop every sample with the exam's text.
ReadRemove(t) ==
  LET x == Head(th[t].todo)
      samples == profile.samples
      without == Part(samples, {i \in DOMAIN samples : samples[i].text # x})
  IN /\ At(t, "remove")
     /\ IF profile = None \/ x \notin TextsOf(profile) THEN Finish(t)
        ELSE th' = [th EXCEPT ![t].doc = [samples |-> without, drift |-> 0],
                              ![t].fresh = TRUE, ![t].pc = "put"]
     /\ UNCHANGED <<tables, registry, begun, crashes, lost, clean>>

-----------------------------------------------------------------------------
(* add_baseline and upload_baseline_batch (routers/students_baseline.py)   *)

Got(r) == IF IsCanvas(r) THEN "hash" ELSE "judge"

\* get_or_create reads, and puts an empty document when it found none.
Get(t) ==
  /\ At(t, "get")
  /\ th' = [th EXCEPT ![t].doc = IF profile = None THEN Blank ELSE profile,
                      ![t].fresh = TRUE,
                      ![t].seen = IF profile = None THEN {} ELSE Hashes(profile),
                      ![t].pc = IF profile = None THEN "create" ELSE Got(th[t].req)]
  /\ UNCHANGED <<tables, registry, begun, crashes, lost, clean>>

Create(t) ==
  /\ At(t, "create")
  /\ \/ /\ profile' = Blank
        /\ lost' = IF th[t].fresh THEN lost ELSE lost \cup {"stale"}
        /\ th' = Overwritten(t, [th[t] EXCEPT !.pc = Got(th[t].req), !.fresh = TRUE])
        /\ UNCHANGED <<used, sealed, paper, registry>>
     \/ Fails(t)
  /\ UNCHANGED <<begun, crashes, clean>>

\* import_canvas_baseline reads the document again for its hashes; the papers
\* are then fetched from Canvas while the first reading is held.
ReadHashes(t) ==
  /\ At(t, "hash")
  /\ th' = [th EXCEPT ![t].seen = IF profile = None THEN {} ELSE Hashes(profile),
                      ![t].pc = "judge"]
  /\ UNCHANGED <<tables, registry, begun, crashes, lost, clean>>

\* The text was handled on the copy: go on with the batch, put the copy, or
\* return with nothing to put.
Handled(job) ==
  IF IsBatch(job.req) /\ Len(job.todo) > 1
  THEN [job EXCEPT !.todo = Tail(@), !.pc = "judge"]
  ELSE IF job.changed THEN [job EXCEPT !.pc = "put"] ELSE Returned(job)

\* The duplicate guard, the drift gate and add_sample, on the copy.  Whether
\* a text is an outlier is a measurement; the gate opens when it cannot be
\* taken, and when there is nothing to compare with.
Judge(t) ==
  LET job == th[t]
      doc == job.doc
      x == Head(job.todo)
      held == [job EXCEPT !.doc.drift = IF @ < 2 THEN @ + 1 ELSE 2,
                          !.changed = TRUE, !.held = TRUE,
                          !.seen = IF IsCanvas(job.req) THEN @ ELSE @ \cup {x}]
      sample == [text |-> x, prov |-> job.prov, keyed |-> Keyed(job.req),
                 token |-> IF job.prov \in Trusted THEN TokenOf(job.req) ELSE None]
      Admitted(drift) ==
        [job EXCEPT !.doc = [samples |-> Append(doc.samples, sample), drift |-> drift],
                    !.changed = TRUE, !.seen = @ \cup {x}]
      spends == sample.prov = "proctored" /\ sample.token # None
  IN /\ At(t, "judge")
     /\ IF (Keyed(job.req) \/ IsCanvas(job.req)) /\ x \in job.seen THEN Set(t, Handled(job))
        ELSE \/ /\ doc.samples # <<>>
                /\ Set(t, Handled(held))
             \/ \E drift \in {0, doc.drift} :
                  Set(t, IF spends THEN [Admitted(drift) EXCEPT !.pc = "consume"]
                                   ELSE Handled(Admitted(drift)))
     /\ UNCHANGED <<tables, registry, begun, crashes, lost, clean>>

\* Mutant: the answer of the ledger is not looked at.
TrustedReplay(job, replayed) == Handled(job)

\* Mutant: the drift gate is asked after the attestation was spent.
GateAfterwards(job, replayed) ==
  Handled([job EXCEPT !.held = TRUE,
                      !.doc.samples = SubSeq(@, 1, Len(@) - 1)])

\* An attestation is spent once; the second proctored write that presents it
\* is downgraded, with every later text of its batch.  Verified and Canvas
\* samples do not come here.
Spent(job, replayed) ==
  LET last == Len(job.doc.samples)
  IN IF ~replayed THEN Handled(job)
     ELSE Handled([job EXCEPT !.prov = "unverified",
                              !.doc.samples[last] =
                                [@ EXCEPT !.prov = "unverified", !.token = None]])

Consume(t) ==
  LET token == TokenOf(th[t].req)
  IN /\ At(t, "consume")
     /\ \/ /\ used' = used \cup {token}
           /\ Set(t, Spent(th[t], token \in used))
           /\ UNCHANGED <<profile, sealed, paper, registry, lost>>
        \/ Fails(t)
     /\ UNCHANGED <<begun, crashes, clean>>

\* _persist_or_503.  A held text or a removal completes no request, and the
\* batch route does not look for one.
Put(t) ==
  LET job == [th[t] EXCEPT !.doc = Blank, !.fresh = TRUE, !.seen = {}]
      op == job.req.op
      then == IF op = "remove" \/ IsBatch(job.req) THEN Idle
              ELSE IF job.held THEN Returned(job)
              ELSE [job EXCEPT !.pc = "complete"]
  IN /\ At(t, "put")
     /\ \/ /\ profile' = th[t].doc
           /\ lost' = lost \cup (IF th[t].fresh THEN {} ELSE {"stale"})
                           \cup (IF op = "remove" THEN {"removed"} ELSE {})
           /\ th' = Overwritten(t, then)
           /\ UNCHANGED <<used, sealed, paper, registry>>
        \/ Fails(t)
     /\ UNCHANGED <<begun, crashes, clean>>

\* AUTH_WEIGHTS, in tenths
AuthWeight(prov) ==
  CASE prov = "proctored" -> 20 [] prov = "verified" -> 10
    [] prov = "canvas" -> 8 [] prov = "unverified" -> 5

\* mark_completed_for_student, for a sample of positive weight.
Complete(t) ==
  /\ At(t, "complete")
  /\ IF AuthWeight(th[t].prov) > 0
     THEN \E loads \in Loads :
            LET done == Pending(loads)
            IN /\ Settle(done, "completed", loads)
               /\ PersistThen(t, Snapshots(done, SetStatus(done, "completed")))
               /\ NoteLoad(loads)
     ELSE Set(t, Returned(th[t])) /\ UNCHANGED <<listed, obj, hydrated, lost>>
  /\ UNCHANGED <<tables, row, begun, crashes, clean>>

-----------------------------------------------------------------------------
(* Requests (routers/students_baseline.py)                                 *)

Note(t) ==
  LET a == th[t].req.id
  IN /\ At(t, "record")
     /\ \E loads \in Loads : Record(a, Unsent, loads) /\ NoteLoad(loads)
     /\ PersistThen(t, {[id |-> a, request |-> Unsent]})
     /\ UNCHANGED <<tables, row, begun, crashes, clean>>

\* Bbook answers with a link, and perhaps a date, or the call fails.  Both
\* change the object the handler holds, whatever has become of it meanwhile.
\* The cache was loaded when the request was noted.
CallBbook(t) ==
  LET a == th[t].req.id
  IN /\ At(t, "bbook")
     /\ \/ \E dated \in BOOLEAN :
             LET r == [obj[a] EXCEPT !.link = TRUE, !.dated = dated]
             IN /\ Record(a, r, TRUE)
                /\ th' = [th EXCEPT ![t].snaps = {[id |-> a, request |-> r]},
                                    ![t].asked = TRUE, ![t].pc = "persist"]
        \/ LET known == {a} \cap listed
           IN /\ Settle(known, "failed", TRUE)
              /\ IF known = {} THEN Finish(t)
                 ELSE th' = [th EXCEPT ![t].snaps = Snapshots(known, SetStatus(known, "failed")),
                                       ![t].asked = TRUE, ![t].pc = "persist"]
     /\ UNCHANGED <<tables, row, begun, crashes, lost, clean>>

\* list_pending: what has expired by now is marked so.
List(t) ==
  /\ At(t, "poll")
  /\ \E loads \in Loads :
       \E due \in SUBSET {a \in Pending(loads) : Objects[a].dated} :
         /\ Settle(due, "expired", loads)
         /\ PersistThen(t, Snapshots(due, SetStatus(due, "expired")))
         /\ NoteLoad(loads)
  /\ UNCHANGED <<tables, row, begun, crashes, clean>>

\* One snapshot; put_baseline_request never raises.
Persist(t) ==
  /\ At(t, "persist")
  /\ \E s \in th[t].snaps :
       LET job == [th[t] EXCEPT !.snaps = @ \ {s}]
           moved == s.id \notin listed \/ obj[s.id] # s.request
       IN /\ \/ /\ PersistSnapshot(s)
                /\ lost' = IF moved THEN lost \cup {"crossed"} ELSE lost
             \/ /\ StoreFaults
                /\ lost' = lost \cup {"fault"}
                /\ UNCHANGED row
          /\ Set(t, IF job.snaps = {} THEN Persisted(job) ELSE job)
  /\ UNCHANGED <<tables, listed, obj, hydrated, begun, crashes, clean>>

-----------------------------------------------------------------------------
(* Erasure (store.py, delete_student)                                      *)

\* The course roster's route refuses a student with a baseline.
EraseCheck(t) ==
  LET footprint == sealed # {} \/ \E p \in Papers : paper[p] # None
      refused == th[t].req.bluebook /\ profile # None /\ profile.samples # <<>>
  IN /\ At(t, "check")
     /\ IF refused \/ (profile = None /\ ~footprint) THEN Finish(t) ELSE Go(t, "wipe")
     /\ UNCHANGED <<tables, registry, begun, crashes, lost, clean>>

\* One transaction over every table; a failure leaves all of them.
Wipe(t) ==
  /\ At(t, "wipe")
  /\ \/ /\ profile' = None /\ used' = {} /\ sealed' = {}
        /\ paper' = [p \in Papers |-> None]
        /\ row' = [a \in Ids |-> None]
        /\ lost' = lost \cup {"erased"}
        /\ th' = Overwritten(t, [th[t] EXCEPT !.pc = "purge"])
        /\ UNCHANGED <<listed, obj, hydrated>>
     \/ Fails(t)
  /\ UNCHANGED <<begun, crashes, clean>>

Purge(t) ==
  /\ At(t, "purge")
  /\ \E loads \in Loads : PurgeStudent(loads) /\ NoteLoad(loads)
  /\ Finish(t)
  /\ clean' = th[t].alone
  /\ UNCHANGED <<tables, row, begun, crashes>>

\* The process dies and starts again; its threads and its cache are gone.
Crash ==
  /\ crashes < MaxCrashes
  /\ crashes' = crashes + 1
  /\ th' = [t \in Threads |-> Idle]
  /\ lost' = lost \cup {"crash"}
  /\ clean' = FALSE
  /\ ForgetCache
  /\ UNCHANGED <<tables, begun>>

Step(t) ==
  \/ ReadPaper(t) \/ InsertPaper(t) \/ SetPaperStatus(t)
  \/ Rows(t) \/ ReadRow(t) \/ ReadRemove(t)
  \/ Get(t) \/ Create(t) \/ ReadHashes(t) \/ Judge(t) \/ Consume(t) \/ Put(t) \/ Complete(t)
  \/ Note(t) \/ CallBbook(t) \/ List(t) \/ Persist(t)
  \/ EraseCheck(t) \/ Wipe(t) \/ Purge(t)

Next == Crash \/ \E t \in Threads : Begin(t) \/ Step(t)

Spec == Init /\ [][Next]_vars

-----------------------------------------------------------------------------
(* Properties                                                              *)

Trusting(doc, k) ==
  {i \in DOMAIN doc.samples : doc.samples[i].token = k /\ doc.samples[i].prov = "proctored"}

\* Single use of a proctor attestation (consumed_attestations.py): however
\* uploads that present one attestation interleave, repeat or share a batch,
\* at most one sample of the baseline has proctored trust on its account,
\* whatever else it was presented for.  (Erasure empties the ledger, so a write
\* that it overtakes is excepted.)
AttestationOnce ==
  profile # None /\ "erased" \notin lost =>
    \A k \in Tokens : Cardinality(Trusting(profile, k)) <= 1

\* The replay guard (students_baseline.py): a text sent with a
\* submission_uuid, by an approval or in a batch of files is never counted a
\* second time, in whatever order two threads read and replace the document.
NoTextTwice ==
  profile # None =>
    \A i, j \in DOMAIN profile.samples :
      i < j /\ profile.samples[j].keyed =>
        profile.samples[i].text # profile.samples[j].text

\* A shared paper that reads "approved" is in the baseline (the decline route
\* tells the teacher so), unless a write was lost to another one that had
\* read the document before it, or the text was removed.
ApprovedIsCounted ==
  lost \cap {"stale", "removed", "erased"} = {} =>
    \A p \in Papers : paper[p] = "approved" =>
      profile # None /\ PaperText[p] \in TextsOf(profile)

\* An attestation is spent on a sample that is admitted: the drift gate does
\* not burn it.  Once spent, its sample is in the baseline or on its way.
SpentOnASample ==
  lost = {} =>
    \A k \in used :
      \/ profile # None /\ Trusting(profile, k) # {}
      \/ \E t \in Threads : Busy(t) /\ Trusting(th[t].doc, k) # {}

\* The table follows the cache: when no request is under way they agree, so
\* that a restart brings back what was listed, as it was; unless two
\* threads persisted their snapshots in the other order, or a write failed.
TableFollowsCache ==
  hydrated /\ (\A t \in Threads : ~Busy(t)) /\ lost \cap {"crossed", "fault", "erased"} = {} =>
    \A a \in Ids : row[a] = IF a \in listed THEN obj[a] ELSE None

\* Erasure that no other request overlapped leaves nothing of the student:
\* document, ledger, papers, exams, requests in the table or in memory.
ErasedLeavesNothing ==
  clean => /\ profile = None /\ used = {} /\ sealed = {}
           /\ \A p \in Papers : paper[p] = None
           /\ listed = {} /\ \A a \in Ids : row[a] = None

\* In one process a request that was settled does not become pending again,
\* though the handler that asked for it still holds and records its object.
Resettles ==
  \A a \in listed \cap listed' :
    hydrated /\ hydrated' /\ obj[a].status # "pending" => obj'[a].status # "pending"
SettledStaysSettled == [][Resettles]_vars

\* The comment at the call (students_baseline.py): an unverified self-upload
\* does not satisfy a proctored-baseline request.
ByTrusted ==
  \A a \in Ids :
    obj[a] # None /\ obj[a].status = "pending" /\ obj'[a].status = "completed" =>
      \E t \in Threads : At(t, "complete") /\ th'[t] # th[t] /\ th[t].prov \in Trusted
OnlyTrustedCompletes == [][ByTrusted]_vars

\* The comment in the batch route (students_baseline.py): a proctor attestation
\* authorizes one document, so that of several samples presented under one
\* only the first is honored.
AttestationForOneDocument ==
  profile # None /\ "erased" \notin lost =>
    \A k \in Tokens :
      Cardinality({i \in DOMAIN profile.samples : profile.samples[i].token = k}) <= 1
=============================================================================
