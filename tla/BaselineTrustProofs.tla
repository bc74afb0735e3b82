----------------------- MODULE BaselineTrustProofs -----------------------
(***************************************************************************)
(* What a baseline may be trusted for: an attestation counts once and is   *)
(* spent on a sample, an approved paper is in the document.  All of it     *)
(* rests on what a handler's copy has to do with the document meanwhile.   *)
(***************************************************************************)
EXTENDS BaselineProofs

-----------------------------------------------------------------------------
(* Attestations, as far as the ledger enters them: for proctored samples.   *)
(* While one is being spent its sample is not counted.                      *)

Solid(job, k) ==
  {i \in Trusting(job.doc, k) : job.pc = "consume" => i < Len(job.doc.samples)}

AtMostOne(S) == \A i, j \in S : i = j

\* Each attestation has at most one of these, and has been spent for it.
Booked(doc, spent) ==
  \A k \in Tokens : /\ AtMostOne(Trusting(doc, k))
                    /\ Trusting(doc, k) # {} => k \in spent
Lodged(job, spent) ==
  \A k \in Tokens : /\ AtMostOne(Solid(job, k))
                    /\ Solid(job, k) # {} => k \in spent

LedgerInv ==
  "erased" \notin lost =>
    /\ profile # None => Booked(profile, used)
    /\ \A t \in Threads : Busy(t) => Lodged(th[t], used)

\* A copy nobody has overtaken extends the document it was read from.
Extends(doc, old) ==
  /\ Len(old.samples) <= Len(doc.samples)
  /\ \A i \in 1..Len(old.samples) : doc.samples[i] = old.samples[i]

FreshFrame(job, current) ==
  /\ job.pc = "create" => current = None
  /\ job.pc \in Holding /\ job.req.op # "remove" =>
       /\ current # None
       /\ Extends(job.doc, current)
       /\ job.pc = "consume" => Len(current.samples) < Len(job.doc.samples)

FreshInv == \A t \in Threads : Busy(t) /\ th[t].fresh => FreshFrame(th[t], profile)

\* A spent attestation has its sample in the document or in a copy to be put.
Carries(job, k) ==
  job.pc \in {"judge", "consume", "put"} /\ job.changed /\ Solid(job, k) # {}

SpentInv ==
  lost = {} => \A k \in used :
    \/ profile # None /\ Trusting(profile, k) # {}
    \/ \E t \in Threads : Busy(t) /\ Carries(th[t], k)

-----------------------------------------------------------------------------
(* Papers.                                                                  *)

Counted(current) == IF current = None THEN {} ELSE TextsOf(current)

\* What a handler of a shared paper knows of the texts that are counted.
Grounded(job, counted) ==
  job.req.op = "paper" =>
    /\ job.pc = "judge" => job.seen \subseteq counted
    /\ job.pc \in {"complete", "persist", "decide"} =>
         job.held \/ PaperText[job.req.paper] \in counted

PaperInv ==
  lost \cap {"stale", "removed", "erased"} = {} =>
    /\ \A p \in Papers : paper[p] = "approved" => PaperText[p] \in Counted(profile)
    /\ \A t \in Threads : Busy(t) => Grounded(th[t], Counted(profile))

-----------------------------------------------------------------------------
(* The steps, by what they do to the document and its copies.               *)

\* No document is read, changed or put; a copy is kept or dropped.
Plain(t) ==
  /\ UNCHANGED <<profile, used>>
  /\ th'[t] # Idle =>
       /\ th'[t].doc = th[t].doc
       /\ th'[t].pc \notin Holding \cup {"create"}
       /\ th'[t].req.op = "paper" /\ th'[t].pc \in {"complete", "persist", "decide"} =>
            th[t].pc \in {"complete", "persist"} /\ th'[t].held = th[t].held
  /\ th[t].pc \in Holding => "fault" \in lost'
  /\ th[t].pc = "consume" => th'[t] = Idle
  /\ paper' = paper \/ InsertPaper(t) \/ SetPaperStatus(t)

LEMMA StepKinds ==
  ASSUME TypeInv, NEW t \in Threads, Step(t)
  PROVE  \/ Plain(t)
         \/ Get(t) \/ ReadHashes(t) \/ Judge(t) \/ ReadRemove(t)
         \/ (Create(t) \/ Consume(t) \/ Put(t) \/ Wipe(t)) /\ ~Fails(t)
<1> DEFINE job == th[t]
<1>1. job # Idle /\ job \in Job /\ Framed(job)
  BY StepMoves
<1>2. CASE Fails(t) /\ (Create(t) \/ Consume(t) \/ Put(t) \/ Wipe(t))
  <2>1. job.pc # "persist"
    BY <1>2 DEF Create, Consume, Put, Wipe, At
  <2>2. /\ th'[t] # Idle =>
             Same(job, th'[t]) /\ th'[t].pc = "row" /\ job.req.op = "approve"
        /\ lost' = lost \cup {"fault"} /\ UNCHANGED <<tables, registry>>
    BY <1>1, <1>2, <2>1, FailsFrame
  <2>3. job.pc = "consume" => job.req.op = "upload"
    BY <1>1 DEF Framed, OpsAt
  <2> QED
    BY <2>2, <2>3 DEF Plain, Same, tables, Holding
<1>3. CASE Complete(t) \/ Note(t) \/ List(t) \/ Persist(t)
  <2>1. PICK snaps \in SUBSET [id : Ids, request : Request] : Set(t, Onward(job, snaps))
    BY <1>3, GoesOnward
  <2>2. /\ job.pc \in {"complete", "record", "poll", "persist"}
        /\ job.req.op \in OpsAt("persist")
    BY <1>3, GoesOnward
  <2>3. /\ OwnFrame(t)
        /\ th'[t] # Idle /\ job.req.op = "paper" => th'[t].held = job.held
        /\ th'[t] # Idle =>
             th'[t].doc = job.doc /\ th'[t].pc \in {"persist", "bbook", "row", "decide"}
    BY <1>1, <2>1, <2>2, OnwardFrame
  <2>4. job.req.op = "paper" => job.pc \in {"complete", "persist"}
    BY <1>1, <2>2 DEF Framed, OpsAt
  <2>5. UNCHANGED <<profile, used, paper>>
    BY <1>3 DEF Complete, Note, List, Persist, tables
  <2> QED
    BY <2>2, <2>3, <2>4, <2>5 DEF Plain, OwnFrame, Holding
<1>4. CASE ReadPaper(t)
  <2>1. job.pc = "paper" /\ UNCHANGED <<profile, used, paper>>
    BY <1>4 DEF ReadPaper, At, tables
  <2>2. \/ Set(t, Idle)
        \/ job.req.op = "share" /\ Set(t, [job EXCEPT !.pc = "insert"])
        \/ job.req.op = "decline" /\ Set(t, [job EXCEPT !.pc = "decide"])
        \/ \E todo : Set(t, [job EXCEPT !.todo = todo, !.pc = "get"])
    BY <1>1, <1>4 DEF ReadPaper, Finish, Go, Set, TypeInv, TypeOK
  <2>3. \/ th'[t] = Idle
        \/ job.req.op = "share" /\ th'[t] = [job EXCEPT !.pc = "insert"]
        \/ job.req.op = "decline" /\ th'[t] = [job EXCEPT !.pc = "decide"]
        \/ \E todo : th'[t] = [job EXCEPT !.todo = todo, !.pc = "get"]
    BY <2>2, SetGives
  <2> QED
    BY <1>1, <2>1, <2>3 DEF Plain, Job, Holding
<1>5. CASE InsertPaper(t) \/ SetPaperStatus(t)
  BY <1>1, <1>5, SetGives DEF InsertPaper, SetPaperStatus, At, Finish, Plain, Holding
<1>6. CASE Rows(t)
  <2>1. /\ job.pc = "rows" /\ UNCHANGED <<profile, used, paper>>
        /\ \/ th'[t] = Idle
           \/ \E todo, pc : /\ th'[t] = [job EXCEPT !.todo = todo, !.pc = pc]
                            /\ pc \in {"row", "remove"}
    BY <1>1, <1>6 DEF Rows, At, Set, Finish, TypeInv, TypeOK, tables
  <2> QED
    BY <1>1, <2>1 DEF Plain, Job, Holding
<1>7. CASE ReadRow(t)
  <2>1. job.pc = "row" /\ UNCHANGED <<profile, used, paper>>
    BY <1>7 DEF ReadRow, At, tables
  <2>2. CASE Set(t, Rest(job))
    <3>1. job.snaps = {} /\ NoRepeats(job.doc)
      BY <1>1, <2>1 DEF Framed
    <3> QED
      BY <1>1, <2>1, <2>2, <3>1, RestSound, SetGives DEF Plain, Same, Holding
  <2>3. CASE ~Set(t, Rest(job))
    <3>1. \E prov : th'[t] = [job EXCEPT !.pc = "get", !.prov = prov]
      BY <1>1, <1>7, <2>3 DEF ReadRow, TypeInv, TypeOK
    <3> QED
      BY <1>1, <2>1, <3>1 DEF Plain, Job, Holding
  <2> QED
    BY <2>2, <2>3
<1>8. CASE CallBbook(t)
  <2>1. /\ job.pc = "bbook" /\ UNCHANGED <<profile, used, paper>>
        /\ \/ th'[t] = Idle
           \/ \E snaps : th'[t] = [job EXCEPT !.snaps = snaps, !.asked = TRUE,
                                              !.pc = "persist"]
    BY <1>1, <1>8 DEF CallBbook, At, Set, Finish, TypeInv, TypeOK, tables
  <2>2. job.req.op = "ask"
    BY <1>1, <2>1 DEF Framed, OpsAt
  <2> QED
    BY <1>1, <2>1, <2>2 DEF Plain, Job, Holding
<1>9. CASE EraseCheck(t)
  <2>1. /\ job.pc = "check" /\ UNCHANGED <<profile, used, paper>>
        /\ th'[t] = Idle \/ th'[t] = [job EXCEPT !.pc = "wipe"]
    BY <1>1, <1>9 DEF EraseCheck, At, Set, Go, Finish, TypeInv, TypeOK, tables
  <2> QED
    BY <1>1, <2>1 DEF Plain, Job, Holding
<1>10. CASE Purge(t)
  <2>1. job.pc = "purge" /\ UNCHANGED <<profile, used, paper>> /\ th'[t] = Idle
    BY <1>1, <1>10, SetGives DEF Purge, At, Finish, tables
  <2> QED
    BY <2>1 DEF Plain, Holding
<1> QED
  BY <1>2, <1>3, <1>4, <1>5, <1>6, <1>7, <1>8, <1>9, <1>10 DEF Step

-----------------------------------------------------------------------------
(* Judging and spending, on the copy.                                       *)

\* A copy that extends a document trusts what that one trusts, and later samples.
LEMMA ExtendsTrusts ==
  ASSUME NEW doc \in Document, NEW old \in Document, Extends(doc, old), NEW k
  PROVE  Trusting(old, k) = {i \in Trusting(doc, k) : i <= Len(old.samples)}
<1>1. /\ Len(old.samples) \in Nat /\ Len(doc.samples) \in Nat
      /\ DOMAIN old.samples = 1..Len(old.samples)
      /\ DOMAIN doc.samples = 1..Len(doc.samples)
  BY LenProperties DEF Document
<1> QED
  BY <1>1 DEF Extends, Trusting

LEMMA ExtendsTexts ==
  ASSUME NEW doc \in Document, NEW old \in Document, Extends(doc, old)
  PROVE  TextsOf(old) \subseteq TextsOf(doc)
<1>1. /\ Len(old.samples) \in Nat /\ Len(doc.samples) \in Nat
      /\ DOMAIN old.samples = 1..Len(old.samples)
      /\ DOMAIN doc.samples = 1..Len(doc.samples)
  BY LenProperties DEF Document
<1> QED
  BY <1>1 DEF Extends, TextsOf

LEMMA ExtendsTransitive ==
  ASSUME NEW a \in Document, NEW b \in Document, NEW c \in Document,
         Extends(a, b), Extends(b, c)
  PROVE  Extends(a, c) /\ (Len(b.samples) < Len(a.samples) => Len(c.samples) < Len(a.samples))
<1>1. Len(a.samples) \in Nat /\ Len(b.samples) \in Nat /\ Len(c.samples) \in Nat
  BY LenProperties DEF Document
<1> QED
  BY <1>1 DEF Extends

\* The text was handled on the copy base, which goes on as it is.
LEMMA HandledCopy ==
  ASSUME NEW base \in Job, Ready(base)
  PROVE  LET next == Handled(base)
         IN  /\ next # Idle =>
                  /\ next.doc = base.doc /\ next.fresh = base.fresh /\ next.req = base.req
                  /\ next.pc \in {"row", "decide", "judge", "put"}
                  /\ \A k : Solid(next, k) = Trusting(base.doc, k)
                  /\ base.req.op = "paper" =>
                       next.pc \in {"put", "decide"} /\ (next.pc = "decide" => ~base.changed)
             /\ base.changed => next # Idle /\ next.changed /\ next.pc \in {"judge", "put"}
<1> DEFINE next == Handled(base)
<1>1. /\ next # Idle =>
           /\ Same(base, next)
           /\ \/ next.pc = "row" /\ base.req.op = "approve" /\ ~base.changed
              \/ next.pc = "decide" /\ base.req.op = "paper" /\ ~base.changed
              \/ /\ next.pc \in {"judge", "put"}
                 /\ next.pc = "judge" => IsBatch(base.req)
                 /\ next.changed = base.changed
      /\ base.changed => next # Idle /\ next.pc \in {"judge", "put"}
  BY HandledSound
<1> HIDE DEF next
<1>2. ASSUME next # Idle PROVE \A k : Solid(next, k) = Trusting(base.doc, k)
  BY <1>1, <1>2 DEF Solid, Same
<1>3. base.req.op = "paper" => ~IsBatch(base.req)
  BY DEF IsBatch
<1> QED
  BY <1>1, <1>2, <1>3 DEF Same, next

\* What a text's judgement makes of the copy job.
Judgement(job, next) ==
  /\ next # Idle =>
       /\ next.req = job.req /\ next.fresh = job.fresh
       /\ next.pc \in {"row", "decide", "judge", "put", "consume"}
       /\ Extends(next.doc, job.doc)
       /\ next.pc = "consume" => Len(job.doc.samples) < Len(next.doc.samples)
       /\ \A k \in Tokens : Solid(next, k) = Trusting(job.doc, k)
       /\ job.req.op = "paper" =>
            next.pc \in {"put", "decide"} /\ (next.pc = "decide" => Known(job))
  /\ job.changed => /\ next # Idle /\ next.changed
                    /\ next.pc \in {"judge", "put", "consume"}

LEMMA SameExtends ==
  ASSUME NEW doc \in Document
  PROVE  Extends(doc, doc)
<1>1. Len(doc.samples) \in Nat
  BY LenProperties DEF Document
<1> QED
  BY <1>1 DEF Extends

LEMMA JudgeShape ==
  ASSUME TypeInv, NEW t \in Threads, Judge(t)
  PROVE  Judgement(th[t], th'[t]) /\ th[t].pc = "judge" /\ UNCHANGED <<tables, lost>>
<1> DEFINE job == th[t]
           n == Len(job.doc.samples)
<1>1. job # Idle /\ job \in Job /\ Framed(job) /\ job.pc = "judge"
  BY Working DEF Judge
<1>2. job.todo # <<>> /\ job.doc.drift \in 0..2 /\ job.doc \in Document
  BY <1>1, JobFields DEF Framed, Handling
<1>3. ASSUME Known(job), Set(t, Handled(job)) PROVE Judgement(job, th'[t])
  <2>1. th'[t] = Handled(job) /\ Ready(job) /\ Extends(job.doc, job.doc)
    BY <1>1, <1>2, <1>3, SetGives, JudgedSound, SameExtends
  <2> QED
    BY <1>1, <1>3, <2>1, HandledCopy DEF Judgement
<1>4. ASSUME Set(t, Handled(HeldBack(job))) PROVE Judgement(job, th'[t])
  <2> DEFINE base == HeldBack(job)
  <2>1. /\ base \in Job /\ base.doc.samples = job.doc.samples /\ base.changed
        /\ base.req = job.req /\ base.fresh = job.fresh
    BY <1>1, <1>2, HeldBackFields
  <2>2. th'[t] = Handled(base) /\ Ready(base)
    BY <1>1, <1>4, SetGives, HeldBackSound
  <2> HIDE DEF base
  <2>3. Extends(base.doc, job.doc)
    BY <1>2, <2>1, SameExtends DEF Extends
  <2>4. \A k : Trusting(base.doc, k) = Trusting(job.doc, k)
    BY <2>1 DEF Trusting
  <2> QED
    BY <2>1, <2>2, <2>3, <2>4, HandledCopy DEF Judgement
<1>5. \A m \in Nat : /\ m <= m + 1 /\ m < m + 1
                     /\ \A i \in 1..(m + 1) : i < m + 1 <=> i <= m
                     /\ \A i \in 1..(m + 1) : i # m + 1 <=> i <= m
  OBVIOUS
<1>6. ASSUME ~Known(job), NEW drift \in {0, job.doc.drift},
             LET next == Admitted(job, drift)
             IN  IF Spends(job)
                 THEN Set(t, [next EXCEPT !.pc = "consume"])
                 ELSE Set(t, Handled(next))
      PROVE  Judgement(job, th'[t])
  <2> DEFINE base == Admitted(job, drift)
             spend == [base EXCEPT !.pc = "consume"]
  <2>1. drift \in 0..2 /\ (Keyed(job.req) => Head(job.todo) \notin job.seen)
    BY <1>2, <1>6 DEF Known
  <2>2. /\ base \in Job /\ n \in Nat /\ Len(base.doc.samples) = n + 1
        /\ base.doc.samples[n + 1] = SampleOf(job)
        /\ \A i \in 1..n : base.doc.samples[i] = job.doc.samples[i]
        /\ base.changed /\ base.req = job.req /\ base.fresh = job.fresh
    BY <1>1, <1>2, <2>1, AdmittedFields
  <2>3. /\ Ready(base)
        /\ Spends(job) => Sound(spend)
    BY <1>1, <2>1, AdmittedSound
  <2>4. /\ spend.pc = "consume" /\ spend.doc = base.doc /\ spend.req = base.req
        /\ spend.changed = base.changed /\ spend.fresh = base.fresh /\ spend \in Job
    BY <2>2 DEF Job, Pcs
  <2>5. IF Spends(job) THEN th'[t] = spend ELSE th'[t] = Handled(base)
    BY <1>6, SetGives
  <2> HIDE DEF base, spend
  <2>6. Extends(base.doc, job.doc) /\ base.doc \in Document /\ n < n + 1
    <3>1. n <= n + 1 /\ n < n + 1
      BY <2>2, <1>5
    <3> QED
      BY <2>2, <3>1, JobFields DEF Extends
  <2>7. \A k : Trusting(job.doc, k) = {i \in Trusting(base.doc, k) : i <= n}
    BY <1>2, <2>6, ExtendsTrusts
  <2>8. \A k : Trusting(base.doc, k) \subseteq 1..(n + 1)
    BY <2>2, JobFields, LenProperties DEF Trusting
  <2>9. CASE Spends(job)
    <3>1. \A k : Solid(spend, k) = {i \in Trusting(base.doc, k) : i < n + 1}
      BY <2>2, <2>4 DEF Solid
    <3>2. \A k : Solid(spend, k) = Trusting(job.doc, k)
      <4>1. \A i \in 1..(n + 1) : i < n + 1 <=> i <= n
        BY <2>2, <1>5
      <4> QED
        BY <2>7, <2>8, <3>1, <4>1
    <3>3. job.req.op = "upload"
      BY <1>1, <2>9, TokenTypes DEF Spends, SampleOf
    <3>4. spend # Idle
      BY <2>4, JobFields
    <3> QED
      BY <2>2, <2>4, <2>5, <2>6, <2>9, <3>2, <3>3, <3>4 DEF Judgement
  <2>10. CASE ~Spends(job)
    <3>1. \A k \in Tokens : n + 1 \notin Trusting(base.doc, k)
      BY <2>2, <2>10, TokensAssumption DEF Trusting, Spends
    <3>2. \A k \in Tokens : Trusting(base.doc, k) = Trusting(job.doc, k)
      <4>1. \A i \in 1..(n + 1) : i # n + 1 <=> i <= n
        BY <2>2, <1>5
      <4> QED
        BY <2>7, <2>8, <3>1, <4>1
    <3> QED
      BY <2>2, <2>3, <2>5, <2>6, <2>10, <3>2, HandledCopy DEF Judgement
  <2> QED
    BY <2>9, <2>10
<1>7. UNCHANGED <<tables, lost>>
  BY DEF Judge
<1> QED
  BY <1>1, <1>3, <1>4, <1>6, <1>7, JudgeCases

\* What the ledger's answer makes of the copy job, whose attestation is k.
Settlement(job, next, k, replayed) ==
  LET n == Len(job.doc.samples)
  IN  /\ next # Idle /\ next.req = job.req /\ next.fresh = job.fresh /\ next.changed
      /\ next.pc \in {"judge", "put"}
      /\ Len(next.doc.samples) = n
      /\ \A i \in 1..n : i # n => next.doc.samples[i] = job.doc.samples[i]
      /\ \A m \in Tokens :
           Solid(next, m) = IF m = k /\ ~replayed THEN Solid(job, m) \cup {n}
                            ELSE Solid(job, m)

LEMMA ConsumeShape ==
  ASSUME TypeInv, NEW t \in Threads, Consume(t), ~Fails(t)
  PROVE  LET k == TokenOf(th[t].req)
         IN  /\ Settlement(th[t], th'[t], k, k \in used)
             /\ th[t].pc = "consume" /\ th[t].req.op = "upload" /\ k \in Tokens
             /\ used' = used \cup {k} /\ UNCHANGED <<profile, paper, lost>>
<1> DEFINE job == th[t]
           k == TokenOf(job.req)
           replayed == k \in used
           n == Len(job.doc.samples)
           base == IF replayed THEN Demoted(job) ELSE job
<1>1. job # Idle /\ job \in Job /\ Framed(job) /\ job.pc = "consume"
  BY Working DEF Consume
<1>2. /\ job.req.op = "upload" /\ k = job.req.token /\ k # None /\ k \in Tokens
      /\ n > 0 /\ job.prov = "proctored" /\ job.changed
      /\ job.doc.samples[n].token = k /\ job.doc.samples[n].prov = "proctored"
  BY <1>1, JobFields, TokenTypes DEF Framed, Spending, OpsAt, TokenOf
<1>3. /\ used' = used \cup {k} /\ UNCHANGED <<profile, paper, lost>>
      /\ th'[t] = Spent(job, replayed)
  BY SetGives DEF Consume
<1>4. /\ Demoted(job) \in Job /\ Len(Demoted(job).doc.samples) = n
      /\ Demoted(job).doc.samples[n].token = None
      /\ \A i \in 1..n : i # n => Demoted(job).doc.samples[i] = job.doc.samples[i]
      /\ Demoted(job).changed = job.changed /\ Demoted(job).req = job.req
      /\ Demoted(job).fresh = job.fresh
  BY <1>1, <1>2, DemotedFields
<1>5. replayed \in BOOLEAN
  OBVIOUS
<1> HIDE DEF replayed
<1>6. Ready(job) /\ Ready(Demoted(job)) /\ Spent(job, replayed) = Handled(base)
  BY <1>1, <1>5, SpentSound
<1>7. /\ base \in Job /\ Ready(base) /\ base.req = job.req /\ base.fresh = job.fresh
      /\ base.changed /\ Len(base.doc.samples) = n
      /\ \A i \in 1..n : i # n => base.doc.samples[i] = job.doc.samples[i]
      /\ replayed => base.doc.samples[n].token = None
      /\ ~replayed => base = job
  BY <1>1, <1>2, <1>4, <1>6
<1> HIDE DEF base
<1>8. /\ Handled(base) # Idle /\ Handled(base).changed /\ Handled(base).req = job.req
      /\ Handled(base).fresh = job.fresh /\ Handled(base).doc = base.doc
      /\ Handled(base).pc \in {"judge", "put"}
      /\ \A m : Solid(Handled(base), m) = Trusting(base.doc, m)
  BY <1>7, HandledCopy
<1>9. n \in Nat /\ DOMAIN base.doc.samples = 1..n /\ DOMAIN job.doc.samples = 1..n /\ n \in 1..n
  BY <1>1, <1>2, <1>7, JobFields, LenProperties
<1>10. ASSUME NEW m \in Tokens
       PROVE  Trusting(base.doc, m) = IF m = k /\ ~replayed THEN Solid(job, m) \cup {n}
                                      ELSE Solid(job, m)
  <2>1. \A i \in 1..n : i < n <=> i # n
    BY <1>9
  <2>2. Solid(job, m) = {i \in 1..n : /\ i # n /\ job.doc.samples[i].token = m
                                      /\ job.doc.samples[i].prov = "proctored"}
    BY <1>1, <1>9, <2>1 DEF Solid, Trusting
  <2>3. Trusting(base.doc, m) = {i \in 1..n : /\ base.doc.samples[i].token = m
                                              /\ base.doc.samples[i].prov = "proctored"}
    BY <1>9 DEF Trusting
  <2>4. n \in Trusting(base.doc, m) <=> m = k /\ ~replayed
    BY <1>2, <1>7, <1>9, <2>3, TokensAssumption
  <2>5. \A i \in 1..n : i # n => (i \in Trusting(base.doc, m) <=> i \in Solid(job, m))
    BY <1>7, <2>2, <2>3
  <2> QED
    BY <1>9, <2>2, <2>3, <2>4, <2>5
<1> QED
  <2>1. th'[t] = Handled(base)
    BY <1>3, <1>6
  <2>2. /\ Len(th'[t].doc.samples) = n
        /\ \A i \in 1..n : i # n => th'[t].doc.samples[i] = job.doc.samples[i]
    BY <1>7, <1>8, <2>1
  <2>3. \A m \in Tokens : Solid(th'[t], m) = IF m = k /\ ~replayed THEN Solid(job, m) \cup {n}
                                            ELSE Solid(job, m)
    BY <1>8, <1>10, <2>1
  <2>4. /\ th'[t] # Idle /\ th'[t].req = job.req /\ th'[t].fresh = job.fresh
        /\ th'[t].changed /\ th'[t].pc \in {"judge", "put"}
    BY <1>8, <2>1
  <2>5. Settlement(job, th'[t], k, replayed)
    BY <2>2, <2>3, <2>4 DEF Settlement
  <2> QED
    BY <1>1, <1>2, <1>3, <2>5 DEF replayed

\* A part of a document trusts no attestation twice if the document does not.
LEMMA PartTrusts ==
  ASSUME NEW doc \in Document, NEW keep \in SUBSET DOMAIN doc.samples, NEW spent,
         Booked(doc, spent)
  PROVE  Booked([samples |-> Part(doc.samples, keep), drift |-> 0], spent)
<1> DEFINE part == [samples |-> Part(doc.samples, keep), drift |-> 0]
           N == Cardinality(keep)
<1>1. doc.samples \in Seq(Sample)
  BY DEF Document
<1>2. PICK g \in [1..N -> keep] :
        /\ \A m, n \in 1..N : m < n => g[m] < g[n]
        /\ \A n \in 1..N : Part(doc.samples, keep)[n] = doc.samples[g[n]]
  BY <1>1, PartIsSubsequence
<1>3. /\ DOMAIN part.samples = 1..N /\ N \in Nat
      /\ \A n \in 1..N : part.samples[n] = doc.samples[g[n]]
  BY <1>1, <1>2, PartIsSubsequence, LenProperties
<1>4. DOMAIN doc.samples \subseteq Nat
  BY <1>1, LenProperties
<1> HIDE DEF part, N
<1>5. ASSUME NEW m \in 1..N, NEW n \in 1..N, g[m] = g[n] PROVE m = n
  <2>1. g[m] \in Nat /\ g[n] \in Nat
    BY <1>2, <1>4
  <2>2. ~(m < n) /\ ~(n < m)
    BY <1>2, <1>5, <2>1
  <2> QED
    BY <1>3, <2>2
<1>6. \A k : \A n \in Trusting(part, k) : n \in 1..N /\ g[n] \in Trusting(doc, k)
  BY <1>2, <1>3 DEF Trusting
<1>7. ASSUME NEW k \in Tokens
      PROVE  AtMostOne(Trusting(part, k)) /\ (Trusting(part, k) # {} => k \in spent)
  <2>1. AtMostOne(Trusting(doc, k)) /\ (Trusting(doc, k) # {} => k \in spent)
    BY DEF Booked
  <2> QED
    BY <1>5, <1>6, <2>1 DEF AtMostOne
<1> QED
  BY <1>7 DEF Booked, part

-----------------------------------------------------------------------------
(* The ledger of attestations.                                              *)

\* A handler whose copy and point did not change stays within a larger ledger.
LEMMA LodgedStays ==
  ASSUME NEW job, NEW next, NEW spent, NEW spent2, spent \subseteq spent2,
         Lodged(job, spent), next.doc = job.doc, next.pc = job.pc
  PROVE  Lodged(next, spent2)
<1>1. \A k : Solid(next, k) = Solid(job, k)
  BY DEF Solid
<1> QED
  BY <1>1 DEF Lodged

\* Nothing is trusted in an empty document.
LEMMA BlankTrusts == \A k : Trusting(Blank, k) = {}
<1>1. DOMAIN <<>> = {}
  OBVIOUS
<1> QED
  BY <1>1 DEF Blank, Trusting

\* What is trusted in a copy is solid, save for what is being spent.
LEMMA SolidIsTrusted ==
  ASSUME NEW job, NEW spent, Booked(job.doc, spent)
  PROVE  Lodged(job, spent)
BY DEF Booked, Lodged, Solid, AtMostOne

LEMMA TrustedIsSolid ==
  ASSUME NEW job, NEW spent, Lodged(job, spent), job.pc # "consume"
  PROVE  Booked(job.doc, spent)
<1>1. \A k : Solid(job, k) = Trusting(job.doc, k)
  BY DEF Solid
<1> QED
  BY <1>1 DEF Booked, Lodged

\* A step that keeps the ledger, the document and its own copy in order.
LEMMA LedgerStep ==
  ASSUME TypeInv, LedgerInv, NEW t \in Threads, Step(t),
         "erased" \notin lost' =>
           /\ used \subseteq used'
           /\ profile' # None => Booked(profile', used')
           /\ th'[t] # Idle => Lodged(th'[t], used')
  PROVE  LedgerInv'
<1>1. /\ \A s \in Threads \ {t} : Kept(s)
      /\ lost \subseteq lost'
  BY StepMoves
<1>2. ASSUME "erased" \notin lost', NEW s \in Threads, th'[s] # Idle
      PROVE  Lodged(th'[s], used')
  <2>1. CASE s = t
    BY <1>2, <2>1
  <2>2. CASE s # t
    <3>1. th[s] # Idle /\ th'[s].doc = th[s].doc /\ th'[s].pc = th[s].pc
      BY <1>1, <1>2, <2>2 DEF Kept
    <3>2. Lodged(th[s], used)
      BY <1>1, <1>2, <3>1 DEF LedgerInv, Busy
    <3> QED
      BY <1>2, <3>1, <3>2, LodgedStays
  <2> QED
    BY <2>1, <2>2
<1> QED
  BY <1>2 DEF LedgerInv, Busy

LEMMA StepLedger ==
  ASSUME TypeInv, LedgerInv, NEW t \in Threads, Step(t)
  PROVE  LedgerInv'
<1> DEFINE job == th[t]
<1>1. /\ job # Idle /\ job \in Job /\ Framed(job) /\ lost \subseteq lost'
  BY StepMoves
<1>2. SUFFICES ASSUME "erased" \notin lost'
               PROVE  /\ used \subseteq used'
                      /\ profile' # None => Booked(profile', used')
                      /\ th'[t] # Idle => Lodged(th'[t], used')
  BY LedgerStep
<1>3. /\ profile # None => Booked(profile, used)
      /\ Lodged(job, used)
  BY <1>1, <1>2 DEF LedgerInv, Busy
<1>4. \A doc, spent : (\A k : Trusting(doc, k) = {}) => Booked(doc, spent)
  BY DEF Booked, AtMostOne
<1>5. CASE Plain(t)
  <2>1. th'[t] # Idle => th'[t].doc = job.doc /\ job.pc # "consume"
    BY <1>5 DEF Plain
  <2>2. job.pc # "consume" => Booked(job.doc, used)
    BY <1>3, TrustedIsSolid
  <2> QED
    BY <1>3, <1>5, <2>1, <2>2, SolidIsTrusted DEF Plain
<1>6. CASE Get(t)
  <2>1. th'[t] = Gotten(job) /\ UNCHANGED <<profile, used>>
    BY <1>6, GetTyped, SetGives DEF Get, tables
  <2>2. Gotten(job).doc = IF profile = None THEN Blank ELSE profile
    BY <1>1 DEF Gotten, Job
  <2>3. Booked(Gotten(job).doc, used)
    BY <1>3, <1>4, <2>2, BlankTrusts
  <2> QED
    BY <1>3, <2>1, <2>3, SolidIsTrusted
<1>7. CASE ReadHashes(t)
  <2>1. /\ th'[t] = Rehashed(job) /\ UNCHANGED <<profile, used>> /\ job.pc = "hash"
    BY <1>7, ReadHashesTyped, SetGives DEF ReadHashes, At, tables
  <2>2. Rehashed(job).doc = job.doc
    BY <1>1 DEF Rehashed, Job
  <2>3. Booked(job.doc, used)
    BY <1>3, <2>1, TrustedIsSolid
  <2> QED
    BY <1>3, <2>1, <2>2, <2>3, SolidIsTrusted
<1>8. CASE Judge(t)
  <2>1. Judgement(job, th'[t]) /\ job.pc = "judge" /\ UNCHANGED <<profile, used>>
    BY <1>8, JudgeShape DEF tables
  <2>2. Booked(job.doc, used)
    BY <1>3, <2>1, TrustedIsSolid
  <2> QED
    BY <1>3, <2>1, <2>2 DEF Judgement, Booked, Lodged
<1>9. CASE ReadRemove(t)
  <2> DEFINE keep == {i \in DOMAIN profile.samples :
                        profile.samples[i].text # Head(job.todo)}
             without == [samples |-> Part(profile.samples, keep), drift |-> 0]
  <2>1. UNCHANGED <<profile, used>>
    BY <1>9 DEF ReadRemove, tables
  <2>2. \/ th'[t] = Idle
        \/ profile # None /\ th'[t] = [job EXCEPT !.doc = without, !.fresh = TRUE, !.pc = "put"]
    BY <1>1, <1>9 DEF ReadRemove, Finish, Set, TypeInv, TypeOK
  <2>3. ASSUME profile # None PROVE Booked(without, used)
    <3>1. profile \in Document /\ Booked(profile, used)
      BY <1>3, <2>3 DEF TypeInv, TypeOK
    <3> QED
      BY <3>1, PartTrusts
  <2> HIDE DEF without
  <2>4. th'[t] # Idle => profile # None /\ th'[t].doc = without
    BY <1>1, <2>2 DEF Job
  <2>5. th'[t] # Idle => Lodged(th'[t], used)
    BY <2>3, <2>4, SolidIsTrusted
  <2>6. used' = used /\ profile' = profile
    BY <2>1
  <2> QED
    BY <1>3, <2>5, <2>6
<1>10. CASE Create(t) /\ ~Fails(t)
  <2>1. /\ th'[t] = Created(job) /\ profile' = Blank /\ used' = used /\ job.pc = "create"
    BY <1>10, SetGives DEF Create, Created, At
  <2>2. Created(job).doc = Blank
    BY <1>1, <2>1, CreatedSound
  <2>3. Booked(Blank, used)
    BY <1>4, BlankTrusts
  <2> QED
    BY <2>1, <2>2, <2>3, SolidIsTrusted
<1>11. CASE Consume(t) /\ ~Fails(t)
  <2> DEFINE k == TokenOf(job.req)
  <2>1. /\ Settlement(job, th'[t], k, k \in used) /\ k \in Tokens
        /\ used' = used \cup {k} /\ profile' = profile
    BY <1>11, ConsumeShape
  <2>2. k \notin used => Solid(job, k) = {}
    BY <1>3, <2>1 DEF Lodged
  <2> HIDE DEF k
  <2>3. ASSUME NEW m \in Tokens
        PROVE  AtMostOne(Solid(th'[t], m)) /\ (Solid(th'[t], m) # {} => m \in used')
    <3>1. CASE m = k /\ k \notin used
      BY <2>1, <2>2, <3>1 DEF Settlement, AtMostOne
    <3>2. CASE ~(m = k /\ k \notin used)
      BY <1>3, <2>1, <3>2 DEF Settlement, Lodged
    <3> QED
      BY <3>1, <3>2
  <2>4. profile' # None => Booked(profile', used')
    BY <1>3, <2>1 DEF Booked
  <2> QED
    BY <2>1, <2>3, <2>4 DEF Lodged
<1>12. CASE Put(t) /\ ~Fails(t)
  <2>1. /\ profile' = job.doc /\ used' = used /\ th' = Overwritten(t, AfterPut(job))
        /\ job.pc = "put"
    BY <1>12, PutCases DEF Put, At
  <2>2. /\ th'[t] = AfterPut(job)
        /\ AfterPut(job) # Idle => AfterPut(job).doc = Blank
    BY <1>1, <2>1, AfterPutSound, SetGives
  <2>3. Booked(job.doc, used) /\ Booked(Blank, used)
    BY <1>3, <1>4, <2>1, BlankTrusts, TrustedIsSolid
  <2> QED
    BY <2>1, <2>2, <2>3, SolidIsTrusted
<1>13. CASE Wipe(t) /\ ~Fails(t)
  BY <1>2, <1>13 DEF Wipe
<1> QED
  BY <1>5, <1>6, <1>7, <1>8, <1>9, <1>10, <1>11, <1>12, <1>13, StepKinds

-----------------------------------------------------------------------------
(* The copies that nobody has overtaken.                                    *)

\* Putting a document ages every other copy.
LEMMA OverwrittenAges ==
  ASSUME TypeInv, NEW t \in Threads, NEW job, th' = Overwritten(t, job),
         NEW s \in Threads \ {t}, th'[s] # Idle
  PROVE  ~th'[s].fresh
<1>1. th[s] # Idle
  BY DEF Overwritten, Busy
<1>2. th[s] \in Job /\ th'[s] = [th[s] EXCEPT !.fresh = FALSE]
  BY <1>1 DEF Overwritten, Busy, TypeInv, FramesOK, Sound
<1> QED
  BY <1>2 DEF Job

LEMMA FreshStep ==
  ASSUME TypeInv, FreshInv, NEW t \in Threads, Step(t),
         \/ profile' = profile
         \/ \E job : th' = Overwritten(t, job),
         th'[t] # Idle /\ th'[t].fresh => FreshFrame(th'[t], profile')
  PROVE  FreshInv'
<1>1. \A s \in Threads \ {t} : Kept(s)
  BY StepMoves
<1>2. ASSUME NEW s \in Threads, th'[s] # Idle, th'[s].fresh
      PROVE  FreshFrame(th'[s], profile')
  <2>1. CASE s = t
    BY <1>2, <2>1
  <2>2. CASE s # t
    <3>1. profile' = profile
      BY <1>2, <2>2, OverwrittenAges
    <3>2. /\ th[s] # Idle /\ th[s].fresh /\ th'[s].doc = th[s].doc
          /\ th'[s].pc = th[s].pc /\ th'[s].req = th[s].req
      BY <1>1, <1>2, <2>2 DEF Kept
    <3>3. FreshFrame(th[s], profile)
      BY <3>2 DEF FreshInv, Busy
    <3> QED
      BY <3>1, <3>2, <3>3 DEF FreshFrame
  <2> QED
    BY <2>1, <2>2
<1> QED
  BY <1>2 DEF FreshInv, Busy

LEMMA StepFresh ==
  ASSUME TypeInv, FreshInv, NEW t \in Threads, Step(t)
  PROVE  FreshInv'
<1> DEFINE job == th[t]
<1>1. job # Idle /\ job \in Job /\ Framed(job) /\ job.doc \in Document
  BY StepMoves, JobFields
<1>2. job.fresh => FreshFrame(job, profile)
  BY <1>1 DEF FreshInv, Busy
<1>3. profile # None => profile \in Document
  BY DEF TypeInv, TypeOK
<1>4. th'[t] # Idle => th'[t] \in Job /\ Framed(th'[t]) /\ th'[t].doc \in Document
  BY StepTyped, JobFields DEF TypeInv, FramesOK, Sound
<1>5. CASE Plain(t)
  <2>1. profile' = profile
    BY <1>5 DEF Plain
  <2>2. th'[t] # Idle => FreshFrame(th'[t], profile')
    BY <1>5 DEF Plain, FreshFrame
  <2> QED
    BY <2>1, <2>2, FreshStep
<1>6. CASE Get(t)
  <2>1. th'[t] = Gotten(job) /\ profile' = profile
    BY <1>6, GetTyped, SetGives DEF Get, tables
  <2>2. /\ Gotten(job).doc = IF profile = None THEN Blank ELSE profile
        /\ Gotten(job).pc = IF profile = None THEN "create" ELSE Got(job.req)
    BY <1>1 DEF Gotten, Job
  <2>3. Got(job.req) \in {"hash", "judge"}
    BY DEF Got
  <2>4. FreshFrame(Gotten(job), profile)
    BY <1>3, <2>2, <2>3, SameExtends DEF FreshFrame, Holding
  <2> QED
    BY <2>1, <2>4, FreshStep
<1>7. CASE ReadHashes(t)
  <2>1. /\ th'[t] = Rehashed(job) /\ profile' = profile /\ job.pc = "hash"
    BY <1>7, ReadHashesTyped, SetGives DEF ReadHashes, At, tables
  <2>2. /\ Rehashed(job).doc = job.doc /\ Rehashed(job).pc = "judge"
        /\ Rehashed(job).req = job.req /\ Rehashed(job).fresh = job.fresh
    BY <1>1 DEF Rehashed, Job
  <2>3. job.fresh => FreshFrame(Rehashed(job), profile)
    BY <1>2, <2>1, <2>2 DEF FreshFrame, Holding
  <2> QED
    BY <2>1, <2>2, <2>3, FreshStep
<1>8. CASE Judge(t)
  <2>1. Judgement(job, th'[t]) /\ job.pc = "judge" /\ profile' = profile
    BY <1>8, JudgeShape DEF tables
  <2>2. job.req.op # "remove"
    BY <1>1, <2>1 DEF Framed, OpsAt, Adds
  <2>3. job.fresh => profile # None /\ Extends(job.doc, profile)
    BY <1>2, <2>1, <2>2 DEF FreshFrame, Holding
  <2>4. ASSUME th'[t] # Idle, th'[t].fresh PROVE FreshFrame(th'[t], profile')
    <3>1. /\ job.fresh /\ Extends(th'[t].doc, job.doc)
          /\ th'[t].pc = "consume" => Len(job.doc.samples) < Len(th'[t].doc.samples)
          /\ th'[t].pc # "create"
      BY <2>1, <2>4 DEF Judgement
    <3>2. /\ Extends(th'[t].doc, profile)
          /\ th'[t].pc = "consume" => Len(profile.samples) < Len(th'[t].doc.samples)
      BY <1>1, <1>3, <1>4, <2>3, <2>4, <3>1, ExtendsTransitive
    <3> QED
      BY <2>1, <2>3, <3>1, <3>2 DEF FreshFrame
  <2> QED
    BY <2>1, <2>4, FreshStep
<1>9. CASE ReadRemove(t)
  <2>1. profile' = profile /\ job.pc = "remove"
    BY <1>9 DEF ReadRemove, At, tables
  <2>2. \/ th'[t] = Idle
        \/ \E doc : th'[t] = [job EXCEPT !.doc = doc, !.fresh = TRUE, !.pc = "put"]
    BY <1>1, <1>9 DEF ReadRemove, Finish, Set, TypeInv, TypeOK
  <2>3. th'[t] # Idle => th'[t].req.op = "remove" /\ th'[t].pc = "put"
    BY <1>1, <2>1, <2>2 DEF Job, Framed, OpsAt
  <2>4. th'[t] # Idle => FreshFrame(th'[t], profile')
    BY <2>3 DEF FreshFrame
  <2> QED
    BY <2>1, <2>4, FreshStep
<1>10. CASE Create(t) /\ ~Fails(t)
  <2>1. /\ th' = Overwritten(t, Created(job)) /\ profile' = Blank /\ job.pc = "create"
    BY <1>10 DEF Create, Created, At
  <2>2. /\ th'[t] = Created(job) /\ Created(job).doc = Blank
        /\ Created(job).pc \in {"hash", "judge"}
    BY <1>1, <2>1, CreatedSound, SetGives
  <2>3. FreshFrame(Created(job), Blank)
    BY <2>2, BlankFacts, SameExtends, NoDocumentAssumption DEF FreshFrame
  <2> QED
    BY <2>1, <2>2, <2>3, FreshStep
<1>11. CASE Consume(t) /\ ~Fails(t)
  <2> DEFINE n == Len(job.doc.samples)
             k == TokenOf(job.req)
  <2>1. /\ Settlement(job, th'[t], k, k \in used) /\ profile' = profile
        /\ job.pc = "consume" /\ job.req.op = "upload"
    BY <1>11, ConsumeShape
  <2>2. /\ th'[t].fresh = job.fresh /\ th'[t].pc \in {"judge", "put"}
        /\ Len(th'[t].doc.samples) = n
        /\ \A i \in 1..n : i # n => th'[t].doc.samples[i] = job.doc.samples[i]
    BY <2>1 DEF Settlement
  <2>3. ASSUME job.fresh PROVE FreshFrame(th'[t], profile)
    <3>1. profile # None /\ Extends(job.doc, profile) /\ Len(profile.samples) < n
      BY <1>2, <2>1, <2>3 DEF FreshFrame, Holding
    <3>2. n \in Nat /\ Len(profile.samples) \in Nat
      BY <1>1, <1>3, <3>1, LenProperties DEF Document
    <3> HIDE DEF n
    <3>3. \A i \in 1..Len(profile.samples) : i \in 1..n /\ i # n
      BY <3>1, <3>2
    <3>4. Extends(th'[t].doc, profile)
      BY <2>2, <3>1, <3>3 DEF Extends, n
    <3> QED
      BY <2>2, <3>1, <3>4 DEF FreshFrame
  <2> QED
    BY <2>1, <2>2, <2>3, FreshStep
<1>12. CASE Put(t) /\ ~Fails(t)
  <2>1. th' = Overwritten(t, AfterPut(job)) /\ job.pc = "put"
    BY <1>12, PutCases DEF Put, At
  <2>2. /\ th'[t] = AfterPut(job)
        /\ AfterPut(job) # Idle => AfterPut(job).pc \in {"complete", "row", "decide"}
    BY <1>1, <2>1, AfterPutSound, SetGives
  <2>3. th'[t] # Idle => FreshFrame(th'[t], profile')
    BY <2>2 DEF FreshFrame, Holding
  <2> QED
    BY <2>1, <2>3, FreshStep
<1>13. CASE Wipe(t) /\ ~Fails(t)
  <2>1. th' = Overwritten(t, [job EXCEPT !.pc = "purge"])
    BY <1>13 DEF Wipe
  <2>2. th'[t] = [job EXCEPT !.pc = "purge"]
    BY <2>1, SetGives
  <2>3. FreshFrame(th'[t], profile')
    BY <1>1, <2>2 DEF FreshFrame, Holding, Job
  <2> QED
    BY <2>1, <2>3, FreshStep
<1> QED
  BY <1>5, <1>6, <1>7, <1>8, <1>9, <1>10, <1>11, <1>12, <1>13, StepKinds

-----------------------------------------------------------------------------
(* Where the spent attestations are.                                        *)

Held(current, k) == current # None /\ Trusting(current, k) # {}

\* A step that loses neither the document's samples nor those its copy carried.
LEMMA SpentStep ==
  ASSUME TypeInv, SpentInv, NEW t \in Threads, Step(t),
         lost' = {} => \A k \in used' :
           \/ th'[t] # Idle /\ Carries(th'[t], k)
           \/ /\ k \in used
              /\ Held(profile, k) => Held(profile', k)
              /\ Carries(th[t], k) =>
                   Held(profile', k) \/ (th'[t] # Idle /\ Carries(th'[t], k))
  PROVE  SpentInv'
<1>1. lost \subseteq lost' /\ \A s \in Threads \ {t} : Kept(s)
  BY StepMoves
<1>2. ASSUME lost' = {}, NEW k \in used'
      PROVE  Held(profile', k) \/ \E s \in Threads : th'[s] # Idle /\ Carries(th'[s], k)
  <2>1. CASE th'[t] # Idle /\ Carries(th'[t], k)
    BY <2>1
  <2>2. CASE ~(th'[t] # Idle /\ Carries(th'[t], k))
    <3>1. /\ k \in used /\ (Held(profile, k) => Held(profile', k))
          /\ Carries(th[t], k) => Held(profile', k)
      BY <1>2, <2>2
    <3>2. Held(profile, k) \/ \E s \in Threads : th[s] # Idle /\ Carries(th[s], k)
      BY <1>1, <1>2, <3>1 DEF SpentInv, Busy, Held
    <3>3. ASSUME NEW s \in Threads \ {t}, th[s] # Idle, Carries(th[s], k)
          PROVE  th'[s] # Idle /\ Carries(th'[s], k)
      BY <1>1, <3>3 DEF Kept, Carries, Solid
    <3> QED
      BY <3>1, <3>2, <3>3
  <2> QED
    BY <2>1, <2>2
<1> QED
  BY <1>2 DEF SpentInv, Busy, Held

LEMMA StepSpent ==
  ASSUME TypeInv, LedgerInv, FreshInv, SpentInv, NEW t \in Threads, Step(t)
  PROVE  SpentInv'
<1> DEFINE job == th[t]
<1>1. /\ job # Idle /\ job \in Job /\ Framed(job) /\ job.doc \in Document
      /\ lost \subseteq lost'
  BY StepMoves, JobFields
<1>2. job.fresh => FreshFrame(job, profile)
  BY <1>1 DEF FreshInv, Busy
<1>3. used \subseteq Tokens /\ (profile # None => profile \in Document)
  BY DEF TypeInv, TypeOK
<1>4. CASE Plain(t) \/ Get(t) \/ ReadHashes(t) \/ ReadRemove(t)
  <2>1. UNCHANGED <<profile, used>>
    BY <1>4 DEF Plain, Get, ReadHashes, ReadRemove, tables
  <2>2. job.pc \in {"judge", "consume", "put"} => "fault" \in lost'
    BY <1>4 DEF Plain, Get, ReadHashes, ReadRemove, At, Holding
  <2>3. lost' = {} => \A k : ~Carries(job, k)
    BY <2>2 DEF Carries
  <2> QED
    BY <2>1, <2>3, SpentStep
<1>5. CASE Judge(t)
  <2>1. Judgement(job, th'[t]) /\ job.pc = "judge" /\ UNCHANGED <<profile, used>>
    BY <1>5, JudgeShape DEF tables
  <2>2. ASSUME NEW k \in Tokens, Carries(job, k)
        PROVE  th'[t] # Idle /\ Carries(th'[t], k)
    <3>1. job.changed /\ Trusting(job.doc, k) # {}
      BY <2>1, <2>2 DEF Carries, Solid
    <3> QED
      BY <2>1, <3>1 DEF Judgement, Carries
  <2> QED
    BY <1>3, <2>1, <2>2, SpentStep
<1>6. CASE Create(t) /\ ~Fails(t)
  <2>1. /\ used' = used /\ job.pc = "create"
        /\ lost' = IF job.fresh THEN lost ELSE lost \cup {"stale"}
    BY <1>6 DEF Create, At
  <2>2. lost' = {} => profile = None
    BY <1>2, <2>1 DEF FreshFrame
  <2>3. \A k : ~Carries(job, k)
    BY <2>1 DEF Carries
  <2> QED
    BY <2>1, <2>2, <2>3, SpentStep DEF Held
<1>7. CASE Consume(t) /\ ~Fails(t)
  <2> DEFINE k == TokenOf(job.req)
             n == Len(job.doc.samples)
  <2>1. /\ Settlement(job, th'[t], k, k \in used) /\ k \in Tokens
        /\ used' = used \cup {k} /\ profile' = profile
    BY <1>7, ConsumeShape
  <2>2. th'[t] # Idle /\ th'[t].changed /\ th'[t].pc \in {"judge", "put"}
    BY <2>1 DEF Settlement
  <2> HIDE DEF k
  <2>3. ASSUME NEW m \in Tokens, Carries(job, m) PROVE Carries(th'[t], m)
    <3>1. Solid(job, m) # {}
      BY <2>3 DEF Carries
    <3>2. Solid(th'[t], m) = IF m = k /\ k \notin used THEN Solid(job, m) \cup {n}
                             ELSE Solid(job, m)
      BY <2>1 DEF Settlement
    <3> QED
      BY <2>2, <3>1, <3>2 DEF Carries
  <2>4. ASSUME k \notin used PROVE Carries(th'[t], k)
    <3>1. Solid(th'[t], k) = Solid(job, k) \cup {n}
      BY <2>1, <2>4 DEF Settlement
    <3> QED
      BY <2>2, <3>1 DEF Carries
  <2> QED
    BY <1>3, <2>1, <2>2, <2>3, <2>4, SpentStep
<1>8. CASE Put(t) /\ ~Fails(t)
  <2>1. /\ profile' = job.doc /\ used' = used /\ job.pc = "put"
        /\ lost' = lost \cup (IF job.fresh THEN {} ELSE {"stale"})
                        \cup (IF job.req.op = "remove" THEN {"removed"} ELSE {})
    BY <1>8, PutCases DEF Put, At
  <2>2. job.doc # None
    BY <1>1, NoDocumentAssumption
  <2>3. \A k : Carries(job, k) => Held(job.doc, k)
    BY <2>1, <2>2 DEF Carries, Solid, Held
  <2>4. ASSUME lost' = {}, NEW k, Held(profile, k) PROVE Held(job.doc, k)
    <3>1. job.fresh /\ job.req.op # "remove"
      BY <2>1, <2>4
    <3>2. profile # None /\ Extends(job.doc, profile)
      BY <1>2, <2>1, <3>1 DEF FreshFrame, Holding
    <3>3. Trusting(profile, k) \subseteq Trusting(job.doc, k)
      BY <1>1, <1>3, <3>2, ExtendsTrusts
    <3> QED
      BY <2>2, <2>4, <3>3 DEF Held
  <2> QED
    BY <2>1, <2>3, <2>4, SpentStep
<1>9. CASE Wipe(t) /\ ~Fails(t)
  <2>1. "erased" \in lost'
    BY <1>9 DEF Wipe
  <2> QED
    BY <2>1 DEF SpentInv
<1> QED
  BY <1>4, <1>5, <1>6, <1>7, <1>8, <1>9, StepKinds

-----------------------------------------------------------------------------
(* The papers that read approved.                                           *)

LEMMA PaperStep ==
  ASSUME TypeInv, PaperInv, NEW t \in Threads, Step(t),
         lost' \cap {"stale", "removed", "erased"} = {} =>
           /\ Counted(profile) \subseteq Counted(profile')
           /\ th'[t] # Idle => Grounded(th'[t], Counted(profile'))
           /\ \A p \in Papers : paper'[p] = "approved" =>
                paper[p] = "approved" \/ PaperText[p] \in Counted(profile)
  PROVE  PaperInv'
<1>1. lost \subseteq lost' /\ \A s \in Threads \ {t} : Kept(s)
  BY StepMoves
<1>2. SUFFICES ASSUME lost' \cap {"stale", "removed", "erased"} = {}
               PROVE  /\ \A p \in Papers : paper'[p] = "approved" =>
                           PaperText[p] \in Counted(profile')
                      /\ \A s \in Threads : th'[s] # Idle =>
                           Grounded(th'[s], Counted(profile'))
  BY DEF PaperInv, Busy
<1>3. /\ \A p \in Papers : paper[p] = "approved" => PaperText[p] \in Counted(profile)
      /\ \A s \in Threads : th[s] # Idle => Grounded(th[s], Counted(profile))
  BY <1>1, <1>2 DEF PaperInv, Busy
<1>4. ASSUME NEW s \in Threads \ {t}, th'[s] # Idle
      PROVE  Grounded(th'[s], Counted(profile'))
  <2>1. /\ th[s] # Idle /\ th'[s].pc = th[s].pc /\ th'[s].req = th[s].req
        /\ th'[s].seen = th[s].seen /\ th'[s].held = th[s].held
    BY <1>1, <1>4 DEF Kept
  <2>2. Grounded(th[s], Counted(profile))
    BY <1>3, <2>1
  <2> QED
    BY <1>2, <2>1, <2>2 DEF Grounded
<1> QED
  BY <1>2, <1>3, <1>4

LEMMA StepPapers ==
  ASSUME TypeInv, FreshInv, PaperInv, NEW t \in Threads, Step(t)
  PROVE  PaperInv'
<1> DEFINE job == th[t]
<1>1. /\ job # Idle /\ job \in Job /\ Framed(job) /\ job.doc \in Document
      /\ lost \subseteq lost'
  BY StepMoves, JobFields
<1>2. job.fresh => FreshFrame(job, profile)
  BY <1>1 DEF FreshInv, Busy
<1>3. profile # None => profile \in Document
  BY DEF TypeInv, TypeOK
<1>4. SUFFICES ASSUME lost' \cap {"stale", "removed", "erased"} = {}
               PROVE  /\ Counted(profile) \subseteq Counted(profile')
                      /\ th'[t] # Idle => Grounded(th'[t], Counted(profile'))
                      /\ \A p \in Papers : paper'[p] = "approved" =>
                           paper[p] = "approved" \/ PaperText[p] \in Counted(profile)
  BY PaperStep
<1>5. Grounded(job, Counted(profile))
  BY <1>1, <1>4 DEF PaperInv, Busy
<1>6. OwnFrame(t)
  BY StepOwnFrame
<1>7. CASE Plain(t)
  <2>1. profile' = profile
    BY <1>7 DEF Plain
  <2>2. th'[t] # Idle => Grounded(th'[t], Counted(profile))
    BY <1>5, <1>6, <1>7 DEF Plain, Grounded, OwnFrame, Holding
  <2>3. ASSUME NEW p \in Papers, paper'[p] = "approved"
        PROVE  paper[p] = "approved" \/ PaperText[p] \in Counted(profile)
    <3>1. CASE paper' = paper
      BY <2>3, <3>1
    <3>2. CASE InsertPaper(t)
      BY <2>3, <3>2 DEF InsertPaper, TypeInv, TypeOK
    <3>3. CASE SetPaperStatus(t)
      <4>1. job.pc = "decide" /\ job.req.op \in {"paper", "decline"}
        BY <1>1, <3>3 DEF SetPaperStatus, At, Framed, OpsAt
      <4>2. \/ paper'[p] = paper[p]
            \/ p = job.req.paper /\ paper'[p] = Verdict(job)
        BY <3>3 DEF SetPaperStatus, TypeInv, TypeOK
      <4>3. Verdict(job) = "approved" => job.req.op = "paper" /\ ~job.held
        BY <4>1 DEF Verdict
      <4> QED
        BY <1>5, <2>3, <4>1, <4>2, <4>3 DEF Grounded
    <3> QED
      BY <1>7, <3>1, <3>2, <3>3 DEF Plain
  <2> QED
    BY <2>1, <2>2, <2>3
<1>8. ~Plain(t) => paper' = paper \/ (Wipe(t) /\ ~Fails(t))
  BY StepKinds DEF Get, ReadHashes, Judge, ReadRemove, Create, Consume, Put, tables
<1>9. CASE Get(t)
  <2>1. th'[t] = Gotten(job) /\ UNCHANGED <<profile, paper>>
    BY <1>9, GetTyped, SetGives DEF Get, tables
  <2>2. /\ Gotten(job).seen = IF profile = None THEN {} ELSE Hashes(profile)
        /\ Gotten(job).pc \in {"create", "hash", "judge"}
    BY <1>1 DEF Gotten, Job, Got
  <2>3. Gotten(job).seen = Counted(profile)
    BY <1>3, <2>2, DocTexts DEF Counted
  <2> QED
    BY <2>1, <2>2, <2>3 DEF Grounded
<1>10. CASE ReadHashes(t) \/ ReadRemove(t)
  <2>1. UNCHANGED <<profile, paper>> /\ job.req.op # "paper"
    BY <1>1, <1>10 DEF ReadHashes, ReadRemove, At, tables, Framed, OpsAt
  <2> QED
    BY <1>6, <2>1 DEF Grounded, OwnFrame
<1>11. CASE Judge(t)
  <2>1. Judgement(job, th'[t]) /\ job.pc = "judge" /\ UNCHANGED <<profile, paper>>
    BY <1>11, JudgeShape DEF tables
  <2>2. ASSUME th'[t] # Idle, job.req.op = "paper", th'[t].pc = "decide"
        PROVE  PaperText[job.req.paper] \in Counted(profile)
    <3>1. job.todo = <<PaperText[job.req.paper]>> /\ Head(job.todo) \in job.seen
      BY <1>1, <2>1, <2>2 DEF Judgement, Known, Framed, PaperFrame
    <3>2. job.seen \subseteq Counted(profile)
      BY <1>5, <2>1, <2>2 DEF Grounded
    <3> QED
      BY <3>1, <3>2
  <2> QED
    BY <1>6, <2>1, <2>2 DEF Grounded, OwnFrame, Judgement
<1>12. CASE Create(t) /\ ~Fails(t)
  <2>1. /\ th'[t] = Created(job) /\ profile' = Blank /\ job.pc = "create"
        /\ lost' = IF job.fresh THEN lost ELSE lost \cup {"stale"}
        /\ paper' = paper
    BY <1>12, SetGives DEF Create, Created, At
  <2>2. profile = None
    BY <1>2, <1>4, <2>1 DEF FreshFrame
  <2>3. Created(job).seen = {} /\ Created(job).pc \in {"hash", "judge"}
    BY <1>1, <2>1, CreatedSound DEF Framed
  <2> QED
    BY <2>1, <2>2, <2>3 DEF Counted, Grounded
<1>13. CASE Consume(t) /\ ~Fails(t)
  <2>1. profile' = profile /\ paper' = paper /\ job.req.op = "upload"
    BY <1>13, ConsumeShape
  <2> QED
    BY <1>6, <2>1 DEF Grounded, OwnFrame
<1>14. CASE Put(t) /\ ~Fails(t)
  <2>1. /\ profile' = job.doc /\ th' = Overwritten(t, AfterPut(job)) /\ paper' = paper
        /\ lost' = lost \cup (IF job.fresh THEN {} ELSE {"stale"})
                        \cup (IF job.req.op = "remove" THEN {"removed"} ELSE {})
        /\ job.pc = "put"
    BY <1>14, PutCases DEF Put, At
  <2>2. job.fresh /\ job.req.op # "remove"
    BY <1>4, <2>1
  <2>3. profile # None /\ Extends(job.doc, profile)
    BY <1>2, <2>1, <2>2 DEF FreshFrame, Holding
  <2>4. Counted(profile') = TextsOf(job.doc) /\ Counted(profile) \subseteq TextsOf(job.doc)
    BY <1>1, <1>3, <2>1, <2>3, ExtendsTexts, NoDocumentAssumption DEF Counted
  <2>5. job.req.op = "paper" => job.held \/ PaperText[job.req.paper] \in TextsOf(job.doc)
    BY <1>1, <2>1 DEF Framed, PaperFrame
  <2>6. /\ th'[t] = AfterPut(job)
        /\ AfterPut(job) # Idle =>
             /\ AfterPut(job).req = job.req
             /\ \/ AfterPut(job).pc = "complete" /\ AfterPut(job).held = job.held
                \/ AfterPut(job).pc = "row"
                \/ AfterPut(job).pc = "decide" /\ AfterPut(job).held
    BY <1>1, <2>1, AfterPutSound, SetGives
  <2>7. th'[t] # Idle => Grounded(th'[t], TextsOf(job.doc))
    BY <2>5, <2>6 DEF Grounded
  <2> QED
    BY <2>1, <2>4, <2>7
<1>15. CASE Wipe(t) /\ ~Fails(t)
  BY <1>4, <1>15 DEF Wipe
<1> QED
  BY <1>7, <1>9, <1>10, <1>11, <1>12, <1>13, <1>14, <1>15, StepKinds

-----------------------------------------------------------------------------
(* The theorems.                                                            *)

TrustInv == LedgerInv /\ FreshInv /\ SpentInv /\ PaperInv

LEMMA InitTrusts == Init => TrustInv
<1> SUFFICES ASSUME Init PROVE TrustInv
  OBVIOUS
<1>1. /\ profile = None /\ used = {} /\ paper \in [Papers -> {None, "pending"}]
      /\ \A t \in Threads : ~Busy(t)
  BY DEF Init, Busy
<1>2. \A p \in Papers : paper[p] # "approved"
  BY <1>1, NoStatusAssumption
<1> QED
  BY <1>1, <1>2 DEF TrustInv, LedgerInv, FreshInv, SpentInv, PaperInv

\* A request that begins has no copy yet and knows of no text.
LEMMA BeginTrusts ==
  ASSUME TypeInv, TrustInv, NEW t \in Threads, Begin(t)
  PROVE  TrustInv'
<1>1. PICK r \in Calls : th' = Joined(t, NewJob(r))
  BY DEF Begin, NewJob, Joined
<1>2. /\ Sound(NewJob(r)) /\ NewJob(r).doc = Blank
      /\ NewJob(r).pc \in {"get", "rows", "paper", "check", "record", "poll"}
  BY NewJobSound, RequestTypes DEF Sound, FirstPc
<1>3. th'[t] = NewJob(r) /\ \A s \in Threads \ {t} : Kept(s)
  BY <1>1, <1>2, Moves DEF TypeInv, TypeOK
<1>4. UNCHANGED <<profile, used, paper, lost>> /\ ~Busy(t)
  BY DEF Begin, tables
<1>5. ASSUME NEW s \in Threads, th'[s] # Idle
      PROVE  \/ s = t
             \/ /\ th[s] # Idle /\ th'[s].doc = th[s].doc /\ th'[s].pc = th[s].pc
                /\ th'[s].req = th[s].req /\ th'[s].seen = th[s].seen
                /\ th'[s].held = th[s].held /\ th'[s].changed = th[s].changed
                /\ th'[s].fresh => th[s].fresh
  BY <1>3, <1>5 DEF Kept
<1>6. LedgerInv'
  <2> SUFFICES ASSUME "erased" \notin lost, NEW s \in Threads, th'[s] # Idle
               PROVE  Lodged(th'[s], used)
    BY <1>4 DEF TrustInv, LedgerInv, Busy
  <2>1. CASE s = t
    <3>1. Booked(Blank, used)
      BY BlankTrusts DEF Booked, AtMostOne
    <3> QED
      BY <1>2, <1>3, <2>1, <3>1, SolidIsTrusted
  <2>2. CASE s # t
    <3>1. Lodged(th[s], used)
      BY <1>5, <2>2 DEF TrustInv, LedgerInv, Busy
    <3> QED
      BY <1>5, <2>2, <3>1, LodgedStays
  <2> QED
    BY <2>1, <2>2
<1>7. FreshInv'
  <2> SUFFICES ASSUME NEW s \in Threads, th'[s] # Idle, th'[s].fresh
               PROVE  FreshFrame(th'[s], profile)
    BY <1>4 DEF FreshInv, Busy
  <2>1. CASE s = t
    BY <1>2, <1>3, <2>1 DEF FreshFrame, Holding
  <2>2. CASE s # t
    <3>1. FreshFrame(th[s], profile)
      BY <1>5, <2>2 DEF TrustInv, FreshInv, Busy
    <3> QED
      BY <1>5, <2>2, <3>1 DEF FreshFrame
  <2> QED
    BY <2>1, <2>2
<1>8. SpentInv'
  <2> SUFFICES ASSUME lost = {}, NEW k \in used
               PROVE  \/ profile # None /\ Trusting(profile, k) # {}
                      \/ \E s \in Threads : th'[s] # Idle /\ Carries(th'[s], k)
    BY <1>4 DEF SpentInv, Busy
  <2>1. \/ profile # None /\ Trusting(profile, k) # {}
        \/ \E s \in Threads : th[s] # Idle /\ Carries(th[s], k)
    BY DEF TrustInv, SpentInv, Busy
  <2>2. ASSUME NEW s \in Threads, th[s] # Idle, Carries(th[s], k)
        PROVE  th'[s] # Idle /\ Carries(th'[s], k)
    BY <1>3, <1>4, <2>2 DEF Kept, Busy, Carries, Solid
  <2> QED
    BY <2>1, <2>2
<1>9. PaperInv'
  <2> SUFFICES ASSUME lost \cap {"stale", "removed", "erased"} = {},
                      NEW s \in Threads, th'[s] # Idle
               PROVE  Grounded(th'[s], Counted(profile))
    BY <1>4 DEF TrustInv, PaperInv, Busy
  <2>1. CASE s = t
    BY <1>2, <1>3, <2>1 DEF Grounded
  <2>2. CASE s # t
    <3>1. Grounded(th[s], Counted(profile))
      BY <1>5, <2>2 DEF TrustInv, PaperInv, Busy
    <3> QED
      BY <1>5, <2>2, <3>1 DEF Grounded
  <2> QED
    BY <2>1, <2>2
<1> QED
  BY <1>6, <1>7, <1>8, <1>9 DEF TrustInv

LEMMA CrashTrusts ==
  ASSUME TypeInv, TrustInv, Crash
  PROVE  TrustInv'
<1>1. /\ UNCHANGED <<profile, used, paper>> /\ lost' = lost \cup {"crash"}
      /\ \A t \in Threads : th'[t] = Idle
  BY DEF Crash, tables
<1> QED
  BY <1>1 DEF TrustInv, LedgerInv, FreshInv, SpentInv, PaperInv, Busy

\* What has proctored weight on an attestation's account has spent it, a fresh
\* copy extends the document, a spent attestation has its sample and an
\* approved paper its text.
THEOREM TrustHolds == Spec => []TrustInv
<1>1. TypeInv /\ TrustInv /\ [Next]_vars => TrustInv'
  <2> SUFFICES ASSUME TypeInv, TrustInv, [Next]_vars PROVE TrustInv'
    OBVIOUS
  <2>1. CASE UNCHANGED vars
    BY <2>1 DEF vars, tables, TrustInv, LedgerInv, FreshInv, SpentInv, PaperInv, Busy
  <2>2. ASSUME NEW t \in Threads, Begin(t) PROVE TrustInv'
    BY <2>2, BeginTrusts
  <2>3. ASSUME NEW t \in Threads, Step(t) PROVE TrustInv'
    BY <2>3, StepLedger, StepFresh, StepSpent, StepPapers DEF TrustInv
  <2>4. CASE Crash
    BY <2>4, CrashTrusts
  <2> QED
    BY <2>1, <2>2, <2>3, <2>4 DEF Next
<1> QED
  BY <1>1, InitTrusts, TypesHold, PTL DEF Spec

\* Single use of an attestation: however uploads that present one interleave,
\* repeat or share a batch, and whatever verified or Canvas samples it was
\* presented for, the ledger gives one sample proctored weight for it.  (The
\* verified and Canvas ones it does not count: AttestationForOneDocument.)
THEOREM AttestationCountsOnce == Spec => []AttestationOnce
<1>1. TrustInv => AttestationOnce
  <2> SUFFICES ASSUME TrustInv, profile # None, "erased" \notin lost, NEW k \in Tokens
               PROVE  Cardinality(Trusting(profile, k)) <= 1
    BY DEF AttestationOnce
  <2>1. AtMostOne(Trusting(profile, k))
    BY DEF TrustInv, LedgerInv, Booked
  <2>2. CASE Trusting(profile, k) = {}
    BY <2>2, FS_EmptySet
  <2>3. CASE Trusting(profile, k) # {}
    <3>1. PICK i : i \in Trusting(profile, k)
      BY <2>3
    <3>2. Trusting(profile, k) = {i}
      BY <2>1, <3>1 DEF AtMostOne
    <3> QED
      BY <3>2, FS_Singleton
  <2> QED
    BY <2>2, <2>3
<1> QED
  BY <1>1, TrustHolds, PTL

\* The drift gate burns no attestation: what was spent has its sample in the
\* document or in the copy of a handler still on its way to put it.
THEOREM AttestationFindsSample == Spec => []SpentOnASample
<1>1. TrustInv => SpentOnASample
  <2> SUFFICES ASSUME TrustInv, lost = {}, NEW k \in used
               PROVE  \/ profile # None /\ Trusting(profile, k) # {}
                      \/ \E t \in Threads : Busy(t) /\ Trusting(th[t].doc, k) # {}
    BY DEF SpentOnASample
  <2>1. \A t \in Threads : Carries(th[t], k) => Trusting(th[t].doc, k) # {}
    BY DEF Carries, Solid
  <2> QED
    BY <2>1 DEF TrustInv, SpentInv
<1> QED
  BY <1>1, TrustHolds, PTL

\* What the decline route tells the teacher of an approved paper is so: its
\* text is counted, unless a write or a removal took it away.
THEOREM ApprovedPaperCounts == Spec => []ApprovedIsCounted
<1>1. TrustInv => ApprovedIsCounted
  BY DEF TrustInv, PaperInv, ApprovedIsCounted, Counted
<1> QED
  BY <1>1, TrustHolds, PTL
=============================================================================
