-------------------------- MODULE BaselineProofs --------------------------
(***************************************************************************)
(* Theorems about Baseline, for every set of threads, texts, attestations, *)
(* papers and requests, with or without store faults and crashes.          *)
(***************************************************************************)
EXTENDS Baseline, FiniteSetTheorems, SequenceTheorems, TLAPS

-----------------------------------------------------------------------------
(* What each point of a handler has established.                            *)

Adds == {"upload", "approve", "paper"}

\* The routes that reach a point.
OpsAt(pc) ==
  CASE pc \in {"get", "create", "judge", "complete"} -> Adds
    [] pc = "put" -> Adds \cup {"remove"}
    [] pc = "persist" -> Adds \cup {"ask", "poll"}
    [] pc \in {"hash", "consume"} -> {"upload"}
    [] pc = "rows" -> {"approve", "remove"}
    [] pc = "row" -> {"approve"}
    [] pc = "remove" -> {"remove"}
    [] pc = "paper" -> {"share", "paper", "decline"}
    [] pc = "insert" -> {"share"}
    [] pc = "decide" -> {"paper", "decline"}
    [] pc \in {"check", "wipe", "purge"} -> {"erase"}
    [] pc \in {"record", "bbook"} -> {"ask"}
    [] pc = "poll" -> {"poll"}

\* Points that still have a text to handle, and those that hold a document.
Handling == {"row", "remove", "get", "create", "hash", "judge", "consume"}
Holding == {"hash", "judge", "consume", "put"}

\* No keyed sample repeats an earlier text.
NoRepeats(doc) ==
  \A i, j \in DOMAIN doc.samples :
    i < j /\ doc.samples[j].keyed => doc.samples[i].text # doc.samples[j].text

\* The last sample of the copy is the one whose attestation is being spent.
Spending(job) ==
  LET last == Len(job.doc.samples)
  IN  /\ last > 0
      /\ job.req.token # None /\ job.prov = "proctored" /\ job.changed
      /\ job.doc.samples[last].token = job.req.token
      /\ job.doc.samples[last].prov = "proctored"

\* A shared paper has one text, which its copy counts unless the gate held it.
PaperFrame(job) ==
  LET x == PaperText[job.req.paper]
  IN  /\ job.prov = "unverified"
      /\ job.pc \in {"paper", "get", "create", "judge"} => ~job.changed /\ ~job.held
      /\ job.pc \in {"get", "create", "judge"} => job.todo = <<x>>
      /\ job.pc = "put" => job.held \/ x \in TextsOf(job.doc)

Framed(job) ==
  /\ job.req.op \in OpsAt(job.pc)
  /\ job.pc \in Handling => job.todo # <<>>
  /\ job.pc # "persist" => job.snaps = {}
  /\ job.pc = "create" => job.doc = Blank /\ job.seen = {}
  /\ job.pc = "hash" => IsCanvas(job.req)
  /\ job.pc = "consume" => Spending(job)
  /\ job.pc \in {"judge", "consume"} /\ Keyed(job.req) => TextsOf(job.doc) \subseteq job.seen
  /\ job.req.op = "paper" => PaperFrame(job)
  /\ NoRepeats(job.doc)

Sound(job) == job = Idle \/ (job \in Job /\ Framed(job))

FramesOK == \A t \in Threads : Sound(th[t])

RowsKnown == \A a \in Ids : row[a] # None => obj[a] # None

\* The registry knows every request that has a row, a snapshot or a handler.
RegistryInv ==
  /\ RowsKnown
  /\ \A t \in Threads : Busy(t) =>
       /\ th[t].pc \in {"bbook", "persist"} => hydrated
       /\ \A s \in th[t].snaps : obj[s.id] # None
       /\ th[t].req.op = "ask" /\ th[t].pc # "record" => obj[th[t].req.id] # None
       /\ th[t].pc = "record" =>
            /\ obj[th[t].req.id] = None
            /\ \A s \in Threads \ {t} : Busy(s) /\ th[s].req.op = "ask" =>
                 th[s].req.id # th[t].req.id

TypeInv ==
  /\ TypeOK /\ FramesOK /\ RegistryInv
  /\ profile # None => NoRepeats(profile)

-----------------------------------------------------------------------------
(* The table of requests, and erasure.                                      *)

InTable(a) == row[a] = IF a \in listed THEN obj[a] ELSE None

TableInv ==
  hydrated /\ lost \cap {"crossed", "fault", "erased"} = {} =>
    \A a \in Ids :
      \/ InTable(a)
      \/ \E t \in Threads : Busy(t) /\ [id |-> a, request |-> obj[a]] \in th[t].snaps

Erased ==
  /\ profile = None /\ used = {} /\ sealed = {}
  /\ \A p \in Papers : paper[p] = None
  /\ \A a \in Ids : row[a] = None

EraseInv ==
  /\ \A t \in Threads : Busy(t) =>
       /\ th[t].alone => \A s \in Threads \ {t} : ~Busy(s)
       /\ th[t].pc = "purge" => "erased" \in lost
       /\ th[t].pc = "purge" /\ th[t].alone => Erased
  /\ clean => Erased /\ listed = {} /\ \A t \in Threads : ~Busy(t)
-----------------------------------------------------------------------------
(* Sequences.                                                               *)

\* The part of a sequence at some positions is a subsequence: position n of it
\* stands for a position g[n], in the same order.
LEMMA PartIsSubsequence ==
  ASSUME NEW S, NEW s \in Seq(S), NEW ks \in SUBSET DOMAIN s
  PROVE  /\ Part(s, ks) \in Seq(S)
         /\ Len(Part(s, ks)) = Cardinality(ks)
         /\ \E g \in [1..Cardinality(ks) -> ks] :
              /\ \A m, n \in 1..Cardinality(ks) : m < n => g[m] < g[n]
              /\ \A n \in 1..Cardinality(ks) : Part(s, ks)[n] = s[g[n]]
<1> DEFINE Below(k) == {j \in ks : j <= k}
           N == Cardinality(ks)
           rank == [k \in ks |-> Cardinality(Below(k))]
           g == [n \in 1..N |->
                   CHOOSE k \in ks : Cardinality({j \in ks : j <= k}) = n]
<1>1. Len(s) \in Nat /\ DOMAIN s = 1..Len(s) /\ \A i \in 1..Len(s) : s[i] \in S
  BY LenProperties, ElementOfSeq
<1>2. ks \subseteq Nat /\ IsFiniteSet(ks) /\ N \in Nat
  <2>1. IsFiniteSet(1..Len(s)) /\ ks \subseteq 1..Len(s)
    BY <1>1, FS_Interval
  <2> QED
    BY <1>1, <2>1, FS_Subset, FS_CardinalityType
<1>3. ASSUME NEW k \in ks
      PROVE  /\ IsFiniteSet(Below(k)) /\ k \in Below(k) /\ Below(k) \in SUBSET ks
             /\ rank[k] = Cardinality(Below(k)) /\ rank[k] \in 1..N
  <2>1. Below(k) \in SUBSET ks /\ k \in Below(k)
    BY <1>2
  <2>2. IsFiniteSet(Below(k)) /\ Cardinality(Below(k)) <= N
    BY <1>2, <2>1, FS_Subset
  <2>3. Cardinality(Below(k)) \in Nat
    BY <2>2, FS_CardinalityType
  <2>4. Cardinality(Below(k)) # 0
    BY <2>1, <2>2, FS_EmptySet
  <2>5. rank[k] = Cardinality(Below(k))
    OBVIOUS
  <2> HIDE DEF Below, rank
  <2> QED
    BY <1>2, <2>1, <2>2, <2>3, <2>4, <2>5
<1>4. ASSUME NEW j \in ks, NEW k \in ks, j < k
      PROVE  rank[j] < rank[k]
  <2>1. Below(j) \in SUBSET Below(k) /\ k \notin Below(j)
    BY <1>2, <1>4
  <2>2. /\ IsFiniteSet(Below(k)) /\ k \in Below(k)
        /\ rank[j] = Cardinality(Below(j)) /\ rank[k] = Cardinality(Below(k))
        /\ rank[j] \in 1..N /\ rank[k] \in 1..N
    BY <1>3
  <2> HIDE DEF Below, rank
  <2>3. /\ Cardinality(Below(j)) <= Cardinality(Below(k))
        /\ Cardinality(Below(j)) = Cardinality(Below(k)) => Below(j) = Below(k)
    BY <2>1, <2>2, FS_Subset
  <2> QED
    BY <1>2, <2>1, <2>2, <2>3
<1>5. rank \in [ks -> 1..N]
  BY <1>3
<1> HIDE DEF rank, N
<1>6. \A n \in 1..N : \E k \in ks : rank[k] = n
  <2>1. \A j, k \in ks : rank[j] = rank[k] => j = k
    <3> SUFFICES ASSUME NEW j \in ks, NEW k \in ks, rank[j] = rank[k], j # k
                 PROVE  FALSE
      OBVIOUS
    <3>1. j < k \/ k < j
      BY <1>2
    <3>2. rank[j] < rank[k] \/ rank[k] < rank[j]
      BY <1>4, <3>1
    <3> QED
      BY <1>2, <1>5, <3>2
  <2>2. rank \in Injection(ks, 1..N)
    BY <1>5, <2>1 DEF Injection, IsInjective
  <2>3. IsFiniteSet(1..N) /\ Cardinality(1..N) = N
    BY <1>2, FS_Interval
  <2>4. rank \in Surjection(ks, 1..N)
    BY <1>2, <2>2, <2>3, FS_Injection DEF N
  <2> QED
    BY <2>4 DEF Surjection
<1>7. \A n \in 1..N : g[n] \in ks /\ rank[g[n]] = n
  <2>1. \A k \in ks : rank[k] = Cardinality({j \in ks : j <= k})
    BY DEF rank
  <2> QED
    BY <1>6, <2>1
<1>8. \A n \in 1..N : Part(s, ks)[n] = s[g[n]]
  BY DEF Part, N
<1>9. DOMAIN Part(s, ks) = 1..N /\ Part(s, ks) = [n \in 1..N |-> Part(s, ks)[n]]
  BY DEF Part, N
<1> HIDE DEF g
<1>10. \A m, n \in 1..N : m < n => g[m] < g[n]
  <2> SUFFICES ASSUME NEW m \in 1..N, NEW n \in 1..N, m < n
               PROVE  g[m] < g[n]
    OBVIOUS
  <2>1. g[m] \in ks /\ g[n] \in ks /\ rank[g[m]] = m /\ rank[g[n]] = n
    BY <1>7
  <2>2. g[n] < g[m] => n < m
    BY <1>4, <2>1
  <2> QED
    BY <1>2, <2>1, <2>2
<1>11. Part(s, ks) \in Seq(S) /\ Len(Part(s, ks)) = N
  <2>1. \A n \in 1..N : Part(s, ks)[n] \in S
    BY <1>1, <1>7, <1>8
  <2>2. Part(s, ks) \in [1..N -> S]
    BY <1>9, <2>1
  <2> QED
    BY <1>2, <1>9, <2>2, SeqDef
<1>12. g \in [1..N -> ks]
  BY <1>7 DEF g
<1> QED
  BY <1>8, <1>10, <1>11, <1>12 DEF N

-----------------------------------------------------------------------------
(* Requests and jobs.                                                       *)

\* A sequence of more than one element has a tail to go on with.
LEMMA MoreToCome ==
  ASSUME NEW S, NEW s \in Seq(S), Len(s) > 1
  PROVE  Tail(s) \in Seq(S) /\ Tail(s) # <<>>
<1>1. s # <<>> /\ Len(s) \in Nat
  BY EmptySeq, LenProperties
<1>2. Tail(s) \in Seq(S) /\ Len(Tail(s)) = Len(s) - 1
  BY <1>1, HeadTailProperties
<1>3. Len(Tail(s)) # 0
  BY <1>1, <1>2
<1> QED
  BY <1>2, <1>3, EmptySeq

\* What the requests carry.
LEMMA RequestTypes ==
  ASSUME NEW r \in Calls
  PROVE  /\ r.op \in {"upload", "approve", "remove", "share", "paper", "decline",
                      "erase", "ask", "poll"}
         /\ r.op = "upload" =>
              /\ r.texts \in Seq(Texts) /\ r.texts # <<>> /\ r.asks \in Provenances
              /\ r.staff \in BOOLEAN /\ r.token \in Tokens \cup {None}
              /\ r.keyed \in BOOLEAN /\ r.via \in {"single", "batch", "canvas"}
              /\ r.via = "canvas" => ~r.keyed
         /\ r.op = "approve" =>
              r.texts \in Seq(Texts) /\ r.texts # <<>> /\ r.bulk \in BOOLEAN
         /\ r.op = "remove" => r.texts \in Seq(Texts) /\ r.texts # <<>>
         /\ r.op \in {"share", "paper", "decline"} => r.paper \in Papers
         /\ r.op = "ask" => r.id \in Ids
<1>1. r.op \in {"upload", "approve", "remove", "share", "paper", "decline",
                "erase", "ask", "poll"}
  BY CallsAssumption
<1>2. CASE r.op = "upload"
  BY <1>2, CallsAssumption DEF Upload, Provenances
<1>3. CASE r.op = "approve"
  <2>1. r \in Approve /\ r.texts # <<>>
    BY <1>3, CallsAssumption
  <2>2. r.texts \in Seq(Seals) /\ r.bulk \in BOOLEAN
    BY <2>1 DEF Approve
  <2>3. r.texts \in Seq(Texts)
    BY <2>2, SealsAssumption, SeqMonotonic
  <2> QED
    BY <1>3, <2>1, <2>2, <2>3
<1>4. CASE r.op = "remove"
  <2>1. r \in Remove /\ Len(r.texts) = 1
    BY <1>4, CallsAssumption
  <2>2. r.texts \in Seq(Seals)
    BY <2>1 DEF Remove
  <2>3. r.texts \in Seq(Texts) /\ r.texts # <<>>
    BY SMTT(30), <2>1, <2>2, SealsAssumption, SeqMonotonic
  <2> QED
    BY <1>4, <2>3
<1>5. CASE r.op \in {"share", "paper", "decline"}
  <2>1. r \in OnPaper
    BY <1>5, CallsAssumption
  <2> QED
    BY <1>5, <2>1 DEF OnPaper
<1>6. CASE r.op = "ask"
  <2>1. r \in Ask
    BY <1>6, CallsAssumption
  <2> QED
    BY <1>6, <2>1 DEF Ask
<1> QED
  BY <1>1, <1>2, <1>3, <1>4, <1>5, <1>6

\* The fields of a job.
LEMMA JobFields ==
  ASSUME NEW job \in Job
  PROVE  /\ job # Idle /\ job.pc \in Pcs /\ job.req \in Calls /\ job.todo \in Seq(Texts)
         /\ job.doc \in Document /\ job.doc.samples \in Seq(Sample)
         /\ job.doc.drift \in 0..2 /\ job.fresh \in BOOLEAN /\ job.seen \subseteq Texts
         /\ job.prov \in Provenances /\ job.changed \in BOOLEAN /\ job.held \in BOOLEAN
         /\ job.snaps \subseteq [id : Ids, request : Request]
         /\ job.asked \in BOOLEAN /\ job.alone \in BOOLEAN
BY DEF Job, Idle, Pcs, Document

\* What a handler that goes on with its request keeps.
Same(job, next) ==
  /\ next.req = job.req /\ next.doc = job.doc /\ next.fresh = job.fresh
  /\ next.seen = job.seen /\ next.prov = job.prov /\ next.snaps = job.snaps
  /\ next.asked = job.asked /\ next.alone = job.alone

\* A row of a bulk approval ends with the answer or with the next row.
LEMMA RestSound ==
  ASSUME NEW job \in Job, job.snaps = {}, NoRepeats(job.doc)
  PROVE  /\ Sound(Rest(job))
         /\ Rest(job) # Idle =>
              /\ Same(job, Rest(job)) /\ Rest(job).pc = "row" /\ job.req.op = "approve"
              /\ Len(job.todo) > 1 /\ Rest(job).todo = Tail(job.todo)
<1> DEFINE next == [job EXCEPT !.todo = Tail(@), !.pc = "row", !.held = FALSE,
                               !.changed = FALSE]
<1>1. CASE job.req.op = "approve" /\ Len(job.todo) > 1
  <2>1. Tail(job.todo) \in Seq(Texts) /\ Tail(job.todo) # <<>>
    BY <1>1, JobFields, MoreToCome
  <2>2. /\ next \in Job /\ next.pc = "row" /\ next.todo = Tail(job.todo)
        /\ Same(job, next)
    BY <2>1 DEF Job, Pcs, Same
  <2>3. Framed(next)
    BY <1>1, <2>1, <2>2 DEF Framed, OpsAt, Same
  <2>4. Rest(job) = next
    BY <1>1 DEF Rest
  <2> QED
    BY <1>1, <2>2, <2>3, <2>4 DEF Sound
<1>2. CASE ~(job.req.op = "approve" /\ Len(job.todo) > 1)
  BY <1>2 DEF Rest, Sound
<1> QED
  BY <1>1, <1>2

\* add_baseline's caller: the paper's status, the next row, or the answer.
LEMMA ReturnedSound ==
  ASSUME NEW job \in Job, job.snaps = {}, NoRepeats(job.doc),
         job.req.op = "paper" => job.prov = "unverified"
  PROVE  /\ Sound(Returned(job))
         /\ Returned(job) # Idle =>
              /\ Same(job, Returned(job))
              /\ \/ Returned(job).pc = "row" /\ job.req.op = "approve"
                 \/ /\ Returned(job).pc = "decide" /\ job.req.op = "paper"
                    /\ Returned(job).held = job.held
<1> DEFINE next == [job EXCEPT !.pc = "decide"]
<1>1. CASE job.req.op = "paper"
  <2>1. /\ next \in Job /\ next.pc = "decide" /\ next.held = job.held
        /\ Same(job, next)
    BY DEF Job, Pcs, Same
  <2>2. Framed(next)
    BY <1>1, <2>1 DEF Framed, OpsAt, Same, PaperFrame, Handling
  <2> QED
    BY <1>1, <2>1, <2>2 DEF Returned, Sound
<1>2. CASE job.req.op # "paper"
  BY <1>2, RestSound DEF Returned
<1> QED
  BY <1>1, <1>2

\* A job whose text was handled on the copy.
Ready(job) ==
  /\ job.snaps = {} /\ NoRepeats(job.doc) /\ job.todo # <<>> /\ job.req.op \in Adds
  /\ Keyed(job.req) => TextsOf(job.doc) \subseteq job.seen
  /\ job.req.op = "paper" =>
       /\ job.prov = "unverified"
       /\ job.changed => job.held \/ PaperText[job.req.paper] \in TextsOf(job.doc)

\* The text was handled: the next of a batch, the put, or the caller.
LEMMA HandledSound ==
  ASSUME NEW job \in Job, Ready(job)
  PROVE  /\ Sound(Handled(job))
         /\ Handled(job) # Idle =>
              /\ Same(job, Handled(job))
              /\ \/ Handled(job).pc = "row" /\ job.req.op = "approve" /\ ~job.changed
                 \/ /\ Handled(job).pc = "decide" /\ job.req.op = "paper"
                    /\ Handled(job).held = job.held /\ ~job.changed
                 \/ /\ Handled(job).pc \in {"judge", "put"}
                    /\ Handled(job).pc = "judge" => IsBatch(job.req)
                    /\ Handled(job).changed = job.changed
                    /\ Handled(job).held = job.held
                    /\ job.changed \/ IsBatch(job.req)
         /\ job.changed => Handled(job) # Idle /\ Handled(job).pc \in {"judge", "put"}
<1> DEFINE more == [job EXCEPT !.todo = Tail(@), !.pc = "judge"]
           put == [job EXCEPT !.pc = "put"]
<1>1. CASE IsBatch(job.req) /\ Len(job.todo) > 1
  <2>1. Tail(job.todo) \in Seq(Texts) /\ Tail(job.todo) # <<>>
    BY <1>1, JobFields, MoreToCome
  <2>2. /\ more \in Job /\ more.pc = "judge" /\ more.todo = Tail(job.todo)
        /\ more.changed = job.changed /\ more.held = job.held
        /\ Same(job, more)
    BY <2>1 DEF Job, Pcs, Same
  <2>3. Framed(more)
    BY <1>1, <2>1, <2>2 DEF Framed, OpsAt, Same, IsBatch, Ready
  <2>4. Handled(job) = more
    BY <1>1 DEF Handled
  <2> QED
    BY <1>1, <2>2, <2>3, <2>4, JobFields DEF Sound
<1>2. CASE ~(IsBatch(job.req) /\ Len(job.todo) > 1) /\ job.changed
  <2>1. /\ put \in Job /\ put.pc = "put" /\ put.changed = job.changed
        /\ put.held = job.held /\ Same(job, put)
    BY DEF Job, Pcs, Same
  <2>2. Framed(put)
    BY <1>2, <2>1 DEF Framed, OpsAt, Same, Handling, PaperFrame, Ready
  <2>3. Handled(job) = put
    BY <1>2 DEF Handled
  <2> QED
    BY <1>2, <2>1, <2>2, <2>3, JobFields DEF Sound
<1>3. CASE ~(IsBatch(job.req) /\ Len(job.todo) > 1) /\ ~job.changed
  <2>1. Handled(job) = Returned(job)
    BY <1>3 DEF Handled
  <2> QED
    BY <1>3, <2>1, ReturnedSound DEF Ready
<1> QED
  BY <1>1, <1>2, <1>3

\* Where a handler goes once the registry was changed, with these snapshots.
Onward(job, snaps) ==
  LET next == [job EXCEPT !.snaps = snaps, !.pc = "persist"]
  IN IF snaps = {} THEN Persisted(next) ELSE next

LEMMA OnwardSound ==
  ASSUME NEW job \in Job, NoRepeats(job.doc), job.req.op \in OpsAt("persist"),
         job.req.op = "paper" => job.prov = "unverified",
         NEW snaps \in SUBSET [id : Ids, request : Request]
  PROVE  LET next == Onward(job, snaps)
         IN  /\ Sound(next)
             /\ snaps # {} => next # Idle
             /\ next # Idle =>
                  /\ Same([job EXCEPT !.snaps = snaps], next)
                  /\ \/ next.pc = "persist" /\ next.held = job.held /\ snaps # {}
                     \/ /\ next.pc = "bbook" /\ job.req.op = "ask" /\ ~job.asked
                        /\ snaps = {}
                     \/ next.pc = "row" /\ job.req.op = "approve" /\ snaps = {}
                     \/ /\ next.pc = "decide" /\ job.req.op = "paper" /\ snaps = {}
                        /\ next.held = job.held
<1> DEFINE base == [job EXCEPT !.snaps = snaps]
           kept == [job EXCEPT !.snaps = snaps, !.pc = "persist"]
           link == [kept EXCEPT !.pc = "bbook"]
<1>1. /\ kept \in Job /\ kept.pc = "persist" /\ kept.snaps = snaps /\ Same(base, kept)
      /\ kept.held = job.held /\ kept.req = job.req /\ kept.doc = job.doc
      /\ kept.prov = job.prov /\ kept.asked = job.asked
  BY DEF Job, Pcs, Same
<1>2. CASE snaps # {}
  <2>1. Onward(job, snaps) = kept
    BY <1>2 DEF Onward
  <2>2. Framed(kept)
    BY <1>1, <1>2 DEF Framed, Handling, PaperFrame
  <2> QED
    BY <1>1, <1>2, <2>1, <2>2, JobFields DEF Sound
<1>3. CASE snaps = {} /\ job.req.op \in {"ask", "poll"}
  <2>1. CASE job.req.op = "ask" /\ ~job.asked
    <3>1. /\ link \in Job /\ link.pc = "bbook" /\ link.snaps = snaps /\ Same(base, link)
          /\ link.req = job.req /\ link.doc = job.doc
      BY DEF Job, Pcs, Same
    <3>2. Framed(link)
      BY <1>3, <2>1, <3>1 DEF Framed, OpsAt, Handling
    <3>3. Onward(job, snaps) = link
      BY <1>1, <1>3, <2>1 DEF Onward, Persisted
    <3> QED
      BY <1>3, <2>1, <3>1, <3>2, <3>3 DEF Sound
  <2>2. CASE ~(job.req.op = "ask" /\ ~job.asked)
    <3>1. Onward(job, snaps) = Idle
      BY <1>1, <1>3, <2>2 DEF Onward, Persisted
    <3> QED
      BY <1>3, <3>1 DEF Sound
  <2> QED
    BY <2>1, <2>2
<1>4. CASE snaps = {} /\ job.req.op \notin {"ask", "poll"}
  <2>1. Onward(job, snaps) = Returned(kept)
    BY <1>1, <1>4 DEF Onward, Persisted
  <2>2. /\ Sound(Returned(kept))
        /\ Returned(kept) # Idle =>
             /\ Same(kept, Returned(kept))
             /\ \/ Returned(kept).pc = "row" /\ kept.req.op = "approve"
                \/ /\ Returned(kept).pc = "decide" /\ kept.req.op = "paper"
                   /\ Returned(kept).held = kept.held
    BY <1>1, <1>4, ReturnedSound
  <2>3. ASSUME Returned(kept) # Idle PROVE Same(base, Returned(kept))
    BY <1>1, <2>2, <2>3 DEF Same
  <2> QED
    BY <1>1, <1>4, <2>1, <2>2, <2>3
<1> QED
  BY <1>2, <1>3, <1>4

-----------------------------------------------------------------------------
(* The copy of the document: what the gate, the append and the ledger do.   *)

SampleOf(job) ==
  [text |-> Head(job.todo), prov |-> job.prov, keyed |-> Keyed(job.req),
   token |-> IF job.prov \in Trusted THEN TokenOf(job.req) ELSE None]

\* Only a proctored sample is entered in the ledger.
Spends(job) == SampleOf(job).prov = "proctored" /\ SampleOf(job).token # None

Admitted(job, drift) ==
  [job EXCEPT !.doc = [samples |-> Append(job.doc.samples, SampleOf(job)),
                       drift |-> drift],
              !.changed = TRUE, !.seen = @ \cup {Head(job.todo)}]

HeldBack(job) ==
  [job EXCEPT !.doc.drift = IF @ < 2 THEN @ + 1 ELSE 2,
              !.changed = TRUE, !.held = TRUE,
              !.seen = IF IsCanvas(job.req) THEN @ ELSE @ \cup {Head(job.todo)}]

Demoted(job) ==
  LET last == Len(job.doc.samples)
  IN [job EXCEPT !.prov = "unverified",
                 !.doc.samples[last] =
                   [@ EXCEPT !.prov = "unverified", !.token = None]]

\* Only an upload presents an attestation.
LEMMA TokenTypes ==
  ASSUME NEW job \in Job
  PROVE  /\ TokenOf(job.req) \in Tokens \cup {None}
         /\ TokenOf(job.req) # None => job.req.op = "upload" /\ TokenOf(job.req) = job.req.token
         /\ Keyed(job.req) \in BOOLEAN
BY JobFields, RequestTypes DEF TokenOf, Keyed

\* Every provenance carries weight, the unverified one too.
LEMMA WeightIsPositive ==
  ASSUME NEW prov \in Provenances
  PROVE  AuthWeight(prov) > 0
BY DEF AuthWeight, Provenances, Trusted

LEMMA AdmittedFields ==
  ASSUME NEW job \in Job, job.todo # <<>>, NEW drift \in 0..2
  PROVE  LET next == Admitted(job, drift)
             n == Len(job.doc.samples)
         IN  /\ next \in Job /\ next.doc.drift = drift
             /\ n \in Nat /\ Len(next.doc.samples) = n + 1
             /\ next.doc.samples[n + 1] = SampleOf(job) /\ SampleOf(job) \in Sample
             /\ \A i \in 1..n : next.doc.samples[i] = job.doc.samples[i]
             /\ next.seen = job.seen \cup {Head(job.todo)} /\ next.changed
             /\ next.req = job.req /\ next.todo = job.todo /\ next.prov = job.prov
             /\ next.held = job.held /\ next.snaps = job.snaps /\ next.pc = job.pc
             /\ next.fresh = job.fresh /\ next.alone = job.alone
<1> DEFINE next == Admitted(job, drift)
           n == Len(job.doc.samples)
           added == Append(job.doc.samples, SampleOf(job))
<1>1. Head(job.todo) \in Texts
  BY JobFields, HeadTailProperties
<1>2. SampleOf(job) \in Sample
  BY <1>1, JobFields, TokenTypes DEF SampleOf, Sample
<1>3. /\ added \in Seq(Sample) /\ Len(added) = n + 1 /\ added[n + 1] = SampleOf(job)
      /\ \A i \in 1..n : added[i] = job.doc.samples[i]
  BY <1>2, JobFields, AppendProperties
<1>4. [samples |-> added, drift |-> drift] \in Document
  BY <1>3 DEF Document
<1>5. n \in Nat
  BY JobFields, LenProperties
<1>6. /\ next \in Job /\ next.doc = [samples |-> added, drift |-> drift]
      /\ next.seen = job.seen \cup {Head(job.todo)} /\ next.changed
      /\ next.req = job.req /\ next.todo = job.todo /\ next.prov = job.prov
      /\ next.held = job.held /\ next.snaps = job.snaps /\ next.pc = job.pc
      /\ next.fresh = job.fresh /\ next.alone = job.alone
  BY <1>1, <1>4 DEF Admitted, Job
<1> QED
  BY <1>2, <1>3, <1>5, <1>6

LEMMA HeldBackFields ==
  ASSUME NEW job \in Job, job.todo # <<>>
  PROVE  LET next == HeldBack(job)
         IN  /\ next \in Job /\ next.doc.samples = job.doc.samples
             /\ next.changed /\ next.held /\ job.seen \subseteq next.seen
             /\ next.seen \subseteq job.seen \cup {Head(job.todo)}
             /\ next.req = job.req /\ next.todo = job.todo /\ next.prov = job.prov
             /\ next.snaps = job.snaps /\ next.pc = job.pc
             /\ next.fresh = job.fresh /\ next.alone = job.alone
<1> DEFINE next == HeldBack(job)
           drift == IF job.doc.drift < 2 THEN job.doc.drift + 1 ELSE 2
<1>1. Head(job.todo) \in Texts
  BY JobFields, HeadTailProperties
<1>2. drift \in 0..2
  BY JobFields
<1>3. [job.doc EXCEPT !.drift = drift] \in Document
  BY <1>2, JobFields DEF Document
<1> QED
  BY <1>1, <1>3, JobFields DEF HeldBack, Job, Document

LEMMA DemotedFields ==
  ASSUME NEW job \in Job, Len(job.doc.samples) > 0
  PROVE  LET next == Demoted(job)
             n == Len(job.doc.samples)
         IN  /\ next \in Job /\ Len(next.doc.samples) = n
             /\ next.doc.samples[n].token = None
             /\ next.doc.samples[n].prov = "unverified"
             /\ next.doc.samples[n].text = job.doc.samples[n].text
             /\ next.doc.samples[n].keyed = job.doc.samples[n].keyed
             /\ \A i \in 1..n : i # n => next.doc.samples[i] = job.doc.samples[i]
             /\ next.changed = job.changed /\ next.seen = job.seen
             /\ next.req = job.req /\ next.todo = job.todo /\ next.prov = "unverified"
             /\ next.held = job.held /\ next.snaps = job.snaps /\ next.pc = job.pc
             /\ next.fresh = job.fresh /\ next.alone = job.alone
<1> DEFINE next == Demoted(job)
           s == job.doc.samples
           n == Len(s)
           low == [s[n] EXCEPT !.prov = "unverified", !.token = None]
           demoted == [s EXCEPT ![n] = low]
<1>1. s \in Seq(Sample) /\ n \in 1..n /\ s[n] \in Sample
  BY JobFields, LenProperties, ElementOfSeq
<1>2. /\ low \in Sample /\ low.token = None /\ low.prov = "unverified"
      /\ low.text = s[n].text /\ low.keyed = s[n].keyed
  BY <1>1 DEF Sample, Provenances
<1> HIDE DEF low
<1>3. /\ demoted \in Seq(Sample) /\ Len(demoted) = n /\ demoted[n] = low
      /\ \A i \in 1..n : i # n => demoted[i] = s[i]
  BY <1>1, <1>2, ExceptSeq
<1>4. [job.doc EXCEPT !.samples = demoted] \in Document
  BY <1>3, JobFields DEF Document
<1>5. next = [job EXCEPT !.prov = "unverified", !.doc = [@ EXCEPT !.samples = demoted]]
  BY DEF Demoted, Job, Document, low
<1> HIDE DEF next, demoted
<1>6. /\ next \in Job /\ next.doc.samples = demoted
      /\ next.changed = job.changed /\ next.seen = job.seen
      /\ next.req = job.req /\ next.todo = job.todo /\ next.prov = "unverified"
      /\ next.held = job.held /\ next.snaps = job.snaps /\ next.pc = job.pc
      /\ next.fresh = job.fresh /\ next.alone = job.alone
  BY <1>4, <1>5, JobFields DEF Job, Provenances, Document
<1> QED
  BY <1>2, <1>3, <1>6 DEF next

\* An admitted text repeats none of the copy's, when it is keyed.
LEMMA AdmittedSound ==
  ASSUME NEW job \in Job, Framed(job), job.pc = "judge", NEW drift \in 0..2,
         Keyed(job.req) => Head(job.todo) \notin job.seen
  PROVE  LET next == Admitted(job, drift)
         IN  /\ Ready(next)
             /\ Spends(job) => Sound([next EXCEPT !.pc = "consume"])
<1> DEFINE next == Admitted(job, drift)
           n == Len(job.doc.samples)
           spend == [next EXCEPT !.pc = "consume"]
<1>1. job.todo # <<>>
  BY DEF Framed, Handling
<1>2. /\ next \in Job /\ next.doc.drift = drift
      /\ n \in Nat /\ Len(next.doc.samples) = n + 1
      /\ next.doc.samples[n + 1] = SampleOf(job) /\ SampleOf(job) \in Sample
      /\ \A i \in 1..n : next.doc.samples[i] = job.doc.samples[i]
      /\ next.seen = job.seen \cup {Head(job.todo)} /\ next.changed
      /\ next.req = job.req /\ next.todo = job.todo /\ next.prov = job.prov
      /\ next.held = job.held /\ next.snaps = job.snaps /\ next.pc = job.pc
  BY <1>1, AdmittedFields
<1> HIDE DEF next
<1>3. /\ DOMAIN next.doc.samples = 1..(n + 1) /\ DOMAIN job.doc.samples = 1..n
      /\ SampleOf(job).text = Head(job.todo) /\ SampleOf(job).keyed = Keyed(job.req)
  BY <1>2, JobFields, LenProperties DEF SampleOf
<1>4. TextsOf(next.doc) = TextsOf(job.doc) \cup {Head(job.todo)}
  <2>1. ASSUME NEW x \in TextsOf(next.doc) PROVE x \in TextsOf(job.doc) \cup {Head(job.todo)}
    <3>1. PICK i \in 1..(n + 1) : x = next.doc.samples[i].text
      BY <1>3, <2>1 DEF TextsOf
    <3>2. i = n + 1 \/ i \in 1..n
      BY <1>2
    <3> QED
      BY <1>2, <1>3, <3>1, <3>2 DEF TextsOf
  <2>2. ASSUME NEW x \in TextsOf(job.doc) PROVE x \in TextsOf(next.doc)
    <3>1. PICK i \in 1..n : x = job.doc.samples[i].text
      BY <1>3, <2>2 DEF TextsOf
    <3>2. i \in 1..(n + 1)
      BY <1>2
    <3> QED
      BY <1>2, <1>3, <3>1, <3>2 DEF TextsOf
  <2>3. Head(job.todo) \in TextsOf(next.doc)
    <3>1. n + 1 \in 1..(n + 1)
      BY <1>2
    <3> QED
      BY <1>2, <1>3, <3>1 DEF TextsOf
  <2> QED
    BY <2>1, <2>2, <2>3
<1>5. Keyed(job.req) => TextsOf(job.doc) \subseteq job.seen
  BY DEF Framed
<1>6. NoRepeats(next.doc)
  <2> SUFFICES ASSUME NEW i \in 1..(n + 1), NEW j \in 1..(n + 1), i < j,
                      next.doc.samples[j].keyed
               PROVE  next.doc.samples[i].text # next.doc.samples[j].text
    BY <1>3 DEF NoRepeats
  <2>1. i \in 1..n
    BY <1>2
  <2>2. CASE j = n + 1
    <3>1. job.doc.samples[i].text \in TextsOf(job.doc)
      BY <1>3, <2>1 DEF TextsOf
    <3>2. next.doc.samples[j].text = Head(job.todo) /\ Keyed(job.req)
      BY <1>2, <1>3, <2>2
    <3>3. next.doc.samples[i].text = job.doc.samples[i].text
      BY <1>2, <2>1
    <3> QED
      BY <1>5, <3>1, <3>2, <3>3
  <2>3. CASE j \in 1..n
    <3>1. NoRepeats(job.doc)
      BY DEF Framed
    <3>2. /\ next.doc.samples[j] = job.doc.samples[j]
          /\ next.doc.samples[i] = job.doc.samples[i]
      BY <1>2, <2>1, <2>3
    <3>3. job.doc.samples[i].text # job.doc.samples[j].text
      BY <1>3, <2>1, <2>3, <3>1, <3>2 DEF NoRepeats
    <3> QED
      BY <3>2, <3>3
  <2>4. j = n + 1 \/ j \in 1..n
    BY <1>2
  <2> QED
    BY <2>2, <2>3, <2>4
<1>7. job.req.op = "paper" =>
        job.prov = "unverified" /\ PaperText[job.req.paper] = Head(job.todo)
  BY DEF Framed, PaperFrame
<1>8. job.snaps = {} /\ job.req.op \in Adds
  BY DEF Framed, OpsAt
<1>9. Ready(next)
  BY <1>1, <1>2, <1>4, <1>5, <1>6, <1>7, <1>8 DEF Ready
<1>10. ASSUME Spends(job) PROVE Sound(spend)
  <2>1. /\ job.prov = "proctored" /\ SampleOf(job).prov = "proctored"
        /\ SampleOf(job).token = TokenOf(job.req)
    BY <1>10 DEF Spends, SampleOf, Trusted
  <2>2. job.req.op = "upload" /\ job.req.token = SampleOf(job).token
    BY <1>10, <2>1, TokenTypes DEF Spends
  <2>3. /\ spend \in Job /\ spend.pc = "consume" /\ spend.req = next.req
        /\ spend.todo = next.todo /\ spend.doc = next.doc /\ spend.seen = next.seen
        /\ spend.prov = next.prov /\ spend.snaps = next.snaps
        /\ spend.changed = next.changed
    BY <1>2 DEF Job, Pcs
  <2> HIDE DEF spend
  <2>4. Len(spend.doc.samples) = n + 1 /\ spend.doc.samples[n + 1] = SampleOf(job)
    BY <1>2, <2>3
  <2>5. Spending(spend)
    BY <1>2, <1>10, <2>1, <2>2, <2>3, <2>4 DEF Spending, Spends
  <2>6. Framed(spend)
    BY <1>1, <1>2, <1>4, <1>5, <1>6, <1>8, <2>2, <2>3, <2>5 DEF Framed, OpsAt
  <2> QED
    BY <2>3, <2>6 DEF Sound, spend
<1> QED
  BY <1>9, <1>10 DEF next

\* A text the drift gate held leaves the copy's samples alone.
LEMMA HeldBackSound ==
  ASSUME NEW job \in Job, Framed(job), job.pc = "judge"
  PROVE  Ready(HeldBack(job))
<1> DEFINE next == HeldBack(job)
<1>1. job.todo # <<>> /\ job.snaps = {} /\ job.req.op \in Adds /\ NoRepeats(job.doc)
  BY DEF Framed, Handling, OpsAt
<1>2. /\ next.doc.samples = job.doc.samples /\ next.changed /\ next.held
      /\ job.seen \subseteq next.seen /\ next.req = job.req /\ next.todo = job.todo
      /\ next.prov = job.prov /\ next.snaps = job.snaps
  BY <1>1, HeldBackFields
<1> HIDE DEF next
<1>3. Keyed(job.req) => TextsOf(job.doc) \subseteq job.seen
  BY DEF Framed
<1>4. NoRepeats(next.doc) /\ TextsOf(next.doc) = TextsOf(job.doc)
  BY <1>1, <1>2 DEF NoRepeats, TextsOf
<1>5. job.req.op = "paper" => job.prov = "unverified"
  BY DEF Framed, PaperFrame
<1> QED
  BY <1>1, <1>2, <1>3, <1>4, <1>5 DEF Ready, next

\* A duplicate leaves the copy as it is.
LEMMA JudgedSound ==
  ASSUME NEW job \in Job, Framed(job), job.pc = "judge"
  PROVE  Ready(job)
BY DEF Framed, Handling, OpsAt, PaperFrame, Ready

\* The ledger's answer demotes the last sample or leaves the copy alone.
LEMMA SpentSound ==
  ASSUME NEW job \in Job, Framed(job), job.pc = "consume", NEW replayed \in BOOLEAN
  PROVE  /\ Ready(job) /\ Ready(Demoted(job))
         /\ Spent(job, replayed) = Handled(IF replayed THEN Demoted(job) ELSE job)
<1> DEFINE next == Demoted(job)
           n == Len(job.doc.samples)
<1>1. /\ job.todo # <<>> /\ job.snaps = {} /\ job.req.op = "upload" /\ NoRepeats(job.doc)
      /\ n > 0
  BY DEF Framed, Handling, OpsAt, Spending
<1>2. Keyed(job.req) => TextsOf(job.doc) \subseteq job.seen
  BY DEF Framed
<1>3. Ready(job)
  BY <1>1, <1>2 DEF Ready, Adds
<1>4. /\ next \in Job /\ Len(next.doc.samples) = n
      /\ next.doc.samples[n].text = job.doc.samples[n].text
      /\ next.doc.samples[n].keyed = job.doc.samples[n].keyed
      /\ \A i \in 1..n : i # n => next.doc.samples[i] = job.doc.samples[i]
      /\ next.seen = job.seen /\ next.req = job.req /\ next.todo = job.todo
      /\ next.snaps = job.snaps
  BY <1>1, DemotedFields
<1> HIDE DEF next
<1>5. /\ DOMAIN next.doc.samples = 1..n /\ DOMAIN job.doc.samples = 1..n
      /\ \A i \in 1..n : /\ next.doc.samples[i].text = job.doc.samples[i].text
                         /\ next.doc.samples[i].keyed = job.doc.samples[i].keyed
  BY <1>4, JobFields, LenProperties
<1>6. NoRepeats(next.doc) /\ TextsOf(next.doc) = TextsOf(job.doc)
  BY SMTT(30), <1>1, <1>5 DEF NoRepeats, TextsOf
<1>7. Ready(next)
  BY <1>1, <1>2, <1>4, <1>6 DEF Ready, Adds
<1> QED
  BY <1>3, <1>7 DEF Spent, Demoted, next

\* The document was written: the other copies are not fresh any more; a request
\* begun meanwhile: the others are not alone any more.
LEMMA WeakenedSound ==
  ASSUME NEW job \in Job, Framed(job), NEW b \in BOOLEAN
  PROVE  /\ Sound([job EXCEPT !.fresh = b]) /\ Sound([job EXCEPT !.alone = b])
         /\ [job EXCEPT !.fresh = b] # Idle /\ [job EXCEPT !.alone = b] # Idle
<1>1. /\ [job EXCEPT !.fresh = b] \in Job /\ [job EXCEPT !.alone = b] \in Job
  BY DEF Job
<1>2. /\ Framed([job EXCEPT !.fresh = b]) /\ Framed([job EXCEPT !.alone = b])
  BY DEF Framed, Job, Spending, PaperFrame
<1> QED
  BY <1>1, <1>2, JobFields DEF Sound

\* What another thread's step leaves of a job.
Kept(s) ==
  /\ th'[s] = Idle <=> th[s] = Idle
  /\ th[s] # Idle =>
       /\ th'[s] \in Job /\ th'[s].pc = th[s].pc /\ th'[s].req = th[s].req
       /\ th'[s].todo = th[s].todo /\ th'[s].doc = th[s].doc /\ th'[s].seen = th[s].seen
       /\ th'[s].prov = th[s].prov /\ th'[s].changed = th[s].changed
       /\ th'[s].held = th[s].held /\ th'[s].snaps = th[s].snaps
       /\ th'[s].asked = th[s].asked
       /\ th'[s].fresh => th[s].fresh
       /\ th'[s].alone => th[s].alone

\* A request begins: the others are no longer alone.
Joined(t, job) ==
  [s \in Threads |-> IF s = t THEN job
                     ELSE IF Busy(s) THEN [th[s] EXCEPT !.alone = FALSE]
                     ELSE th[s]]

\* A step moves one thread and at most ages the copies of the others.
LEMMA Moves ==
  ASSUME FramesOK, th \in [Threads -> Job \cup {Idle}], NEW t \in Threads,
         NEW job, Sound(job), Set(t, job) \/ th' = Overwritten(t, job) \/ th' = Joined(t, job)
  PROVE  /\ th'[t] = job /\ th' \in [Threads -> Job \cup {Idle}] /\ FramesOK'
         /\ \A s \in Threads \ {t} : Kept(s)
<1>1. th'[t] = job
  BY DEF Set, Joined, Overwritten
<1>2. ASSUME NEW s \in Threads \ {t}
      PROVE  Kept(s) /\ Sound(th'[s])
  <2>1. CASE th[s] = Idle
    <3>1. th'[s] = Idle
      BY <2>1 DEF Set, Joined, Overwritten, Busy
    <3> QED
      BY <2>1, <3>1 DEF Kept, Sound
  <2>2. CASE th[s] # Idle /\ th'[s] = th[s]
    BY <2>2 DEF Kept, FramesOK, Sound
  <2>3. CASE th[s] # Idle /\ th'[s] = [th[s] EXCEPT !.fresh = FALSE]
    <3>1. th[s] \in Job /\ Framed(th[s])
      BY <2>3 DEF FramesOK, Sound
    <3>2. Sound(th'[s]) /\ th'[s] # Idle
      BY <2>3, <3>1, WeakenedSound
    <3>3. th'[s] \in Job
      BY <3>2 DEF Sound
    <3> QED
      BY <2>3, <3>1, <3>2, <3>3 DEF Kept, Job
  <2>4. CASE th[s] # Idle /\ th'[s] = [th[s] EXCEPT !.alone = FALSE]
    <3>1. th[s] \in Job /\ Framed(th[s])
      BY <2>4 DEF FramesOK, Sound
    <3>2. Sound(th'[s]) /\ th'[s] # Idle
      BY <2>4, <3>1, WeakenedSound
    <3>3. th'[s] \in Job
      BY <3>2 DEF Sound
    <3> QED
      BY <2>4, <3>1, <3>2, <3>3 DEF Kept, Job
  <2> QED
    BY <2>1, <2>2, <2>3, <2>4 DEF Set, Joined, Overwritten, Busy
<1>3. \A s \in Threads : Sound(th'[s])
  BY <1>1, <1>2
<1>4. DOMAIN th' = Threads /\ th' = [s \in Threads |-> th'[s]]
  BY DEF Set, Joined, Overwritten
<1>5. th' \in [Threads -> Job \cup {Idle}]
  BY <1>3, <1>4 DEF Sound
<1> QED
  BY <1>1, <1>2, <1>3, <1>5 DEF FramesOK

-----------------------------------------------------------------------------
(* The registry's operations keep every object they know.                   *)

Grows(ids) ==
  /\ \A a \in Ids : obj[a] # None => obj'[a] # None
  /\ \A a \in Ids \ ids : obj[a] = None => obj'[a] = None

LEMMA ObjectsKnown ==
  ASSUME RegistryTypeOK, RowsKnown
  PROVE  /\ Objects \in [Ids -> Request \cup {None}]
         /\ \A a \in Ids : Objects[a] = None <=> obj[a] = None
         /\ Loads \subseteq BOOLEAN
         /\ \A loads \in BOOLEAN :
              /\ Listed(loads) \subseteq Ids
              /\ \A a \in Listed(loads) : Objects[a] \in Request
              /\ Pending(loads) \subseteq Listed(loads)
<1>1. /\ Objects \in [Ids -> Request \cup {None}]
      /\ \A a \in Ids : Objects[a] = None <=> obj[a] = None
  BY DEF RegistryTypeOK, RowsKnown, Objects
<1>2. Loads \subseteq BOOLEAN
  BY DEF Loads
<1>3. ASSUME NEW loads \in BOOLEAN
      PROVE  /\ Listed(loads) \subseteq Ids
             /\ \A a \in Listed(loads) : obj[a] # None
             /\ Pending(loads) \subseteq Listed(loads)
  BY DEF RegistryTypeOK, RowsKnown, Listed, Pending
<1>4. ASSUME NEW loads \in BOOLEAN, NEW a \in Listed(loads)
      PROVE  Objects[a] \in Request
  BY <1>1, <1>3
<1> QED
  BY <1>1, <1>2, <1>3, <1>4

LEMMA RecordTyped ==
  ASSUME RegistryTypeOK, RowsKnown, NEW a \in Ids, NEW r \in Request,
         NEW loads \in BOOLEAN, Record(a, r, loads), UNCHANGED row
  PROVE  /\ RegistryTypeOK' /\ RowsKnown' /\ hydrated' /\ obj'[a] = r /\ Grows({a})
         /\ listed' = Listed(loads) \cup {a}
         /\ \A b \in Ids : b # a => obj'[b] = Objects[b]
<1> DEFINE after == [Objects EXCEPT ![a] = r]
<1>1. hydrated' = TRUE /\ listed' = Listed(loads) \cup {a} /\ obj' = after
  BY DEF Record, SetCache
<1>2. /\ after \in [Ids -> Request \cup {None}] /\ after[a] = r
      /\ \A b \in Ids : b # a => after[b] = Objects[b]
  BY ObjectsKnown
<1>3. \A b \in Ids : obj[b] # None => after[b] # None
  BY <1>2, ObjectsKnown, NoObjectAssumption
<1>4. \A b \in Ids \ {a} : obj[b] = None => after[b] = None
  BY <1>2, ObjectsKnown
<1>5. \A b \in Listed(loads) \cup {a} : b \in Ids /\ after[b] # None
  BY <1>2, ObjectsKnown, NoObjectAssumption
<1> HIDE DEF after
<1> QED
  BY <1>1, <1>2, <1>3, <1>4, <1>5 DEF RegistryTypeOK, RowsKnown, Grows

LEMMA SettleTyped ==
  ASSUME RegistryTypeOK, RowsKnown, NEW loads \in BOOLEAN,
         NEW ids \in SUBSET Listed(loads),
         NEW status \in {"completed", "expired", "failed"},
         Settle(ids, status, loads), UNCHANGED row
  PROVE  /\ RegistryTypeOK' /\ RowsKnown' /\ hydrated' /\ Grows({})
         /\ listed' = Listed(loads) /\ obj' = SetStatus(ids, status)
         /\ \A a \in Ids \ ids : obj'[a] = Objects[a]
         /\ \A s \in Snapshots(ids, SetStatus(ids, status)) :
              s \in [id : Ids, request : Request] /\ obj'[s.id] = s.request
<1> DEFINE after == SetStatus(ids, status)
<1>1. hydrated' = TRUE /\ listed' = Listed(loads) /\ obj' = after
  BY DEF Settle, SetCache
<1>2. ids \subseteq Ids /\ \A a \in ids : Objects[a] \in Request
  BY ObjectsKnown
<1>3. \A a \in ids : [Objects[a] EXCEPT !.status = status] \in Request
  BY <1>2 DEF Request
<1>4. /\ \A a \in ids : after[a] \in Request
      /\ \A a \in Ids \ ids : after[a] = Objects[a]
      /\ after = [a \in Ids |-> after[a]]
  BY <1>2, <1>3 DEF SetStatus
<1> HIDE DEF after
<1>5. after \in [Ids -> Request \cup {None}]
  BY <1>4, ObjectsKnown
<1>6. \A a \in Ids : after[a] = None <=> obj[a] = None
  BY <1>2, <1>4, ObjectsKnown, NoObjectAssumption
<1>7. RegistryTypeOK'
  BY <1>1, <1>5, <1>6, ObjectsKnown, NoObjectAssumption DEF RegistryTypeOK
<1>8. RowsKnown' /\ Grows({})
  BY <1>1, <1>6 DEF RowsKnown, Grows
<1>9. ASSUME NEW s \in Snapshots(ids, after)
      PROVE  s \in [id : Ids, request : Request] /\ obj'[s.id] = s.request
  <2>1. PICK a \in ids : s = [id |-> a, request |-> after[a]]
    BY DEF Snapshots
  <2> QED
    BY <1>1, <1>2, <1>4, <2>1
<1> QED
  BY <1>1, <1>4, <1>7, <1>8, <1>9 DEF after

-----------------------------------------------------------------------------
(* A step of a handler keeps types and frames.                              *)

TablesOK ==
  /\ profile \in Document \cup {None} /\ (profile # None => NoRepeats(profile))
  /\ used \subseteq Tokens /\ sealed \subseteq Seals
  /\ paper \in [Papers -> {None, "pending", "held", "approved", "declined"}]
  /\ begun \in 0..MaxCalls /\ crashes \in 0..MaxCrashes
  /\ lost \subseteq Losses /\ clean \in BOOLEAN

LEMMA TypeInvParts ==
  TypeInv <=> /\ RegistryTypeOK /\ TablesOK /\ th \in [Threads -> Job \cup {Idle}]
              /\ FramesOK /\ RegistryInv
BY DEF TypeInv, TypeOK, TablesOK

\* A handler's step: it goes on with its request, or answers.
GoesOn(t, job) ==
  /\ th[t] # Idle /\ Sound(job) /\ (Set(t, job) \/ th' = Overwritten(t, job))
  /\ job # Idle =>
       /\ job.req = th[t].req /\ job.pc # "record"
       /\ job.pc \in {"bbook", "persist"} => hydrated'
       /\ \A s \in job.snaps : obj'[s.id] # None
       /\ job.req.op = "ask" => obj'[job.req.id] # None

LEMMA Advance ==
  ASSUME TypeInv, NEW t \in Threads, NEW job, GoesOn(t, job),
         RegistryTypeOK', RowsKnown', hydrated => hydrated', TablesOK',
         NEW ids, Grows(ids), \A a \in ids : th[t].pc = "record" /\ th[t].req.id = a
  PROVE  TypeInv'
<1>1. /\ th'[t] = job /\ th' \in [Threads -> Job \cup {Idle}] /\ FramesOK'
      /\ \A s \in Threads \ {t} : Kept(s)
  BY Moves DEF GoesOn, TypeInv, TypeOK
<1>2. /\ \A s \in Threads : th[s] # Idle => th[s] \in Job /\ Framed(th[s])
      /\ \A s \in Threads : th'[s] # Idle => th'[s] \in Job
  BY <1>1 DEF TypeInv, FramesOK, Sound
<1>3. ASSUME NEW s \in Threads \ {t}, th'[s] # Idle
      PROVE  /\ th'[s].pc \in {"bbook", "persist"} => hydrated'
             /\ \A x \in th'[s].snaps : obj'[x.id] # None
             /\ th'[s].req.op = "ask" /\ th'[s].pc # "record" =>
                  obj'[th'[s].req.id] # None
  <2>1. /\ th[s] # Idle /\ th'[s].pc = th[s].pc /\ th'[s].snaps = th[s].snaps
        /\ th'[s].req = th[s].req /\ th[s] \in Job /\ Framed(th[s])
    BY <1>1, <1>2, <1>3 DEF Kept
  <2>2. /\ th[s].pc \in {"bbook", "persist"} => hydrated
        /\ \A x \in th[s].snaps : obj[x.id] # None
        /\ th[s].req.op = "ask" /\ th[s].pc # "record" => obj[th[s].req.id] # None
    BY <2>1 DEF TypeInv, RegistryInv, Busy
  <2>3. \A x \in th[s].snaps : x.id \in Ids
    BY <2>1, JobFields
  <2>4. th[s].req.op = "ask" => th[s].req.id \in Ids
    BY <2>1, JobFields, RequestTypes
  <2> QED
    BY <2>1, <2>2, <2>3, <2>4 DEF Grows
<1>4. ASSUME NEW s \in Threads, th'[s] # Idle, th'[s].pc = "record"
      PROVE  /\ obj'[th'[s].req.id] = None
             /\ \A u \in Threads \ {s} : th'[u] # Idle /\ th'[u].req.op = "ask" =>
                  th'[u].req.id # th'[s].req.id
  <2>1. s # t
    BY <1>1, <1>4 DEF GoesOn
  <2>2. /\ th[s] # Idle /\ th[s].pc = "record" /\ th'[s].req = th[s].req
        /\ th[s] \in Job /\ Framed(th[s])
    BY <1>1, <1>2, <1>4, <2>1 DEF Kept
  <2>3. /\ obj[th[s].req.id] = None
        /\ \A u \in Threads \ {s} : th[u] # Idle /\ th[u].req.op = "ask" =>
             th[u].req.id # th[s].req.id
    BY <2>2 DEF TypeInv, RegistryInv, Busy
  <2>4. th[s].req.id \in Ids
    BY <2>2, JobFields, RequestTypes DEF Framed, OpsAt
  <2>5. th[t].pc = "record" => th[t].req.op = "ask"
    BY <1>2 DEF Framed, OpsAt, GoesOn
  <2>6. th[s].req.id \notin ids
    BY <2>1, <2>3, <2>5 DEF GoesOn
  <2>7. obj'[th'[s].req.id] = None
    BY <2>2, <2>3, <2>4, <2>6 DEF Grows
  <2>8. ASSUME NEW u \in Threads \ {s}, th'[u] # Idle, th'[u].req.op = "ask"
        PROVE  th'[u].req.id # th'[s].req.id
    <3>1. th[u] # Idle /\ th'[u].req = th[u].req
      BY <1>1, <2>8 DEF Kept, GoesOn
    <3> QED
      BY <2>2, <2>3, <2>8, <3>1
  <2> QED
    BY <2>7, <2>8
<1>5. RegistryInv'
  BY <1>1, <1>3, <1>4 DEF RegistryInv, RowsKnown, Busy, GoesOn
<1> QED
  BY <1>1, <1>5, TypeInvParts DEF TypeInv, TypeOK, TablesOK

\* A step that leaves the registry alone.
LEMMA PlainAdvance ==
  ASSUME TypeInv, NEW t \in Threads, NEW job, th[t] # Idle, Sound(job),
         Set(t, job) \/ th' = Overwritten(t, job),
         job # Idle => job.req = th[t].req /\ job.pc \notin {"record", "bbook", "persist"},
         UNCHANGED registry, TablesOK'
  PROVE  TypeInv'
<1>1. RegistryTypeOK' /\ RowsKnown' /\ (hydrated => hydrated') /\ Grows({})
  BY DEF TypeInv, TypeOK, RegistryInv, registry, RegistryTypeOK, RowsKnown, Grows
<1>2. job # Idle => job.snaps = {} /\ job.req.op # "ask"
  BY DEF Sound, Framed, OpsAt, Job, Pcs, Adds
<1>3. GoesOn(t, job)
  BY <1>2 DEF GoesOn
<1> QED
  BY <1>1, <1>3, Advance

LEMMA Working ==
  ASSUME TypeInv, NEW t \in Threads, NEW pc, pc # "idle", At(t, pc)
  PROVE  /\ th[t] # Idle /\ th[t] \in Job /\ Framed(th[t]) /\ th[t].pc = pc
         /\ Busy(t) /\ TablesOK
BY TypeInvParts DEF At, Idle, FramesOK, Sound, Busy

LEMMA TablesStay ==
  ASSUME TypeInv, UNCHANGED <<tables, begun, crashes, clean>>,
         lost' \subseteq lost \cup Losses
  PROVE  TablesOK'
BY DEF TypeInv, TypeOK, TablesOK, tables

\* A store call that fails.
LEMMA FailsTyped ==
  ASSUME TypeInv, NEW t \in Threads, th[t] # Idle, th[t].pc # "persist", Fails(t),
         UNCHANGED <<begun, crashes, clean>>
  PROVE  TypeInv'
<1>1. th[t] \in Job /\ Framed(th[t]) /\ th[t].snaps = {} /\ NoRepeats(th[t].doc)
  BY DEF TypeInv, FramesOK, Sound, Framed
<1>2. /\ Sound(Rest(th[t]))
      /\ Rest(th[t]) # Idle => Rest(th[t]).req = th[t].req /\ Rest(th[t]).pc = "row"
  BY <1>1, RestSound DEF Same
<1>3. TablesOK'
  BY TablesStay DEF Fails, Losses
<1> QED
  BY <1>2, <1>3, PlainAdvance DEF Fails

LEMMA ReadPaperTyped ==
  ASSUME TypeInv, NEW t \in Threads, ReadPaper(t)
  PROVE  TypeInv'
<1> DEFINE job == th[t]
           read == [job EXCEPT !.todo = <<PaperText[job.req.paper]>>, !.pc = "get"]
<1>1. /\ job # Idle /\ job \in Job /\ Framed(job) /\ job.pc = "paper"
  BY Working DEF ReadPaper
<1>2. job.req \in Calls /\ job.req.op \in {"share", "paper", "decline"}
  BY <1>1, JobFields DEF Framed, OpsAt
<1>3. PaperText[job.req.paper] \in Texts
  BY <1>2, RequestTypes, PaperTextAssumption
<1>4. TablesOK' /\ UNCHANGED registry
  BY TablesStay DEF ReadPaper
<1>5. ASSUME NEW pc \in {"insert", "decide"}, pc = "insert" => job.req.op = "share",
             pc = "decide" => job.req.op = "decline"
      PROVE  Sound([job EXCEPT !.pc = pc])
  <2>1. [job EXCEPT !.pc = pc] \in Job
    BY <1>1 DEF Job, Pcs
  <2>2. Framed([job EXCEPT !.pc = pc])
    BY <1>1, <1>5 DEF Framed, OpsAt, Handling, Job
  <2> QED
    BY <2>1, <2>2 DEF Sound
<1>6. job.req.op = "paper" => Sound(read)
  <2> SUFFICES ASSUME job.req.op = "paper" PROVE Sound(read)
    OBVIOUS
  <2>1. <<PaperText[job.req.paper]>> \in Seq(Texts) /\ <<PaperText[job.req.paper]>> # <<>>
    BY <1>3
  <2>2. /\ read \in Job /\ read.pc = "get" /\ read.req = job.req
        /\ read.todo = <<PaperText[job.req.paper]>> /\ read.snaps = job.snaps
        /\ read.doc = job.doc /\ read.prov = job.prov /\ read.changed = job.changed
        /\ read.held = job.held
    BY <1>1, <2>1 DEF Job, Pcs
  <2>3. Framed(read)
    BY <1>1, <2>1, <2>2 DEF Framed, OpsAt, Handling, PaperFrame, Adds
  <2> QED
    BY <2>2, <2>3 DEF Sound
<1>7. \/ Set(t, Idle)
      \/ job.req.op = "share" /\ Set(t, [job EXCEPT !.pc = "insert"])
      \/ job.req.op = "decline" /\ Set(t, [job EXCEPT !.pc = "decide"])
      \/ job.req.op = "paper" /\ Set(t, read)
  BY <1>1 DEF ReadPaper, Finish, Go, Set, TypeInv, TypeOK
<1>8. CASE Set(t, Idle)
  BY <1>1, <1>4, <1>8, PlainAdvance DEF Sound
<1>9. CASE job.req.op = "share" /\ Set(t, [job EXCEPT !.pc = "insert"])
  BY <1>1, <1>4, <1>5, <1>9, PlainAdvance DEF Job
<1>10. CASE job.req.op = "decline" /\ Set(t, [job EXCEPT !.pc = "decide"])
  BY <1>1, <1>4, <1>5, <1>10, PlainAdvance DEF Job
<1>11. CASE job.req.op = "paper" /\ Set(t, read)
  BY <1>1, <1>4, <1>6, <1>11, PlainAdvance DEF Job
<1> QED
  BY <1>7, <1>8, <1>9, <1>10, <1>11

LEMMA InsertPaperTyped ==
  ASSUME TypeInv, NEW t \in Threads, InsertPaper(t)
  PROVE  TypeInv'
<1>1. th[t] # Idle /\ th[t] \in Job /\ Framed(th[t]) /\ th[t].pc = "insert" /\ TablesOK
  BY Working DEF InsertPaper
<1>2. TablesOK'
  BY <1>1 DEF InsertPaper, TablesOK
<1> QED
  BY <1>1, <1>2, PlainAdvance DEF InsertPaper, Finish, Sound

LEMMA SetPaperStatusTyped ==
  ASSUME TypeInv, NEW t \in Threads, SetPaperStatus(t)
  PROVE  TypeInv'
<1>1. th[t] # Idle /\ th[t].pc = "decide" /\ TablesOK
  BY Working DEF SetPaperStatus
<1>2. Verdict(th[t]) \in {"declined", "held", "approved"}
  BY DEF Verdict
<1>3. TablesOK'
  BY <1>1, <1>2 DEF SetPaperStatus, TablesOK
<1> QED
  BY <1>1, <1>3, PlainAdvance DEF SetPaperStatus, Finish, Sound

\* A part of a sequence of samples repeats no text the whole did not.
LEMMA PartKeepsNoRepeats ==
  ASSUME NEW doc \in Document, NoRepeats(doc), NEW ks \in SUBSET DOMAIN doc.samples
  PROVE  LET part == [samples |-> Part(doc.samples, ks), drift |-> 0]
         IN  part \in Document /\ NoRepeats(part)
<1> DEFINE s == doc.samples
           p == Part(s, ks)
           part == [samples |-> p, drift |-> 0]
<1>1. s \in Seq(Sample)
  BY DEF Document
<1>2. /\ p \in Seq(Sample) /\ Len(p) = Cardinality(ks)
      /\ \E g \in [1..Cardinality(ks) -> ks] :
           /\ \A m, n \in 1..Cardinality(ks) : m < n => g[m] < g[n]
           /\ \A n \in 1..Cardinality(ks) : p[n] = s[g[n]]
  BY <1>1, PartIsSubsequence
<1> HIDE DEF p
<1>3. part \in Document
  BY <1>2 DEF Document
<1>4. PICK g \in [1..Cardinality(ks) -> ks] :
           /\ \A m, n \in 1..Cardinality(ks) : m < n => g[m] < g[n]
           /\ \A n \in 1..Cardinality(ks) : p[n] = s[g[n]]
  BY <1>2
<1>5. DOMAIN part.samples = 1..Cardinality(ks)
  BY <1>2, LenProperties
<1>6. NoRepeats(part)
  <2> SUFFICES ASSUME NEW i \in 1..Cardinality(ks), NEW j \in 1..Cardinality(ks), i < j,
                      p[j].keyed
               PROVE  p[i].text # p[j].text
    BY <1>5 DEF NoRepeats
  <2>1. g[i] < g[j] /\ g[i] \in DOMAIN s /\ g[j] \in DOMAIN s
    BY <1>4
  <2>2. p[i] = s[g[i]] /\ p[j] = s[g[j]]
    BY <1>4
  <2> QED
    BY <2>1, <2>2 DEF NoRepeats
<1> QED
  BY <1>3, <1>6 DEF p

LEMMA RowsTyped ==
  ASSUME TypeInv, NEW t \in Threads, Rows(t)
  PROVE  TypeInv'
<1> DEFINE job == th[t]
           found == Part(job.todo, {i \in DOMAIN job.todo : job.todo[i] \in sealed})
           next == IF job.req.op = "remove" THEN "remove" ELSE "row"
           listing == [job EXCEPT !.todo = found, !.pc = next]
<1>1. job # Idle /\ job \in Job /\ Framed(job) /\ job.pc = "rows"
  BY Working DEF Rows
<1>2. job.todo \in Seq(Texts) /\ job.req.op \in {"approve", "remove"}
  BY <1>1, JobFields DEF Framed, OpsAt
<1>3. found \in Seq(Texts)
  BY <1>2, PartIsSubsequence
<1>4. TablesOK' /\ UNCHANGED registry
  BY TablesStay DEF Rows
<1>5. Set(t, Idle) \/ (found # <<>> /\ Set(t, listing))
  BY <1>1 DEF Rows, Finish, Set, TypeInv, TypeOK
<1> HIDE DEF found
<1>6. CASE found # <<>> /\ Set(t, listing)
  <2>1. /\ listing \in Job /\ listing.pc = next /\ listing.req = job.req
        /\ listing.todo = found /\ listing.snaps = job.snaps /\ listing.doc = job.doc
    BY <1>1, <1>3 DEF Job, Pcs
  <2>2. Framed(listing)
    BY <1>1, <1>2, <1>6, <2>1 DEF Framed, OpsAt, Handling
  <2>3. Sound(listing) /\ listing.pc \in {"remove", "row"} /\ listing.req = job.req
    BY <2>1, <2>2 DEF Sound
  <2> HIDE DEF listing
  <2> QED
    BY <1>1, <1>4, <1>6, <2>3, PlainAdvance
<1> QED
  BY <1>1, <1>4, <1>5, <1>6, PlainAdvance DEF Sound

LEMMA ReadRowTyped ==
  ASSUME TypeInv, NEW t \in Threads, ReadRow(t)
  PROVE  TypeInv'
<1> DEFINE job == th[t]
           get(prov) == [job EXCEPT !.pc = "get", !.prov = prov]
<1>1. job # Idle /\ job \in Job /\ Framed(job) /\ job.pc = "row" /\ job.req.op = "approve"
  BY Working DEF ReadRow, Framed, OpsAt
<1>2. TablesOK' /\ UNCHANGED registry
  BY TablesStay DEF ReadRow
<1>3. Set(t, Rest(job)) \/ \E prov \in Provenances : Set(t, get(prov))
  BY <1>1 DEF ReadRow, Set, Provenances, Trusted
<1>4. CASE Set(t, Rest(job))
  <2>1. /\ Sound(Rest(job))
        /\ Rest(job) # Idle => Rest(job).req = job.req /\ Rest(job).pc = "row"
    BY <1>1, RestSound DEF Framed, Same
  <2> QED
    BY <1>1, <1>2, <1>4, <2>1, PlainAdvance
<1>5. ASSUME NEW prov \in Provenances, Set(t, get(prov)) PROVE TypeInv'
  <2>1. /\ get(prov) \in Job /\ get(prov).pc = "get" /\ get(prov).req = job.req
        /\ get(prov).todo = job.todo /\ get(prov).snaps = job.snaps
        /\ get(prov).doc = job.doc
    BY <1>1 DEF Job, Pcs
  <2>2. Framed(get(prov))
    BY <1>1, <2>1 DEF Framed, OpsAt, Handling, Adds
  <2> HIDE DEF get
  <2>3. Sound(get(prov))
    BY <2>1, <2>2 DEF Sound
  <2> QED
    BY <1>1, <1>2, <1>5, <2>1, <2>3, PlainAdvance
<1> QED
  BY <1>3, <1>4, <1>5

LEMMA ReadRemoveTyped ==
  ASSUME TypeInv, NEW t \in Threads, ReadRemove(t)
  PROVE  TypeInv'
<1> DEFINE job == th[t]
           keep == {i \in DOMAIN profile.samples :
                      profile.samples[i].text # Head(job.todo)}
           without == [samples |-> Part(profile.samples, keep), drift |-> 0]
           putting == [job EXCEPT !.doc = without, !.fresh = TRUE, !.pc = "put"]
<1>1. job # Idle /\ job \in Job /\ Framed(job) /\ job.pc = "remove" /\ TablesOK
  BY Working DEF ReadRemove
<1>2. job.req.op = "remove" /\ job.snaps = {}
  BY <1>1 DEF Framed, OpsAt
<1>3. TablesOK' /\ UNCHANGED registry
  BY TablesStay DEF ReadRemove
<1>4. Set(t, Idle) \/ (profile # None /\ Set(t, putting))
  BY <1>1 DEF ReadRemove, Finish, Set, TypeInv, TypeOK
<1>5. CASE profile # None /\ Set(t, putting)
  <2>1. profile \in Document /\ NoRepeats(profile)
    BY <1>1, <1>5 DEF TablesOK
  <2>2. without \in Document /\ NoRepeats(without)
    BY <2>1, PartKeepsNoRepeats
  <2> HIDE DEF without
  <2>3. /\ putting \in Job /\ putting.pc = "put" /\ putting.req = job.req
        /\ putting.doc = without /\ putting.snaps = job.snaps
    BY <1>1, <2>2 DEF Job, Pcs
  <2>4. Framed(putting)
    BY <1>2, <2>2, <2>3 DEF Framed, OpsAt, Handling
  <2> QED
    BY <1>1, <1>3, <1>5, <2>3, <2>4, PlainAdvance DEF Sound
<1> QED
  BY <1>1, <1>3, <1>4, <1>5, PlainAdvance DEF Sound

\* What Get leaves in the thread: its reading of the document.
Gotten(job) ==
  [job EXCEPT !.doc = IF profile = None THEN Blank ELSE profile,
              !.fresh = TRUE,
              !.seen = IF profile = None THEN {} ELSE Hashes(profile),
              !.pc = IF profile = None THEN "create" ELSE Got(job.req)]

LEMMA BlankFacts ==
  Blank \in Document /\ NoRepeats(Blank) /\ TextsOf(Blank) = {} /\ Len(Blank.samples) = 0
<1>1. Blank \in Document /\ Blank.samples = <<>>
  BY DEF Blank, Document
<1>2. DOMAIN <<>> = {}
  OBVIOUS
<1> QED
  BY <1>1, <1>2 DEF NoRepeats, TextsOf

LEMMA DocTexts ==
  ASSUME NEW doc \in Document
  PROVE  TextsOf(doc) \subseteq Texts /\ Hashes(doc) = TextsOf(doc)
<1>1. doc.samples \in Seq(Sample)
  BY DEF Document
<1>2. \A i \in DOMAIN doc.samples : doc.samples[i] \in Sample
  BY <1>1, LenProperties, ElementOfSeq
<1>3. \A i \in DOMAIN doc.samples : doc.samples[i].text \in Texts
  BY <1>2 DEF Sample
<1> QED
  BY <1>3 DEF TextsOf, Hashes

LEMMA GetTyped ==
  ASSUME TypeInv, NEW t \in Threads, Get(t)
  PROVE  TypeInv' /\ Set(t, Gotten(th[t])) /\ Sound(Gotten(th[t]))
<1> DEFINE job == th[t]
           doc == IF profile = None THEN Blank ELSE profile
           pc == IF profile = None THEN "create" ELSE Got(job.req)
<1>1. job # Idle /\ job \in Job /\ Framed(job) /\ job.pc = "get" /\ TablesOK
  BY Working DEF Get
<1>2. job.req.op \in Adds /\ job.snaps = {} /\ job.todo # <<>>
  BY <1>1 DEF Framed, OpsAt, Handling
<1>3. TablesOK' /\ UNCHANGED registry
  BY TablesStay DEF Get
<1>4. Set(t, Gotten(job))
  BY <1>1 DEF Get, Set, Gotten, TypeInv, TypeOK
<1>5. doc \in Document /\ NoRepeats(doc) /\ (profile = None => doc = Blank)
  BY <1>1, BlankFacts DEF TablesOK
<1>6. TextsOf(doc) \subseteq Texts /\ pc \in {"create", "hash", "judge"}
  BY <1>5, DocTexts DEF Got
<1>7. Gotten(job) = [job EXCEPT !.doc = doc, !.fresh = TRUE, !.seen = TextsOf(doc), !.pc = pc]
  <2>1. (IF profile = None THEN {} ELSE Hashes(profile)) = TextsOf(doc)
    BY <1>5, BlankFacts, DocTexts
  <2> QED
    BY <2>1 DEF Gotten
<1>8. pc = "create" => profile = None
  BY DEF Got
<1>9. pc = "hash" => IsCanvas(job.req)
  BY DEF Got
<1>a. pc = "create" => doc = Blank /\ TextsOf(doc) = {}
  BY <1>5, <1>8, BlankFacts
<1> HIDE DEF doc, pc
<1>10. /\ Gotten(job) \in Job /\ Gotten(job).pc = pc /\ Gotten(job).req = job.req
       /\ Gotten(job).doc = doc /\ Gotten(job).seen = TextsOf(doc)
       /\ Gotten(job).todo = job.todo /\ Gotten(job).snaps = job.snaps
       /\ Gotten(job).prov = job.prov /\ Gotten(job).changed = job.changed
       /\ Gotten(job).held = job.held
  <2>1. pc \in Pcs
    BY <1>6 DEF Pcs
  <2> HIDE DEF job
  <2> DEFINE texts == TextsOf(doc)
  <2>2. doc \in Document /\ texts \in SUBSET Texts
    BY <1>5, <1>6
  <2>3. Gotten(job) = [job EXCEPT !.doc = doc, !.fresh = TRUE, !.seen = texts, !.pc = pc]
    BY <1>7
  <2> HIDE DEF texts
  <2>4. /\ Gotten(job) \in Job /\ Gotten(job).pc = pc /\ Gotten(job).req = job.req
        /\ Gotten(job).doc = doc /\ Gotten(job).seen = texts
        /\ Gotten(job).todo = job.todo /\ Gotten(job).snaps = job.snaps
        /\ Gotten(job).prov = job.prov /\ Gotten(job).changed = job.changed
        /\ Gotten(job).held = job.held
    <3>1. /\ job.req \in Calls /\ job.todo \in Seq(Texts) /\ job \in Job
          /\ doc \in Document /\ texts \in SUBSET Texts /\ pc \in Pcs
      BY <1>1, <2>1, <2>2, JobFields
    <3> HIDE DEF doc, pc
    <3>2. Gotten(job) \in Job
      BY <2>3, <3>1 DEF Job
    <3>3. /\ Gotten(job).pc = pc /\ Gotten(job).req = job.req
          /\ Gotten(job).doc = doc /\ Gotten(job).seen = texts
          /\ Gotten(job).todo = job.todo /\ Gotten(job).snaps = job.snaps
      BY <2>3, <3>1 DEF Job
    <3>4. /\ Gotten(job).prov = job.prov
          /\ Gotten(job).changed = job.changed /\ Gotten(job).held = job.held
      BY <2>3, <3>1 DEF Job
    <3> QED
      BY <3>2, <3>3, <3>4
  <2> QED
    BY <2>4 DEF texts
<1>11. job.req.op \in OpsAt(pc)
  BY <1>2, <1>6, <1>9 DEF OpsAt, IsCanvas
<1>12. job.req.op = "paper" => PaperFrame(Gotten(job))
  BY <1>1, <1>6, <1>10 DEF Framed, PaperFrame
<1>13. Framed(Gotten(job))
  BY <1>2, <1>5, <1>6, <1>9, <1>a, <1>10, <1>11, <1>12 DEF Framed
<1> QED
  BY <1>1, <1>3, <1>4, <1>6, <1>10, <1>13, PlainAdvance DEF Sound

\* An empty document is put; the texts it has are compared with any reading.
Created(job) == [job EXCEPT !.pc = Got(job.req), !.fresh = TRUE]

LEMMA CreatedSound ==
  ASSUME NEW job \in Job, Framed(job), job.pc = "create"
  PROVE  /\ Sound(Created(job)) /\ Created(job) # Idle /\ Created(job).req = job.req
         /\ Created(job).pc = Got(job.req) /\ Got(job.req) \in {"hash", "judge"}
         /\ Created(job).doc = Blank /\ Created(job).seen = job.seen
         /\ Created(job).changed = job.changed
<1> DEFINE pc == Got(job.req)
<1>1. /\ job.req.op \in Adds /\ job.todo # <<>> /\ job.snaps = {} /\ job.doc = Blank
  BY DEF Framed, OpsAt, Handling
<1>2. pc \in {"hash", "judge"} /\ (pc = "hash" => IsCanvas(job.req))
  BY DEF Got
<1>3. /\ Created(job) \in Job /\ Created(job).pc = pc /\ Created(job).req = job.req
      /\ Created(job).doc = job.doc /\ Created(job).seen = job.seen
      /\ Created(job).todo = job.todo /\ Created(job).snaps = job.snaps
      /\ Created(job).prov = job.prov /\ Created(job).changed = job.changed
      /\ Created(job).held = job.held
  BY <1>2 DEF Created, Job, Pcs
<1> HIDE DEF pc
<1>4. job.req.op = "paper" => PaperFrame(Created(job))
  BY <1>2, <1>3 DEF Framed, PaperFrame
<1>5. Framed(Created(job))
  BY <1>1, <1>2, <1>3, <1>4, BlankFacts DEF Framed, OpsAt, IsCanvas
<1> QED
  BY <1>1, <1>2, <1>3, <1>5, JobFields DEF Sound, pc

LEMMA CreateTyped ==
  ASSUME TypeInv, NEW t \in Threads, Create(t)
  PROVE  TypeInv'
<1>1. th[t] # Idle /\ th[t] \in Job /\ Framed(th[t]) /\ th[t].pc = "create" /\ TablesOK
  BY Working DEF Create
<1>2. CASE Fails(t)
  BY <1>1, <1>2, FailsTyped DEF Create
<1>3. CASE /\ profile' = Blank
           /\ lost' = IF th[t].fresh THEN lost ELSE lost \cup {"stale"}
           /\ th' = Overwritten(t, Created(th[t]))
           /\ UNCHANGED <<used, sealed, paper, registry>>
  <2>1. TablesOK'
    BY <1>1, <1>3, BlankFacts DEF Create, TablesOK, Losses
  <2>2. Sound(Created(th[t])) /\ Created(th[t]).req = th[t].req
    BY <1>1, CreatedSound
  <2>3. Created(th[t]).pc \in {"hash", "judge"}
    BY <1>1, CreatedSound
  <2> QED
    BY <1>1, <1>3, <2>1, <2>2, <2>3, PlainAdvance
<1> QED
  BY <1>2, <1>3 DEF Create, Created

Rehashed(job) ==
  [job EXCEPT !.seen = IF profile = None THEN {} ELSE Hashes(profile), !.pc = "judge"]

LEMMA ReadHashesTyped ==
  ASSUME TypeInv, NEW t \in Threads, ReadHashes(t)
  PROVE  TypeInv' /\ Set(t, Rehashed(th[t])) /\ Sound(Rehashed(th[t]))
<1> DEFINE job == th[t]
           texts == IF profile = None THEN {} ELSE Hashes(profile)
<1>1. job # Idle /\ job \in Job /\ Framed(job) /\ job.pc = "hash" /\ TablesOK
  BY Working DEF ReadHashes
<1>2. TablesOK' /\ UNCHANGED registry
  BY TablesStay DEF ReadHashes
<1>3. Set(t, Rehashed(job))
  BY <1>1 DEF ReadHashes, Set, Rehashed, TypeInv, TypeOK
<1>4. texts \subseteq Texts
  BY <1>1, DocTexts DEF TablesOK
<1>5. /\ Rehashed(job) \in Job /\ Rehashed(job).pc = "judge"
      /\ Rehashed(job).req = job.req /\ Rehashed(job).doc = job.doc
      /\ Rehashed(job).todo = job.todo /\ Rehashed(job).snaps = job.snaps
  BY <1>1, <1>4 DEF Rehashed, Job, Pcs
<1>6. job.req.op = "upload" /\ IsCanvas(job.req) /\ ~Keyed(job.req)
  BY <1>1, JobFields, RequestTypes DEF Framed, OpsAt, IsCanvas, Keyed
<1>7. Framed(Rehashed(job))
  BY <1>1, <1>5, <1>6 DEF Framed, OpsAt, Handling, Adds
<1> QED
  BY <1>1, <1>2, <1>3, <1>5, <1>7, PlainAdvance DEF Sound

\* The text is a duplicate, held, or admitted.
Known(job) == (Keyed(job.req) \/ IsCanvas(job.req)) /\ Head(job.todo) \in job.seen

LEMMA JudgeCases ==
  ASSUME NEW t \in Threads, Judge(t)
  PROVE  \/ Known(th[t]) /\ Set(t, Handled(th[t]))
         \/ ~Known(th[t]) /\ th[t].doc.samples # <<>> /\ Set(t, Handled(HeldBack(th[t])))
         \/ /\ ~Known(th[t])
            /\ \E drift \in {0, th[t].doc.drift} :
                 LET next == Admitted(th[t], drift)
                 IN  IF Spends(th[t])
                     THEN Set(t, [next EXCEPT !.pc = "consume"])
                     ELSE Set(t, Handled(next))
<1> DEFINE job == th[t]
<1>1. CASE Known(job)
  BY <1>1 DEF Judge, Known
<1>2. CASE ~Known(job)
  BY <1>2 DEF Judge, Known, HeldBack, Admitted, SampleOf, Spends
<1> QED
  BY <1>1, <1>2

LEMMA HandledGoesOn ==
  ASSUME NEW job \in Job, Ready(job)
  PROVE  /\ Sound(Handled(job))
         /\ Handled(job) # Idle =>
              /\ Handled(job).req = job.req
              /\ Handled(job).pc \notin {"record", "bbook", "persist"}
<1>1. /\ Sound(Handled(job))
      /\ Handled(job) # Idle =>
           /\ Same(job, Handled(job))
           /\ Handled(job).pc \in {"row", "decide", "judge", "put"}
  BY HandledSound
<1> QED
  BY <1>1 DEF Same

LEMMA JudgeTyped ==
  ASSUME TypeInv, NEW t \in Threads, Judge(t)
  PROVE  TypeInv'
<1> DEFINE job == th[t]
<1>1. job # Idle /\ job \in Job /\ Framed(job) /\ job.pc = "judge"
  BY Working DEF Judge
<1>2. TablesOK' /\ UNCHANGED registry
  BY TablesStay DEF Judge
<1>3. job.todo # <<>> /\ job.doc.drift \in 0..2
  BY <1>1, JobFields DEF Framed, Handling
<1>4. ASSUME NEW base \in Job, Ready(base), base.req = job.req, Set(t, Handled(base))
      PROVE  TypeInv'
  BY <1>1, <1>2, <1>4, HandledGoesOn, PlainAdvance
<1>5. CASE Known(job) /\ Set(t, Handled(job))
  BY <1>1, <1>4, <1>5, JudgedSound
<1>6. CASE Set(t, Handled(HeldBack(job)))
  <2>1. HeldBack(job) \in Job /\ HeldBack(job).req = job.req
    BY <1>1, <1>3, HeldBackFields
  <2>2. Ready(HeldBack(job))
    BY <1>1, HeldBackSound
  <2> QED
    BY <1>4, <1>6, <2>1, <2>2
<1>7. ASSUME ~Known(job), NEW drift \in {0, job.doc.drift}
      PROVE  /\ Admitted(job, drift) \in Job /\ Admitted(job, drift).req = job.req
             /\ Ready(Admitted(job, drift))
             /\ Spends(job) =>
                  Sound([Admitted(job, drift) EXCEPT !.pc = "consume"])
  <2>1. drift \in 0..2
    BY <1>3
  <2>2. Keyed(job.req) => Head(job.todo) \notin job.seen
    BY <1>7 DEF Known
  <2>3. Admitted(job, drift) \in Job /\ Admitted(job, drift).req = job.req
    BY <1>1, <1>3, <2>1, AdmittedFields
  <2>4. /\ Ready(Admitted(job, drift))
        /\ Spends(job) =>
             Sound([Admitted(job, drift) EXCEPT !.pc = "consume"])
    BY <1>1, <2>1, <2>2, AdmittedSound
  <2> QED
    BY <2>3, <2>4
<1>8. ASSUME ~Known(job), NEW drift \in {0, job.doc.drift}, Spends(job),
             Set(t, [Admitted(job, drift) EXCEPT !.pc = "consume"])
      PROVE  TypeInv'
  <2> DEFINE next == [Admitted(job, drift) EXCEPT !.pc = "consume"]
  <2>1. Sound(next) /\ next.req = job.req /\ next.pc = "consume"
    BY <1>7, <1>8 DEF Job
  <2> HIDE DEF next
  <2>2. Set(t, next)
    BY <1>8 DEF next
  <2> QED
    BY <1>1, <1>2, <2>1, <2>2, PlainAdvance
<1>9. ASSUME ~Known(job), NEW drift \in {0, job.doc.drift},
             Set(t, Handled(Admitted(job, drift)))
      PROVE  TypeInv'
  BY <1>4, <1>7, <1>9
<1> QED
  BY <1>5, <1>6, <1>8, <1>9, JudgeCases

LEMMA ConsumeTyped ==
  ASSUME TypeInv, NEW t \in Threads, Consume(t)
  PROVE  TypeInv'
<1> DEFINE job == th[t]
           replayed == TokenOf(job.req) \in used
           base == IF replayed THEN Demoted(job) ELSE job
<1>1. job # Idle /\ job \in Job /\ Framed(job) /\ job.pc = "consume" /\ TablesOK
  BY Working DEF Consume
<1>2. CASE Fails(t)
  BY <1>1, <1>2, FailsTyped DEF Consume
<1>3. CASE /\ used' = used \cup {TokenOf(job.req)} /\ Set(t, Spent(job, replayed))
           /\ UNCHANGED <<profile, sealed, paper, registry, lost>>
  <2>1. Len(job.doc.samples) > 0 /\ TokenOf(job.req) \in Tokens
    BY <1>1, JobFields, TokenTypes DEF Framed, Spending, OpsAt, TokenOf
  <2>2. TablesOK'
    BY <1>1, <1>3, <2>1 DEF Consume, TablesOK
  <2>3. Demoted(job) \in Job /\ Demoted(job).req = job.req
    BY <1>1, <2>1, DemotedFields
  <2>4. replayed \in BOOLEAN
    OBVIOUS
  <2> HIDE DEF replayed
  <2>5. /\ Ready(job) /\ Ready(Demoted(job))
        /\ Spent(job, replayed) = Handled(base)
    BY <1>1, <2>4, SpentSound
  <2>6. base \in Job /\ base.req = job.req /\ Ready(base)
    BY <1>1, <2>3, <2>5
  <2> HIDE DEF base
  <2> QED
    BY <1>1, <1>3, <2>2, <2>5, <2>6, HandledGoesOn, PlainAdvance
<1> QED
  BY <1>2, <1>3 DEF Consume

\* What the thread does once its document is in the table.
AfterPut(job) ==
  LET base == [job EXCEPT !.doc = Blank, !.fresh = TRUE, !.seen = {}]
  IN IF job.req.op = "remove" \/ IsBatch(job.req) THEN Idle
     ELSE IF job.held THEN Returned(base)
     ELSE [base EXCEPT !.pc = "complete"]

LEMMA AfterPutSound ==
  ASSUME NEW job \in Job, Framed(job), job.pc = "put"
  PROVE  /\ Sound(AfterPut(job))
         /\ AfterPut(job) # Idle =>
              /\ AfterPut(job).req = job.req /\ AfterPut(job).doc = Blank
              /\ AfterPut(job).alone = job.alone
              /\ \/ AfterPut(job).pc = "complete" /\ AfterPut(job).held = job.held
                 \/ AfterPut(job).pc = "row" /\ job.req.op = "approve"
                 \/ AfterPut(job).pc = "decide" /\ AfterPut(job).held /\ job.held
<1> DEFINE base == [job EXCEPT !.doc = Blank, !.fresh = TRUE, !.seen = {}]
           done == [base EXCEPT !.pc = "complete"]
<1>1. /\ job.snaps = {} /\ job.req.op \in Adds \cup {"remove"}
      /\ job.req.op = "paper" => job.prov = "unverified"
  BY DEF Framed, OpsAt, PaperFrame
<1>2. /\ base \in Job /\ base.doc = Blank /\ base.snaps = {} /\ base.req = job.req
      /\ base.prov = job.prov /\ base.held = job.held /\ base.alone = job.alone
  BY <1>1, BlankFacts DEF Job
<1>3. /\ done \in Job /\ done.doc = Blank /\ done.snaps = {} /\ done.req = job.req
      /\ done.prov = job.prov /\ done.held = job.held /\ done.pc = "complete"
      /\ done.alone = job.alone
  BY <1>1, BlankFacts DEF Job, Pcs
<1>4. CASE job.req.op = "remove" \/ IsBatch(job.req)
  BY <1>4 DEF AfterPut, Sound
<1>5. CASE ~(job.req.op = "remove" \/ IsBatch(job.req)) /\ job.held
  <2>1. AfterPut(job) = Returned(base)
    BY <1>5 DEF AfterPut
  <2> HIDE DEF base
  <2>2. /\ Sound(Returned(base))
        /\ Returned(base) # Idle =>
             /\ Same(base, Returned(base))
             /\ \/ Returned(base).pc = "row" /\ base.req.op = "approve"
                \/ /\ Returned(base).pc = "decide" /\ base.req.op = "paper"
                   /\ Returned(base).held = base.held
    BY <1>1, <1>2, BlankFacts, ReturnedSound
  <2> QED
    BY <1>2, <1>5, <2>1, <2>2 DEF Same
<1>6. CASE ~(job.req.op = "remove" \/ IsBatch(job.req)) /\ ~job.held
  <2>1. AfterPut(job) = done
    BY <1>6 DEF AfterPut
  <2> HIDE DEF done
  <2>2. Framed(done)
    BY <1>1, <1>3, <1>6, BlankFacts DEF Framed, OpsAt, Handling, PaperFrame
  <2> QED
    BY <1>3, <2>1, <2>2 DEF Sound
<1> QED
  BY <1>4, <1>5, <1>6

LEMMA PutCases ==
  ASSUME NEW t \in Threads, Put(t)
  PROVE  \/ Fails(t)
         \/ /\ profile' = th[t].doc
            /\ lost' = lost \cup (IF th[t].fresh THEN {} ELSE {"stale"})
                            \cup (IF th[t].req.op = "remove" THEN {"removed"} ELSE {})
            /\ th' = Overwritten(t, AfterPut(th[t]))
            /\ UNCHANGED <<used, sealed, paper, registry>>
<1> DEFINE base == [th[t] EXCEPT !.doc = Blank, !.fresh = TRUE, !.seen = {}]
<1>1. CASE Fails(t)
  BY <1>1
<1>2. CASE ~Fails(t)
  <2>1. base.req = th[t].req /\ base.held = th[t].held
    OBVIOUS
  <2> QED
    BY <1>2 DEF Put, AfterPut
<1> QED
  BY <1>1, <1>2

LEMMA PutTyped ==
  ASSUME TypeInv, NEW t \in Threads, Put(t)
  PROVE  TypeInv'
<1> DEFINE job == th[t]
<1>1. job # Idle /\ job \in Job /\ Framed(job) /\ job.pc = "put" /\ TablesOK
  BY Working DEF Put
<1>2. CASE Fails(t)
  BY <1>1, <1>2, FailsTyped DEF Put
<1>3. CASE /\ profile' = th[t].doc
           /\ lost' = lost \cup (IF th[t].fresh THEN {} ELSE {"stale"})
                           \cup (IF th[t].req.op = "remove" THEN {"removed"} ELSE {})
           /\ th' = Overwritten(t, AfterPut(th[t]))
           /\ UNCHANGED <<used, sealed, paper, registry>>
  <2>1. NoRepeats(job.doc) /\ job.doc \in Document
    BY <1>1, JobFields DEF Framed
  <2>2. TablesOK'
    BY <1>1, <1>3, <2>1 DEF Put, TablesOK, Losses
  <2>3. /\ Sound(AfterPut(job))
        /\ AfterPut(job) # Idle =>
             AfterPut(job).req = job.req /\ AfterPut(job).pc \in {"complete", "row", "decide"}
    BY <1>1, AfterPutSound
  <2> QED
    BY <1>1, <1>3, <2>2, <2>3, PlainAdvance
<1> QED
  BY <1>2, <1>3, PutCases

LEMMA LoadsAreBoolean == Loads \subseteq BOOLEAN
BY DEF Loads

\* A step that settles requests, or records one, and goes on to persist it.
LEMMA OnwardTyped ==
  ASSUME TypeInv, NEW t \in Threads, NEW job \in Job, th[t] # Idle,
         job.req = th[t].req, NoRepeats(job.doc), job.req.op \in OpsAt("persist"),
         job.req.op = "paper" => job.prov = "unverified",
         NEW snaps \in SUBSET [id : Ids, request : Request], Set(t, Onward(job, snaps)),
         RegistryTypeOK', RowsKnown', hydrated', TablesOK',
         \A s \in snaps : obj'[s.id] # None,
         job.req.op = "ask" => obj'[job.req.id] # None,
         NEW ids, Grows(ids), \A a \in ids : th[t].pc = "record" /\ th[t].req.id = a
  PROVE  TypeInv'
<1> DEFINE next == Onward(job, snaps)
<1>1. /\ Sound(next)
      /\ next # Idle =>
           /\ next.req = job.req /\ next.snaps = snaps
           /\ next.pc \in {"persist", "bbook", "row", "decide"}
  <2>1. /\ [job EXCEPT !.snaps = snaps].req = job.req
        /\ [job EXCEPT !.snaps = snaps].snaps = snaps
    BY DEF Job
  <2> QED
    BY <2>1, OnwardSound DEF Same
<1> HIDE DEF next
<1>2. GoesOn(t, next)
  BY <1>1 DEF GoesOn, next
<1> QED
  BY <1>2, Advance

LEMMA PersistThenOnward ==
  ASSUME NEW t \in Threads, NEW snaps, PersistThen(t, snaps)
  PROVE  Set(t, Onward(th[t], snaps))
BY DEF PersistThen, Onward

LEMMA SnapshotsKnown ==
  ASSUME RegistryTypeOK', NEW snaps,
         \A s \in snaps : s \in [id : Ids, request : Request] /\ obj'[s.id] = s.request
  PROVE  snaps \in SUBSET [id : Ids, request : Request] /\ \A s \in snaps : obj'[s.id] # None
BY NoObjectAssumption

LEMMA CompleteTyped ==
  ASSUME TypeInv, NEW t \in Threads, Complete(t)
  PROVE  TypeInv'
<1> DEFINE job == th[t]
<1>1. job # Idle /\ job \in Job /\ Framed(job) /\ job.pc = "complete" /\ TablesOK
  BY Working DEF Complete
<1>2. /\ job.req.op \in Adds /\ NoRepeats(job.doc)
      /\ job.req.op = "paper" => job.prov = "unverified"
  BY <1>1 DEF Framed, OpsAt, PaperFrame
<1>3. PICK loads \in Loads :
        /\ Settle(Pending(loads), "completed", loads)
        /\ PersistThen(t, Snapshots(Pending(loads), SetStatus(Pending(loads), "completed")))
        /\ NoteLoad(loads)
  <2>1. AuthWeight(job.prov) > 0
    BY <1>1, JobFields, WeightIsPositive
  <2> QED
    BY <2>1 DEF Complete
<1> DEFINE snaps == Snapshots(Pending(loads), SetStatus(Pending(loads), "completed"))
<1>4. loads \in BOOLEAN /\ Pending(loads) \subseteq Listed(loads)
  BY LoadsAreBoolean DEF Pending
<1>5. RegistryTypeOK /\ RowsKnown /\ UNCHANGED row
  BY DEF TypeInv, TypeOK, RegistryInv, Complete
<1>6. /\ RegistryTypeOK' /\ RowsKnown' /\ hydrated' /\ Grows({})
      /\ \A s \in snaps : s \in [id : Ids, request : Request] /\ obj'[s.id] = s.request
  BY <1>3, <1>4, <1>5, SettleTyped
<1>7. TablesOK'
  BY <1>3, TablesStay DEF Complete, NoteLoad, Losses
<1> HIDE DEF snaps
<1>8. snaps \in SUBSET [id : Ids, request : Request] /\ \A s \in snaps : obj'[s.id] # None
  BY <1>6, SnapshotsKnown
<1>9. Set(t, Onward(job, snaps))
  BY <1>3, PersistThenOnward DEF snaps
<1> QED
  BY <1>1, <1>2, <1>6, <1>7, <1>8, <1>9, OnwardTyped DEF OpsAt, Adds

LEMMA NoteTyped ==
  ASSUME TypeInv, NEW t \in Threads, Note(t)
  PROVE  TypeInv'
<1> DEFINE job == th[t]
           a == job.req.id
           snaps == {[id |-> a, request |-> Unsent]}
<1>1. job # Idle /\ job \in Job /\ Framed(job) /\ job.pc = "record" /\ TablesOK
  BY Working DEF Note
<1>2. /\ job.req.op = "ask" /\ NoRepeats(job.doc)
      /\ a \in Ids
  BY <1>1, JobFields, RequestTypes DEF Framed, OpsAt
<1>3. PICK loads \in Loads :
        Record(a, Unsent, loads) /\ NoteLoad(loads) /\ PersistThen(t, snaps)
  BY DEF Note
<1>4. loads \in BOOLEAN /\ Unsent \in Request
  BY LoadsAreBoolean DEF Unsent, Request
<1>5. RegistryTypeOK /\ RowsKnown /\ UNCHANGED row
  BY DEF TypeInv, TypeOK, RegistryInv, Note
<1> HIDE DEF snaps, a
<1>6. RegistryTypeOK' /\ RowsKnown' /\ hydrated' /\ obj'[a] = Unsent /\ Grows({a})
  BY <1>2, <1>3, <1>4, <1>5, RecordTyped
<1>7. TablesOK'
  BY <1>3, TablesStay DEF Note, NoteLoad, Losses
<1>8. snaps \in SUBSET [id : Ids, request : Request] /\ \A s \in snaps : obj'[s.id] # None
  BY <1>2, <1>4, <1>6, NoObjectAssumption DEF snaps
<1>9. Set(t, Onward(job, snaps))
  BY <1>3, PersistThenOnward
<1>10. obj'[job.req.id] # None /\ \A b \in {a} : job.pc = "record" /\ job.req.id = b
  BY <1>1, <1>4, <1>6, NoObjectAssumption DEF a
<1>11. job.req.op \in OpsAt("persist") /\ job.req.op # "paper"
  BY <1>2 DEF OpsAt
<1> QED
  BY <1>1, <1>2, <1>6, <1>7, <1>8, <1>9, <1>10, <1>11, OnwardTyped

LEMMA CallBbookTyped ==
  ASSUME TypeInv, NEW t \in Threads, CallBbook(t)
  PROVE  TypeInv'
<1> DEFINE job == th[t]
           a == job.req.id
           next(snaps) == [job EXCEPT !.snaps = snaps, !.asked = TRUE, !.pc = "persist"]
<1>1. job # Idle /\ job \in Job /\ Framed(job) /\ job.pc = "bbook" /\ TablesOK
  BY Working DEF CallBbook
<1>2. /\ job.req.op = "ask" /\ NoRepeats(job.doc) /\ a \in Ids
  BY <1>1, JobFields, RequestTypes DEF Framed, OpsAt
<1>3. /\ RegistryTypeOK /\ RowsKnown /\ UNCHANGED row /\ hydrated /\ obj[a] \in Request
  BY <1>1, <1>2 DEF TypeInv, TypeOK, RegistryInv, CallBbook, Busy, RegistryTypeOK
<1>4. TablesOK'
  BY TablesStay DEF CallBbook
<1>5. ASSUME NEW snaps \in SUBSET [id : Ids, request : Request], snaps # {}
      PROVE  /\ Sound(next(snaps)) /\ next(snaps).req = job.req
             /\ next(snaps).pc = "persist" /\ next(snaps).snaps = snaps
  <2>1. /\ next(snaps) \in Job /\ next(snaps).req = job.req /\ next(snaps).pc = "persist"
        /\ next(snaps).snaps = snaps /\ next(snaps).doc = job.doc
    BY <1>1 DEF Job, Pcs
  <2>2. Framed(next(snaps))
    BY <1>2, <1>5, <2>1 DEF Framed, OpsAt, Handling
  <2> QED
    BY <2>1, <2>2 DEF Sound
<1>6. ASSUME NEW dated \in BOOLEAN, NEW r, r = [obj[a] EXCEPT !.link = TRUE, !.dated = dated],
             Record(a, r, TRUE), Set(t, next({[id |-> a, request |-> r]}))
      PROVE  TypeInv'
  <2>1. r \in Request
    BY <1>3, <1>6 DEF Request
  <2>2. RegistryTypeOK' /\ RowsKnown' /\ hydrated' /\ obj'[a] = r /\ Grows({a})
    <3>1. RegistryTypeOK /\ RowsKnown /\ UNCHANGED row /\ a \in Ids /\ Record(a, r, TRUE)
      BY <1>2, <1>3, <1>6
    <3> HIDE DEF a
    <3> QED
      BY <2>1, <3>1, RecordTyped
  <2>3. Grows({})
    BY <1>3, <2>2, NoObjectAssumption DEF Grows
  <2>4. {[id |-> a, request |-> r]} \in SUBSET [id : Ids, request : Request]
    BY <1>2, <2>1
  <2> DEFINE job2 == next({[id |-> a, request |-> r]})
  <2>5. /\ Sound(job2) /\ job2.req = job.req /\ job2.pc = "persist"
        /\ job2.snaps = {[id |-> a, request |-> r]}
    BY <1>5, <2>4
  <2> HIDE DEF job2
  <2>6. \A s \in job2.snaps : obj'[s.id] # None
    BY <2>1, <2>2, <2>5, NoObjectAssumption
  <2>7. obj'[job2.req.id] # None
    BY <2>1, <2>2, <2>5, NoObjectAssumption
  <2>8. Set(t, job2)
    BY <1>6 DEF job2
  <2>9. GoesOn(t, job2)
    BY <1>1, <2>2, <2>5, <2>6, <2>7, <2>8 DEF GoesOn
  <2> QED
    BY <1>4, <2>2, <2>3, <2>9, Advance
<1> DEFINE known == {a} \cap listed
           failed == Snapshots(known, SetStatus(known, "failed"))
<1>7. ASSUME Settle(known, "failed", TRUE),
             IF known = {} THEN Set(t, Idle) ELSE Set(t, next(failed))
      PROVE  TypeInv'
  <2>1. known \in SUBSET Listed(TRUE)
    BY <1>3 DEF Listed
  <2>2. /\ RegistryTypeOK' /\ RowsKnown' /\ hydrated' /\ Grows({})
        /\ \A s \in failed : s \in [id : Ids, request : Request] /\ obj'[s.id] = s.request
    BY <1>3, <1>7, <2>1, SettleTyped
  <2>3. known # {} => failed # {}
    BY DEF Snapshots
  <2> HIDE DEF failed
  <2>4. failed \in SUBSET [id : Ids, request : Request] /\ \A s \in failed : obj'[s.id] # None
    BY <2>2, SnapshotsKnown
  <2>5. CASE known = {}
    <3>1. GoesOn(t, Idle)
      BY <1>1, <1>7, <2>5 DEF GoesOn, Sound
    <3> QED
      BY <1>4, <2>2, <3>1, Advance
  <2>6. CASE known # {}
    <3> DEFINE job2 == next(failed)
    <3>1. Sound(job2) /\ job2.req = job.req /\ job2.pc = "persist" /\ job2.snaps = failed
      BY <1>5, <2>3, <2>4, <2>6
    <3>2. Set(t, job2)
      BY <1>7, <2>6
    <3> HIDE DEF job2
    <3>3. obj'[job2.req.id] # None
      BY <1>2, <1>3, <2>2, <3>1, NoObjectAssumption DEF Grows
    <3>4. GoesOn(t, job2)
      BY <1>1, <2>2, <2>4, <3>1, <3>2, <3>3 DEF GoesOn
    <3> QED
      BY <1>4, <2>2, <3>4, Advance
  <2> QED
    BY <2>5, <2>6
<1>8. \/ \E dated \in BOOLEAN :
           LET r == [obj[a] EXCEPT !.link = TRUE, !.dated = dated]
           IN Record(a, r, TRUE) /\ Set(t, next({[id |-> a, request |-> r]}))
      \/ /\ Settle(known, "failed", TRUE)
         /\ IF known = {} THEN Set(t, Idle) ELSE Set(t, next(failed))
  BY <1>1 DEF CallBbook, Finish, Set, TypeInv, TypeOK
<1> QED
  BY <1>6, <1>7, <1>8

LEMMA ListTyped ==
  ASSUME TypeInv, NEW t \in Threads, List(t)
  PROVE  TypeInv'
<1> DEFINE job == th[t]
<1>1. job # Idle /\ job \in Job /\ Framed(job) /\ job.pc = "poll" /\ TablesOK
  BY Working DEF List
<1>2. job.req.op = "poll" /\ NoRepeats(job.doc)
  BY <1>1 DEF Framed, OpsAt
<1>a. PICK loads \in Loads :
        \E due \in SUBSET {a \in Pending(loads) : Objects[a].dated} :
          /\ Settle(due, "expired", loads)
          /\ PersistThen(t, Snapshots(due, SetStatus(due, "expired")))
          /\ NoteLoad(loads)
  BY DEF List
<1>3. PICK due \in SUBSET {a \in Pending(loads) : Objects[a].dated} :
        /\ Settle(due, "expired", loads)
        /\ PersistThen(t, Snapshots(due, SetStatus(due, "expired")))
        /\ NoteLoad(loads)
  BY <1>a
<1> DEFINE snaps == Snapshots(due, SetStatus(due, "expired"))
<1>4. loads \in BOOLEAN /\ due \in SUBSET Listed(loads)
  BY LoadsAreBoolean DEF Pending
<1>5. RegistryTypeOK /\ RowsKnown /\ UNCHANGED row
  BY DEF TypeInv, TypeOK, RegistryInv, List
<1>6. /\ RegistryTypeOK' /\ RowsKnown' /\ hydrated' /\ Grows({})
      /\ \A s \in snaps : s \in [id : Ids, request : Request] /\ obj'[s.id] = s.request
  BY <1>3, <1>4, <1>5, SettleTyped
<1>7. TablesOK'
  BY <1>3, TablesStay DEF List, NoteLoad, Losses
<1> HIDE DEF snaps
<1>8. snaps \in SUBSET [id : Ids, request : Request] /\ \A s \in snaps : obj'[s.id] # None
  BY <1>6, SnapshotsKnown
<1>9. Set(t, Onward(job, snaps))
  BY <1>3, PersistThenOnward DEF snaps
<1> QED
  BY <1>1, <1>2, <1>6, <1>7, <1>8, <1>9, OnwardTyped DEF OpsAt, Adds

LEMMA PersistCases ==
  ASSUME TypeInv, NEW t \in Threads, Persist(t)
  PROVE  \E s \in th[t].snaps :
           /\ Set(t, Onward(th[t], th[t].snaps \ {s}))
           /\ \/ row' = [row EXCEPT ![s.id] = s.request]
                 /\ lost' = IF s.id \notin listed \/ obj[s.id] # s.request
                            THEN lost \cup {"crossed"} ELSE lost
              \/ StoreFaults /\ lost' = lost \cup {"fault"} /\ UNCHANGED row
<1>1. th[t] \in Job /\ th[t].pc = "persist"
  BY Working DEF Persist
<1>2. ASSUME NEW s
      PROVE  LET job == [th[t] EXCEPT !.snaps = @ \ {s}]
             IN (IF job.snaps = {} THEN Persisted(job) ELSE job)
                = Onward(th[t], th[t].snaps \ {s})
  <2>1. [th[t] EXCEPT !.snaps = @ \ {s}]
        = [th[t] EXCEPT !.snaps = th[t].snaps \ {s}, !.pc = "persist"]
    BY <1>1 DEF Job
  <2>2. [th[t] EXCEPT !.snaps = @ \ {s}].snaps = th[t].snaps \ {s}
    BY <1>1 DEF Job
  <2> QED
    BY <2>1, <2>2 DEF Onward
<1> QED
  BY <1>2 DEF Persist, PersistSnapshot

LEMMA PersistTyped ==
  ASSUME TypeInv, NEW t \in Threads, Persist(t)
  PROVE  TypeInv'
<1> DEFINE job == th[t]
<1>1. job # Idle /\ job \in Job /\ Framed(job) /\ job.pc = "persist" /\ TablesOK
  BY Working DEF Persist
<1>2. /\ job.req.op \in OpsAt("persist") /\ NoRepeats(job.doc)
      /\ job.req.op = "paper" => job.prov = "unverified"
  BY <1>1 DEF Framed, PaperFrame
<1>3. PICK s \in job.snaps :
           /\ Set(t, Onward(th[t], th[t].snaps \ {s}))
           /\ \/ row' = [row EXCEPT ![s.id] = s.request]
                 /\ lost' = IF s.id \notin listed \/ obj[s.id] # s.request
                            THEN lost \cup {"crossed"} ELSE lost
              \/ StoreFaults /\ lost' = lost \cup {"fault"} /\ UNCHANGED row
  BY PersistCases
<1>4. s.id \in Ids /\ s.request \in Request
  BY <1>1, JobFields
<1>5. /\ hydrated /\ \A x \in job.snaps : obj[x.id] # None
  BY <1>1 DEF TypeInv, RegistryInv, Busy
<1>6. RegistryTypeOK /\ RowsKnown /\ UNCHANGED <<listed, obj, hydrated>>
  BY DEF TypeInv, TypeOK, RegistryInv, Persist
<1>7. RegistryTypeOK' /\ RowsKnown' /\ hydrated' /\ Grows({})
  BY <1>3, <1>4, <1>5, <1>6 DEF RegistryTypeOK, RowsKnown, Grows
<1>8. TablesOK'
  BY <1>3, TablesStay DEF Persist, Losses
<1>9. job.req.op = "ask" => obj'[job.req.id] # None
  BY <1>1, <1>6 DEF TypeInv, RegistryInv, Busy
<1> DEFINE snaps == job.snaps \ {s}
<1>10. /\ snaps \in SUBSET [id : Ids, request : Request]
       /\ \A x \in snaps : obj'[x.id] # None
  BY <1>1, <1>5, <1>6, JobFields
<1>11. Set(t, Onward(job, snaps))
  BY <1>3
<1> HIDE DEF snaps
<1> QED
  BY <1>1, <1>2, <1>7, <1>8, <1>9, <1>10, <1>11, OnwardTyped

LEMMA EraseCheckTyped ==
  ASSUME TypeInv, NEW t \in Threads, EraseCheck(t)
  PROVE  TypeInv'
<1> DEFINE job == th[t]
           wiping == [job EXCEPT !.pc = "wipe"]
<1>1. job # Idle /\ job \in Job /\ Framed(job) /\ job.pc = "check"
  BY Working DEF EraseCheck
<1>2. TablesOK' /\ UNCHANGED registry
  BY TablesStay DEF EraseCheck
<1>3. wiping \in Job /\ wiping.pc = "wipe" /\ wiping.req = job.req /\ Framed(wiping)
  BY <1>1 DEF Job, Pcs, Framed, OpsAt, Handling
<1>4. Set(t, Idle) \/ Set(t, wiping)
  BY DEF EraseCheck, Finish, Go
<1> HIDE DEF wiping
<1> QED
  BY <1>1, <1>2, <1>3, <1>4, PlainAdvance DEF Sound

LEMMA WipeTyped ==
  ASSUME TypeInv, NEW t \in Threads, Wipe(t)
  PROVE  TypeInv'
<1> DEFINE job == th[t]
           purging == [job EXCEPT !.pc = "purge"]
<1>1. job # Idle /\ job \in Job /\ Framed(job) /\ job.pc = "wipe" /\ TablesOK
  BY Working DEF Wipe
<1>2. CASE Fails(t)
  BY <1>1, <1>2, FailsTyped DEF Wipe
<1>3. CASE /\ profile' = None /\ used' = {} /\ sealed' = {}
           /\ paper' = [p \in Papers |-> None]
           /\ row' = [a \in Ids |-> None]
           /\ lost' = lost \cup {"erased"}
           /\ th' = Overwritten(t, purging)
           /\ UNCHANGED <<listed, obj, hydrated>>
  <2>1. /\ purging \in Job /\ purging.pc = "purge" /\ purging.req = job.req
        /\ purging.snaps = {} /\ Framed(purging) /\ purging.req.op = "erase"
    BY <1>1 DEF Job, Pcs, Framed, OpsAt, Handling
  <2>2. RegistryTypeOK' /\ RowsKnown' /\ (hydrated => hydrated') /\ Grows({})
    BY <1>3 DEF TypeInv, TypeOK, RegistryTypeOK, RowsKnown, Grows
  <2>3. TablesOK'
    BY <1>1, <1>3 DEF Wipe, TablesOK, Losses
  <2> HIDE DEF purging
  <2>4. GoesOn(t, purging)
    BY <1>1, <1>3, <2>1 DEF GoesOn, Sound
  <2> QED
    BY <2>2, <2>3, <2>4, Advance
<1> QED
  BY <1>2, <1>3 DEF Wipe

LEMMA PurgeTyped ==
  ASSUME TypeInv, NEW t \in Threads, Purge(t)
  PROVE  TypeInv'
<1>1. th[t] # Idle /\ th[t] \in Job /\ th[t].pc = "purge" /\ TablesOK
  BY Working DEF Purge
<1>2. hydrated' = TRUE /\ listed' = {} /\ obj' = Objects /\ row' = row
  BY DEF Purge, PurgeStudent, SetCache
<1>3. RegistryTypeOK /\ RowsKnown
  BY DEF TypeInv, TypeOK, RegistryInv
<1>4. RegistryTypeOK' /\ RowsKnown' /\ hydrated' /\ Grows({})
  BY <1>2, <1>3, ObjectsKnown DEF RegistryTypeOK, RowsKnown, Grows
<1>5. TablesOK'
  BY <1>1, JobFields DEF Purge, TablesOK, tables, NoteLoad, Losses
<1>6. GoesOn(t, Idle)
  BY <1>1 DEF Purge, Finish, GoesOn, Sound
<1> QED
  BY <1>4, <1>5, <1>6, Advance

\* A request that begins.
NewJob(r) ==
  [ pc |-> FirstPc(r), req |-> r,
    todo |-> IF r.op \in {"upload", "approve", "remove"} THEN r.texts ELSE <<>>,
    doc |-> Blank, fresh |-> TRUE, seen |-> {},
    prov |-> IF r.op = "upload" THEN Effective(r) ELSE "unverified",
    changed |-> FALSE, held |-> FALSE, snaps |-> {}, asked |-> FALSE,
    alone |-> \A s \in Threads : ~Busy(s) ]

LEMMA NewJobSound ==
  ASSUME NEW r \in Calls
  PROVE  /\ NewJob(r) \in Job /\ Framed(NewJob(r)) /\ NewJob(r) # Idle
         /\ NewJob(r).req = r /\ NewJob(r).snaps = {} /\ NewJob(r).doc = Blank
         /\ NewJob(r).pc = FirstPc(r) /\ FirstPc(r) \notin {"bbook", "persist"}
         /\ r.op \in OpsAt(FirstPc(r))
         /\ NewJob(r).alone = (\A s \in Threads : ~Busy(s))
<1> DEFINE todo == IF r.op \in {"upload", "approve", "remove"} THEN r.texts ELSE <<>>
           prov == IF r.op = "upload" THEN Effective(r) ELSE "unverified"
           alone == \A s \in Threads : ~Busy(s)
<1>1. todo \in Seq(Texts) /\ (FirstPc(r) = "get" => todo # <<>>)
  BY RequestTypes DEF FirstPc
<1>2. prov \in Provenances
  BY RequestTypes DEF Effective, Provenances, Trusted
<1>3. /\ FirstPc(r) \in {"get", "rows", "paper", "check", "record", "poll"}
      /\ r.op \in OpsAt(FirstPc(r)) /\ (FirstPc(r) = "get" => r.op = "upload")
  BY RequestTypes DEF FirstPc, OpsAt, Adds
<1>4. /\ NewJob(r).pc = FirstPc(r) /\ NewJob(r).req = r /\ NewJob(r).todo = todo
      /\ NewJob(r).doc = Blank /\ NewJob(r).snaps = {} /\ NewJob(r).prov = prov
      /\ NewJob(r).changed = FALSE /\ NewJob(r).held = FALSE
      /\ NewJob(r).alone = alone
  BY DEF NewJob
<1>5. alone \in BOOLEAN
  OBVIOUS
<1> HIDE DEF todo, prov, alone
<1>6. NewJob(r) \in Job
  <2>1. NewJob(r) =
          [pc |-> FirstPc(r), req |-> r, todo |-> todo, doc |-> Blank, fresh |-> TRUE,
           seen |-> {}, prov |-> prov, changed |-> FALSE, held |-> FALSE, snaps |-> {},
           asked |-> FALSE, alone |-> alone]
    BY DEF NewJob, todo, prov, alone
  <2> QED
    BY <1>1, <1>2, <1>3, <1>5, <2>1, BlankFacts DEF Job, Pcs
<1>7. Framed(NewJob(r))
  BY <1>1, <1>3, <1>4, BlankFacts DEF Framed, Handling, PaperFrame, prov
<1> QED
  BY <1>3, <1>4, <1>6, <1>7, JobFields DEF alone

LEMMA BeginTyped ==
  ASSUME TypeInv, NEW t \in Threads, Begin(t)
  PROVE  TypeInv'
<1>1. PICK r \in Calls :
        /\ r.op = "ask" => obj[r.id] = None /\ \A s \in Threads : Busy(s) => th[s].req # r
        /\ th' = Joined(t, NewJob(r))
  BY DEF Begin, NewJob, Joined
<1>2. /\ NewJob(r) \in Job /\ Framed(NewJob(r)) /\ NewJob(r) # Idle
      /\ NewJob(r).req = r /\ NewJob(r).snaps = {}
      /\ NewJob(r).pc = FirstPc(r) /\ FirstPc(r) \notin {"bbook", "persist"}
      /\ r.op \in OpsAt(FirstPc(r))
  BY NewJobSound
<1>3. /\ th'[t] = NewJob(r) /\ th' \in [Threads -> Job \cup {Idle}] /\ FramesOK'
      /\ \A s \in Threads \ {t} : Kept(s)
  BY <1>1, <1>2, Moves DEF TypeInv, TypeOK, Sound
<1>4. ~Busy(t) /\ UNCHANGED registry
  BY DEF Begin
<1>5. RegistryTypeOK' /\ RowsKnown' /\ UNCHANGED <<obj, hydrated>>
  BY <1>4 DEF TypeInv, TypeOK, RegistryInv, registry, RegistryTypeOK, RowsKnown
<1>6. TablesOK'
  <2>1. TablesOK
    BY TypeInvParts
  <2>2. /\ UNCHANGED <<profile, used, sealed, paper, crashes, lost>> /\ clean' = FALSE
        /\ begun' = begun + 1 /\ begun < MaxCalls
    BY DEF Begin, tables
  <2>3. begun' \in 0..MaxCalls
    BY <2>1, <2>2, BoundsAssumption DEF TablesOK
  <2> QED
    BY <2>1, <2>2, <2>3 DEF TablesOK
<1>7. ASSUME NEW s \in Threads \ {t}, th[s] # Idle, th[s].req.op = "ask", r.op = "ask"
      PROVE  th[s].req.id # r.id
  <2>1. th[s].req \in Calls /\ th[s].req # r
    BY <1>1, <1>7, JobFields DEF TypeInv, TypeOK, Busy
  <2>2. th[s].req \in Ask /\ r \in Ask
    BY <1>7, <2>1, CallsAssumption
  <2> QED
    BY <2>1, <2>2 DEF Ask
<1>8. r.op = "ask" <=> FirstPc(r) = "record"
  BY <1>2, RequestTypes DEF FirstPc
<1>9. ASSUME NEW s \in Threads, th'[s] # Idle
      PROVE  /\ th'[s].pc \in {"bbook", "persist"} => hydrated
             /\ \A x \in th'[s].snaps : obj[x.id] # None
             /\ th'[s].req.op = "ask" /\ th'[s].pc # "record" =>
                  obj[th'[s].req.id] # None
             /\ th'[s].pc = "record" =>
                  /\ obj[th'[s].req.id] = None
                  /\ \A u \in Threads \ {s} : th'[u] # Idle /\ th'[u].req.op = "ask" =>
                       th'[u].req.id # th'[s].req.id
  <2>1. CASE s = t
    <3>1. ASSUME NEW u \in Threads \ {t}, th'[u] # Idle, th'[u].req.op = "ask",
                 r.op = "ask"
          PROVE  th'[u].req.id # r.id
      BY <1>3, <1>7, <3>1 DEF Kept
    <3> QED
      BY <1>1, <1>2, <1>3, <1>8, <2>1, <3>1
  <2>2. CASE s # t
    <3>1. /\ th[s] # Idle /\ th'[s].pc = th[s].pc /\ th'[s].snaps = th[s].snaps
          /\ th'[s].req = th[s].req
      BY <1>3, <1>9, <2>2 DEF Kept
    <3>2. /\ th[s].pc \in {"bbook", "persist"} => hydrated
          /\ \A x \in th[s].snaps : obj[x.id] # None
          /\ th[s].req.op = "ask" /\ th[s].pc # "record" => obj[th[s].req.id] # None
          /\ th[s].pc = "record" =>
               /\ obj[th[s].req.id] = None
               /\ \A u \in Threads \ {s} : th[u] # Idle /\ th[u].req.op = "ask" =>
                    th[u].req.id # th[s].req.id
      BY <3>1 DEF TypeInv, RegistryInv, Busy
    <3>3. th[s].pc = "record" => th[s].req.op = "ask"
      BY <3>1 DEF TypeInv, FramesOK, Sound, Framed, OpsAt
    <3>4. ASSUME th[s].pc = "record", NEW u \in Threads \ {s}, th'[u] # Idle,
                 th'[u].req.op = "ask"
          PROVE  th'[u].req.id # th[s].req.id
      <4>1. CASE u = t
        BY <1>2, <1>3, <1>7, <2>2, <3>1, <3>3, <3>4, <4>1
      <4>2. CASE u # t
        BY <1>3, <3>2, <3>4, <4>2 DEF Kept
      <4> QED
        BY <4>1, <4>2
    <3> QED
      BY <3>1, <3>2, <3>4
  <2> QED
    BY <2>1, <2>2
<1>10. RegistryInv'
  BY <1>5, <1>9 DEF RegistryInv, Busy
<1> QED
  BY <1>3, <1>5, <1>6, <1>10, TypeInvParts DEF TypeInv, TypeOK, TablesOK

LEMMA CrashTyped ==
  ASSUME TypeInv, Crash
  PROVE  TypeInv'
<1>1. /\ th' = [t \in Threads |-> Idle] /\ UNCHANGED <<profile, used, sealed, paper, begun>>
      /\ crashes' = crashes + 1 /\ crashes < MaxCrashes /\ lost' = lost \cup {"crash"}
      /\ clean' = FALSE /\ hydrated' = FALSE /\ listed' = {} /\ UNCHANGED <<obj, row>>
  BY DEF Crash, ForgetCache, tables
<1>2. TablesOK
  BY TypeInvParts
<1>3. crashes' \in 0..MaxCrashes
  BY <1>1, <1>2, BoundsAssumption DEF TablesOK
<1>4. TablesOK'
  BY <1>1, <1>2, <1>3 DEF TablesOK, Losses
<1>5. RegistryTypeOK' /\ RowsKnown'
  BY <1>1 DEF TypeInv, TypeOK, RegistryInv, RegistryTypeOK, RowsKnown
<1>6. \A t \in Threads : th'[t] = Idle
  BY <1>1
<1>7. th' \in [Threads -> Job \cup {Idle}] /\ FramesOK' /\ RegistryInv'
  BY <1>1, <1>5, <1>6 DEF FramesOK, Sound, RegistryInv, Busy
<1> QED
  BY <1>4, <1>5, <1>7 DEF TypeInv, TypeOK, TablesOK

LEMMA InitTyped == Init => TypeInv
<1> SUFFICES ASSUME Init PROVE TypeInv
  OBVIOUS
<1>1. RegistryTypeOK /\ RowsKnown
  <2> DEFINE left == [status |-> "pending", link |-> TRUE, dated |-> TRUE]
  <2>1. left \in Request
    BY DEF Request
  <2>2. row \in [Ids -> {None, left}] /\ obj = row /\ listed = {} /\ hydrated = FALSE
    BY DEF Init, RegistryInit
  <2> HIDE DEF left
  <2> QED
    BY <2>1, <2>2 DEF RegistryTypeOK, RowsKnown
<1>2. TablesOK
  <2>1. 0 \in 0..MaxCalls /\ 0 \in 0..MaxCrashes
    BY BoundsAssumption
  <2>2. paper \in [Papers -> {None, "pending", "held", "approved", "declined"}]
    BY DEF Init
  <2>3. /\ profile = None /\ used = {} /\ sealed = Seals /\ begun = 0 /\ crashes = 0
        /\ lost = {} /\ clean = FALSE
    BY DEF Init
  <2> QED
    BY <2>1, <2>2, <2>3 DEF TablesOK
<1>3. \A t \in Threads : th[t] = Idle
  BY DEF Init
<1>4. th \in [Threads -> Job \cup {Idle}] /\ FramesOK /\ RegistryInv
  BY <1>1, <1>3 DEF Init, FramesOK, Sound, RegistryInv, Busy
<1> QED
  BY <1>1, <1>2, <1>4, TypeInvParts

LEMMA StepTyped ==
  ASSUME TypeInv, NEW t \in Threads, Step(t)
  PROVE  TypeInv'
BY ReadPaperTyped, InsertPaperTyped, SetPaperStatusTyped, RowsTyped, ReadRowTyped,
   ReadRemoveTyped, GetTyped, CreateTyped, ReadHashesTyped, JudgeTyped, ConsumeTyped,
   PutTyped, CompleteTyped, NoteTyped, CallBbookTyped, ListTyped, PersistTyped,
   EraseCheckTyped, WipeTyped, PurgeTyped DEF Step

\* Types and frames hold throughout: no handler is ever at a point its route
\* does not reach, or without what the code there takes for granted.
THEOREM TypesHold == Spec => []TypeInv
<1>1. TypeInv /\ [Next]_vars => TypeInv'
  <2> SUFFICES ASSUME TypeInv, [Next]_vars PROVE TypeInv'
    OBVIOUS
  <2>1. CASE UNCHANGED vars
    BY <2>1 DEF vars, tables, registry, TypeInv, TypeOK, RegistryTypeOK, FramesOK,
                RegistryInv, RowsKnown, Busy
  <2>2. ASSUME NEW t \in Threads, Begin(t) PROVE TypeInv'
    BY <2>2, BeginTyped
  <2>3. ASSUME NEW t \in Threads, Step(t) PROVE TypeInv'
    BY <2>3, StepTyped
  <2>4. CASE Crash
    BY <2>4, CrashTyped
  <2> QED
    BY <2>1, <2>2, <2>3, <2>4 DEF Next
<1> QED
  BY <1>1, InitTyped, PTL DEF Spec

\* The types of every variable, and of what every handler holds.
THEOREM BaselineTypeCorrect == Spec => []TypeOK
<1>1. TypeInv => TypeOK
  BY DEF TypeInv
<1> QED
  BY <1>1, TypesHold, PTL

\* The replay guard: a keyed text is never counted a second time.  Two
\* handlers that read and replace the document cannot defeat it, because each
\* compares with the very document it then appends to.
THEOREM NoTextCountedTwice == Spec => []NoTextTwice
<1>1. TypeInv => NoTextTwice
  BY DEF TypeInv, NoTextTwice, NoRepeats
<1> QED
  BY <1>1, TypesHold, PTL

-----------------------------------------------------------------------------
(* A settled request stays settled.                                         *)

\* Settling leaves the status of the other requests alone.
LEMMA SettleKeeps ==
  ASSUME TypeInv, hydrated, NEW loads \in BOOLEAN, NEW ids \in SUBSET Listed(loads),
         NEW status \in {"completed", "expired", "failed"},
         Settle(ids, status, loads), UNCHANGED row
  PROVE  Resettles
<1>1. RegistryTypeOK /\ RowsKnown /\ Objects = obj
  BY DEF TypeInv, TypeOK, RegistryInv, Objects
<1>2. obj' = SetStatus(ids, status) /\ \A a \in Ids \ ids : obj'[a] = obj[a]
  BY <1>1, SettleTyped
<1>3. /\ listed \subseteq Ids
      /\ ids \subseteq Ids /\ \A a \in ids : obj[a] \in Request
  BY <1>1, ObjectsKnown DEF RegistryTypeOK
<1>4. \A a \in ids : obj'[a].status # "pending"
  BY <1>1, <1>2, <1>3 DEF SetStatus, Request
<1> QED
  BY <1>2, <1>3, <1>4 DEF Resettles

LEMMA ResettlesUnchanged ==
  ASSUME UNCHANGED obj
  PROVE  Resettles
BY DEF Resettles

LEMMA StepResettles ==
  ASSUME TypeInv, NEW t \in Threads, Step(t), hydrated
  PROVE  Resettles
<1>1. CASE UNCHANGED obj
  BY <1>1, ResettlesUnchanged
<1>2. CASE Complete(t)
  <2>1. CASE UNCHANGED obj
    BY <2>1, ResettlesUnchanged
  <2>2. ASSUME NEW loads \in Loads, Settle(Pending(loads), "completed", loads)
        PROVE  Resettles
    <3>1. loads \in BOOLEAN /\ Pending(loads) \in SUBSET Listed(loads) /\ UNCHANGED row
      BY <1>2, LoadsAreBoolean DEF Pending, Complete
    <3> QED
      BY <2>2, <3>1, SettleKeeps
  <2> QED
    BY <1>2, <2>1, <2>2 DEF Complete
<1>3. CASE List(t)
  <2>1. ASSUME NEW loads \in Loads,
               NEW due \in SUBSET {a \in Pending(loads) : Objects[a].dated},
               Settle(due, "expired", loads)
        PROVE  Resettles
    <3>1. loads \in BOOLEAN /\ due \in SUBSET Listed(loads) /\ UNCHANGED row
      BY <1>3, LoadsAreBoolean DEF Pending, List
    <3> QED
      BY <2>1, <3>1, SettleKeeps
  <2> QED
    BY <1>3, <2>1 DEF List
<1>4. CASE Note(t)
  <2> DEFINE a == th[t].req.id
  <2>1. th[t] # Idle /\ th[t] \in Job /\ Framed(th[t]) /\ th[t].pc = "record"
    BY <1>4, Working DEF Note
  <2>2. obj[a] = None /\ a \in Ids
    BY <2>1, JobFields, RequestTypes DEF TypeInv, RegistryInv, Busy, Framed, OpsAt
  <2>3. RegistryTypeOK /\ RowsKnown /\ Objects = obj /\ UNCHANGED row
    BY <1>4 DEF TypeInv, TypeOK, RegistryInv, Objects, Note
  <2>4. PICK loads \in Loads : Record(a, Unsent, loads)
    BY <1>4 DEF Note
  <2>5. loads \in BOOLEAN /\ Unsent \in Request
    BY LoadsAreBoolean DEF Unsent, Request
  <2> HIDE DEF a
  <2>6. \A b \in Ids : b # a => obj'[b] = obj[b]
    BY <2>2, <2>3, <2>4, <2>5, RecordTyped
  <2>7. listed \subseteq Ids /\ a \notin listed
    BY <2>2, <2>3 DEF RegistryTypeOK
  <2> QED
    BY <2>6, <2>7 DEF Resettles
<1>5. CASE CallBbook(t)
  <2> DEFINE a == th[t].req.id
             known == {a} \cap listed
  <2>1. th[t] # Idle /\ th[t] \in Job /\ Framed(th[t]) /\ th[t].pc = "bbook"
    BY <1>5, Working DEF CallBbook
  <2>2. obj[a] # None /\ a \in Ids
    BY <2>1, JobFields, RequestTypes DEF TypeInv, RegistryInv, Busy, Framed, OpsAt
  <2>3. RegistryTypeOK /\ RowsKnown /\ Objects = obj /\ UNCHANGED row
    BY <1>5 DEF TypeInv, TypeOK, RegistryInv, Objects, CallBbook
  <2>4. listed \subseteq Ids /\ obj[a] \in Request
    BY <2>2, <2>3 DEF RegistryTypeOK
  <2>5. ASSUME NEW dated \in BOOLEAN,
               Record(a, [obj[a] EXCEPT !.link = TRUE, !.dated = dated], TRUE)
        PROVE  Resettles
    <3> DEFINE r == [obj[a] EXCEPT !.link = TRUE, !.dated = dated]
    <3>1. r \in Request /\ r.status = obj[a].status
      BY <2>4 DEF Request
    <3> HIDE DEF r, a
    <3>2. obj'[a] = r /\ \A b \in Ids : b # a => obj'[b] = obj[b]
      BY <2>2, <2>3, <2>5, <3>1, RecordTyped DEF r
    <3> QED
      BY <2>4, <3>1, <3>2 DEF Resettles
  <2>6. CASE Settle(known, "failed", TRUE)
    <3>1. known \in SUBSET Listed(TRUE)
      BY DEF Listed
    <3> QED
      BY <2>3, <2>6, <3>1, SettleKeeps
  <2> QED
    BY <1>5, <2>5, <2>6 DEF CallBbook
<1>6. CASE Purge(t)
  <2>1. obj' = obj
    BY <1>6 DEF Purge, PurgeStudent, SetCache, Objects
  <2> QED
    BY <2>1, ResettlesUnchanged
<1>7. CASE ReadPaper(t) \/ InsertPaper(t) \/ SetPaperStatus(t) \/ Rows(t) \/ ReadRow(t)
           \/ ReadRemove(t) \/ Get(t) \/ Create(t) \/ ReadHashes(t) \/ Judge(t)
           \/ Consume(t) \/ Put(t) \/ Persist(t) \/ EraseCheck(t) \/ Wipe(t)
  <2>1. UNCHANGED obj
    BY <1>7 DEF registry, Fails, ReadPaper, InsertPaper, SetPaperStatus, Rows, ReadRow,
       ReadRemove, Get, Create, ReadHashes, Judge, Consume, Put, Persist, EraseCheck, Wipe
  <2> QED
    BY <2>1, ResettlesUnchanged
<1> QED
  BY <1>2, <1>3, <1>4, <1>5, <1>6, <1>7 DEF Step

\* Within one process a settled request is never pending again: of all the
\* steps only the noting of a request makes one pending, and its id is new.
THEOREM SettledForGood == Spec => SettledStaysSettled
<1>1. TypeInv /\ [Next]_vars => [Resettles]_vars
  <2> SUFFICES ASSUME TypeInv, Next PROVE Resettles
    OBVIOUS
  <2>1. CASE ~hydrated \/ UNCHANGED obj
    BY <2>1 DEF Resettles
  <2>2. ASSUME hydrated, NEW t \in Threads, Begin(t) PROVE Resettles
    BY <2>2, ResettlesUnchanged DEF Begin, registry
  <2>3. ASSUME hydrated, NEW t \in Threads, Step(t) PROVE Resettles
    BY <2>3, StepResettles
  <2>4. CASE Crash
    BY <2>4, ResettlesUnchanged DEF Crash, ForgetCache
  <2> QED
    BY <2>1, <2>2, <2>3, <2>4 DEF Next
<1> QED
  BY <1>1, TypesHold, PTL DEF Spec, SettledStaysSettled

-----------------------------------------------------------------------------
(* What every step of a handler leaves.                                     *)

\* It moves only its own thread, stays on its request, and losses accumulate.
OwnFrame(t) ==
  th'[t] # Idle => th'[t].req = th[t].req /\ th'[t].alone = th[t].alone

LEMMA StepMoves ==
  ASSUME TypeInv, NEW t \in Threads, Step(t)
  PROVE  /\ th[t] # Idle /\ th[t] \in Job /\ Framed(th[t])
         /\ \A s \in Threads \ {t} : Kept(s)
         /\ lost \subseteq lost'
<1>1. th[t] # Idle /\ th[t] \in Job /\ Framed(th[t])
  <2>1. \E pc \in Pcs : At(t, pc)
    BY DEF Step, ReadPaper, InsertPaper, SetPaperStatus, Rows, ReadRow, ReadRemove, Get,
       Create, ReadHashes, Judge, Consume, Put, Complete, Note, CallBbook, List, Persist,
       EraseCheck, Wipe, Purge, Pcs
  <2>2. "idle" \notin Pcs
    BY DEF Pcs
  <2> QED
    BY <2>1, <2>2, Working
<1>2. \A s \in Threads \ {t} : Kept(s)
  <2>1. ASSUME NEW s \in Threads \ {t}
        PROVE  th'[s] = th[s] \/ (Busy(s) /\ th'[s] = [th[s] EXCEPT !.fresh = FALSE])
    BY DEF Step, ReadPaper, InsertPaper, SetPaperStatus, Rows, ReadRow, ReadRemove, Get,
       Create, ReadHashes, Judge, Consume, Put, Complete, Note, CallBbook, List, Persist,
       EraseCheck, Wipe, Purge, Set, Go, Finish, Fails, Overwritten, PersistThen,
       TypeInv, TypeOK
  <2>2. ASSUME NEW s \in Threads \ {t} PROVE Kept(s)
    <3>1. CASE th'[s] = th[s]
      BY <3>1 DEF Kept, TypeInv, FramesOK, Sound
    <3>2. CASE Busy(s) /\ th'[s] = [th[s] EXCEPT !.fresh = FALSE]
      <4>1. th[s] \in Job /\ Framed(th[s]) /\ th[s] # Idle
        BY <3>2 DEF TypeInv, FramesOK, Sound, Busy
      <4>2. th'[s] # Idle /\ Sound(th'[s])
        BY <3>2, <4>1, WeakenedSound
      <4>3. th'[s] \in Job
        BY <4>2 DEF Sound
      <4> QED
        BY <3>2, <4>1, <4>2, <4>3 DEF Kept, Job
    <3> QED
      BY <2>1, <3>1, <3>2
  <2> QED
    BY <2>2
<1>3. lost \subseteq lost'
  BY DEF Step, ReadPaper, InsertPaper, SetPaperStatus, Rows, ReadRow, ReadRemove, Get,
     Create, ReadHashes, Judge, Consume, Put, Complete, Note, CallBbook, List, Persist,
     EraseCheck, Wipe, Purge, Fails, NoteLoad
<1> QED
  BY <1>1, <1>2, <1>3

LEMMA SetGives ==
  ASSUME TypeInv, NEW t \in Threads, NEW job, Set(t, job) \/ th' = Overwritten(t, job)
  PROVE  th'[t] = job
BY DEF Set, Overwritten, TypeInv, TypeOK

LEMMA FailsFrame ==
  ASSUME TypeInv, NEW t \in Threads, th[t] # Idle, th[t].pc # "persist", Fails(t)
  PROVE  /\ th'[t] # Idle =>
              Same(th[t], th'[t]) /\ th'[t].pc = "row" /\ th[t].req.op = "approve"
         /\ lost' = lost \cup {"fault"} /\ UNCHANGED <<tables, registry>>
<1>1. th[t] \in Job /\ th[t].snaps = {} /\ NoRepeats(th[t].doc)
  BY DEF TypeInv, FramesOK, Sound, Framed
<1>2. th'[t] = Rest(th[t])
  BY SetGives DEF Fails
<1> QED
  BY <1>1, <1>2, RestSound DEF Fails

\* The thread of a step that hands on a part of what it handled.
LEMMA HandledFrame ==
  ASSUME TypeInv, NEW t \in Threads, NEW job \in Job, Ready(job),
         job.req = th[t].req, job.alone = th[t].alone, Set(t, Handled(job))
  PROVE  OwnFrame(t)
<1>1. th'[t] = Handled(job) /\ (Handled(job) # Idle => Same(job, Handled(job)))
  BY SetGives, HandledSound
<1> QED
  BY <1>1 DEF OwnFrame, Same

LEMMA OnwardFrame ==
  ASSUME TypeInv, NEW t \in Threads, th[t] # Idle,
         th[t].req.op \in OpsAt("persist"),
         NEW snaps \in SUBSET [id : Ids, request : Request],
         Set(t, Onward(th[t], snaps))
  PROVE  /\ OwnFrame(t)
         /\ snaps # {} => th'[t] # Idle
         /\ th'[t] # Idle => th'[t].snaps = snaps
         /\ snaps = {} /\ th'[t] # Idle => th'[t].pc # "persist"
         /\ th'[t] # Idle /\ th[t].req.op = "paper" =>
              th'[t].held = th[t].held /\ th'[t].pc \in {"persist", "decide"}
         /\ th'[t] # Idle =>
              /\ th'[t].doc = th[t].doc
              /\ th'[t].pc \in {"persist", "bbook", "row", "decide"}
<1> DEFINE job == th[t]
           next == Onward(job, snaps)
           base == [job EXCEPT !.snaps = snaps]
<1>1. job \in Job /\ NoRepeats(job.doc) /\ (job.req.op = "paper" => job.prov = "unverified")
  BY DEF TypeInv, FramesOK, Sound, Framed, PaperFrame
<1>2. /\ base.req = job.req /\ base.alone = job.alone /\ base.snaps = snaps
      /\ base.doc = job.doc
  BY <1>1 DEF Job
<1>3. /\ snaps # {} => next # Idle
      /\ next # Idle =>
           /\ Same(base, next)
           /\ \/ next.pc = "persist" /\ next.held = job.held /\ snaps # {}
              \/ next.pc = "bbook" /\ job.req.op = "ask" /\ snaps = {}
              \/ next.pc = "row" /\ job.req.op = "approve" /\ snaps = {}
              \/ /\ next.pc = "decide" /\ job.req.op = "paper" /\ snaps = {}
                 /\ next.held = job.held
  BY <1>1, OnwardSound
<1>4. th'[t] = next
  BY SetGives
<1> HIDE DEF next, base
<1> QED
  BY <1>2, <1>3, <1>4 DEF OwnFrame, Same

\* The steps that change the registry persist what they changed, then go on.
LEMMA GoesOnward ==
  ASSUME TypeInv, NEW t \in Threads,
         Complete(t) \/ Note(t) \/ List(t) \/ Persist(t)
  PROVE  /\ th[t].pc \in {"complete", "record", "poll", "persist"}
         /\ th[t].req.op \in OpsAt("persist")
         /\ \E snaps \in SUBSET [id : Ids, request : Request] : Set(t, Onward(th[t], snaps))
<1> DEFINE job == th[t]
<1>1. job # Idle /\ job \in Job /\ Framed(job)
  BY StepMoves DEF Step
<1>2. CASE Complete(t)
  <2>1. job.pc = "complete" /\ job.req.op \in Adds
    BY <1>1, <1>2 DEF Complete, At, Framed, OpsAt
  <2>2. PICK loads \in Loads :
          /\ Settle(Pending(loads), "completed", loads)
          /\ PersistThen(t, Snapshots(Pending(loads), SetStatus(Pending(loads), "completed")))
    <3>1. AuthWeight(job.prov) > 0
      BY <1>1, JobFields, WeightIsPositive
    <3> QED
      BY <1>2, <3>1 DEF Complete
  <2>3. /\ loads \in BOOLEAN /\ Pending(loads) \in SUBSET Listed(loads)
        /\ RegistryTypeOK /\ RowsKnown /\ UNCHANGED row
    BY <1>2, LoadsAreBoolean DEF Pending, TypeInv, TypeOK, RegistryInv, Complete
  <2> DEFINE snaps == Snapshots(Pending(loads), SetStatus(Pending(loads), "completed"))
  <2>4. snaps \in SUBSET [id : Ids, request : Request]
    BY <2>2, <2>3, SettleTyped
  <2>5. Set(t, Onward(job, snaps))
    BY <2>2, PersistThenOnward
  <2> HIDE DEF snaps
  <2> QED
    BY <2>1, <2>4, <2>5 DEF OpsAt
<1>3. CASE Note(t)
  <2>1. job.pc = "record" /\ job.req.op = "ask" /\ job.req.id \in Ids
    BY <1>1, <1>3, JobFields, RequestTypes DEF Note, At, Framed, OpsAt
  <2> DEFINE snaps == {[id |-> job.req.id, request |-> Unsent]}
  <2>2. snaps \in SUBSET [id : Ids, request : Request]
    BY <2>1 DEF Unsent, Request
  <2>3. Set(t, Onward(job, snaps))
    BY <1>3, PersistThenOnward DEF Note
  <2> HIDE DEF snaps
  <2> QED
    BY <2>1, <2>2, <2>3 DEF OpsAt
<1>4. CASE List(t)
  <2>1. job.pc = "poll" /\ job.req.op = "poll"
    BY <1>1, <1>4 DEF List, At, Framed, OpsAt
  <2>2. PICK loads \in Loads :
          \E due \in SUBSET {a \in Pending(loads) : Objects[a].dated} :
            /\ Settle(due, "expired", loads)
            /\ PersistThen(t, Snapshots(due, SetStatus(due, "expired")))
    BY <1>4 DEF List
  <2>3. PICK due \in SUBSET {a \in Pending(loads) : Objects[a].dated} :
          /\ Settle(due, "expired", loads)
          /\ PersistThen(t, Snapshots(due, SetStatus(due, "expired")))
    BY <2>2
  <2>4. /\ loads \in BOOLEAN /\ due \in SUBSET Listed(loads)
        /\ RegistryTypeOK /\ RowsKnown /\ UNCHANGED row
    BY <1>4, LoadsAreBoolean DEF Pending, TypeInv, TypeOK, RegistryInv, List
  <2> DEFINE snaps == Snapshots(due, SetStatus(due, "expired"))
  <2>5. snaps \in SUBSET [id : Ids, request : Request]
    BY <2>3, <2>4, SettleTyped
  <2>6. Set(t, Onward(job, snaps))
    BY <2>3, PersistThenOnward
  <2> HIDE DEF snaps
  <2> QED
    BY <2>1, <2>5, <2>6 DEF OpsAt
<1>5. CASE Persist(t)
  <2>1. job.pc = "persist" /\ job.req.op \in OpsAt("persist")
    BY <1>1, <1>5 DEF Persist, At, Framed
  <2>2. PICK s \in job.snaps : Set(t, Onward(job, job.snaps \ {s}))
    BY <1>5, PersistCases
  <2>3. job.snaps \ {s} \in SUBSET [id : Ids, request : Request]
    BY <1>1, JobFields
  <2> QED
    BY <2>1, <2>2, <2>3
<1> QED
  BY <1>2, <1>3, <1>4, <1>5

LEMMA StepOwnFrame ==
  ASSUME TypeInv, NEW t \in Threads, Step(t)
  PROVE  OwnFrame(t)
<1> DEFINE job == th[t]
<1>1. job # Idle /\ job \in Job /\ Framed(job)
  BY StepMoves
<1>2. CASE Fails(t) /\ job.pc # "persist"
  BY <1>1, <1>2, FailsFrame DEF OwnFrame, Same
<1>3. CASE ReadPaper(t) \/ InsertPaper(t) \/ SetPaperStatus(t) \/ Rows(t) \/ ReadRemove(t)
           \/ ReadHashes(t) \/ CallBbook(t) \/ EraseCheck(t) \/ Purge(t)
  <2>1. CASE ReadPaper(t)
    BY <1>1, <2>1 DEF ReadPaper, OwnFrame, Set, Go, Finish, TypeInv, TypeOK, Job
  <2>2. CASE InsertPaper(t)
    BY <1>1, <2>2 DEF InsertPaper, OwnFrame, Set, Go, Finish, TypeInv, TypeOK, Job
  <2>3. CASE SetPaperStatus(t)
    BY <1>1, <2>3 DEF SetPaperStatus, OwnFrame, Set, Go, Finish, TypeInv, TypeOK, Job
  <2>4. CASE Rows(t)
    BY <1>1, <2>4 DEF Rows, OwnFrame, Set, Go, Finish, TypeInv, TypeOK, Job
  <2>5. CASE ReadRemove(t)
    <3>1. \/ th'[t] = Idle
          \/ \E doc : th'[t] = [job EXCEPT !.doc = doc, !.fresh = TRUE, !.pc = "put"]
      BY <1>1, <2>5 DEF ReadRemove, Set, Finish, TypeInv, TypeOK
    <3> QED
      BY <1>1, <3>1 DEF OwnFrame, Job
  <2>6. CASE ReadHashes(t)
    BY <1>1, <2>6 DEF ReadHashes, OwnFrame, Set, Go, Finish, TypeInv, TypeOK, Job
  <2>7. CASE CallBbook(t)
    <3>1. \/ th'[t] = Idle
          \/ \E snaps : th'[t] = [job EXCEPT !.snaps = snaps, !.asked = TRUE, !.pc = "persist"]
      BY <1>1, <2>7 DEF CallBbook, Set, Finish, TypeInv, TypeOK
    <3> QED
      BY <1>1, <3>1 DEF OwnFrame, Job
  <2>8. CASE EraseCheck(t)
    BY <1>1, <2>8 DEF EraseCheck, OwnFrame, Set, Go, Finish, TypeInv, TypeOK, Job
  <2>9. CASE Purge(t)
    BY <1>1, <2>9 DEF Purge, OwnFrame, Set, Go, Finish, TypeInv, TypeOK, Job
  <2> QED
    BY <1>3, <2>1, <2>2, <2>3, <2>4, <2>5, <2>6, <2>7, <2>8, <2>9
<1>4. CASE Get(t)
  <2>1. th'[t] = Gotten(job)
    BY <1>4, GetTyped, SetGives
  <2> QED
    BY <1>1, <2>1 DEF OwnFrame, Gotten, Job
<1>5. CASE ReadRow(t)
  <2>1. CASE Set(t, Rest(job))
    <3>1. job.snaps = {} /\ NoRepeats(job.doc)
      BY <1>1, <1>5 DEF Framed, ReadRow, At
    <3> QED
      BY <1>1, <2>1, <3>1, RestSound, SetGives DEF OwnFrame, Same
  <2>2. CASE ~Set(t, Rest(job))
    BY <1>1, <1>5, <2>2 DEF OwnFrame, ReadRow, TypeInv, TypeOK, Job
  <2> QED
    BY <2>1, <2>2
<1>6. CASE Create(t)
  <2>1. job.pc = "create"
    BY <1>6 DEF Create, At
  <2>2. CASE ~Fails(t)
    <3>1. th'[t] = Created(job)
      BY <1>6, <2>2, SetGives DEF Create, Created
    <3> QED
      BY <1>1, <3>1 DEF OwnFrame, Created, Job
  <2> QED
    BY <1>2, <2>1, <2>2
<1>7. CASE Judge(t)
  <2>1. job.pc = "judge" /\ job.todo # <<>> /\ job.doc.drift \in 0..2
    BY <1>1, <1>7, JobFields DEF Judge, At, Framed, Handling
  <2>2. CASE Set(t, Handled(job))
    BY <1>1, <2>1, <2>2, JudgedSound, HandledFrame
  <2>3. CASE Set(t, Handled(HeldBack(job)))
    <3>1. /\ HeldBack(job) \in Job /\ HeldBack(job).req = job.req
          /\ HeldBack(job).alone = job.alone /\ Ready(HeldBack(job))
      BY <1>1, <2>1, HeldBackFields, HeldBackSound
    <3> QED
      BY <2>3, <3>1, HandledFrame
  <2>4. ASSUME ~Known(job), NEW drift \in {0, job.doc.drift}
        PROVE  /\ Admitted(job, drift) \in Job /\ Admitted(job, drift).req = job.req
               /\ Admitted(job, drift).alone = job.alone /\ Ready(Admitted(job, drift))
    <3>1. drift \in 0..2 /\ (Keyed(job.req) => Head(job.todo) \notin job.seen)
      BY <2>1, <2>4 DEF Known
    <3> QED
      BY <1>1, <2>1, <3>1, AdmittedFields, AdmittedSound
  <2>5. ASSUME ~Known(job), NEW drift \in {0, job.doc.drift},
               Set(t, Handled(Admitted(job, drift)))
        PROVE  OwnFrame(t)
    BY <2>4, <2>5, HandledFrame
  <2>6. ASSUME ~Known(job), NEW drift \in {0, job.doc.drift},
               Set(t, [Admitted(job, drift) EXCEPT !.pc = "consume"])
        PROVE  OwnFrame(t)
    <3>1. th'[t] = [Admitted(job, drift) EXCEPT !.pc = "consume"]
      BY <2>6, SetGives
    <3> QED
      BY <2>4, <2>6, <3>1 DEF OwnFrame, Job
  <2> QED
    BY <1>7, <2>2, <2>3, <2>5, <2>6, JudgeCases
<1>8. CASE Consume(t)
  <2>1. job.pc = "consume" /\ Len(job.doc.samples) > 0
    BY <1>1, <1>8 DEF Consume, At, Framed, Spending
  <2>2. CASE ~Fails(t)
    <3> DEFINE replayed == TokenOf(job.req) \in used
               base == IF replayed THEN Demoted(job) ELSE job
    <3>1. replayed \in BOOLEAN /\ Set(t, Spent(job, replayed))
      BY <1>8, <2>2 DEF Consume
    <3> HIDE DEF replayed
    <3>2. Ready(job) /\ Ready(Demoted(job)) /\ Spent(job, replayed) = Handled(base)
      BY <1>1, <2>1, <3>1, SpentSound
    <3>3. base \in Job /\ base.req = job.req /\ base.alone = job.alone /\ Ready(base)
      BY <1>1, <2>1, <3>2, DemotedFields
    <3> HIDE DEF base
    <3> QED
      BY <3>1, <3>2, <3>3, HandledFrame
  <2> QED
    BY <1>2, <2>1, <2>2
<1>9. CASE Put(t)
  <2>1. job.pc = "put"
    BY <1>9 DEF Put, At
  <2>2. CASE th' = Overwritten(t, AfterPut(job))
    BY <1>1, <2>1, <2>2, AfterPutSound, SetGives DEF OwnFrame
  <2> QED
    BY <1>2, <1>9, <2>1, <2>2, PutCases
<1>10. CASE Complete(t) \/ Note(t) \/ List(t) \/ Persist(t)
  BY <1>1, <1>10, GoesOnward, OnwardFrame
<1>11. CASE Wipe(t)
  <2>1. job.pc = "wipe"
    BY <1>11 DEF Wipe, At
  <2>2. CASE ~Fails(t)
    <3>1. th'[t] = [job EXCEPT !.pc = "purge"]
      BY <1>11, <2>2, SetGives DEF Wipe
    <3> QED
      BY <1>1, <3>1 DEF OwnFrame, Job
  <2> QED
    BY <1>2, <2>1, <2>2
<1> QED
  BY <1>3, <1>4, <1>5, <1>6, <1>7, <1>8, <1>9, <1>10, <1>11 DEF Step

-----------------------------------------------------------------------------
(* Erasure.                                                                 *)

LEMMA StepErases ==
  ASSUME TypeInv, EraseInv, NEW t \in Threads, Step(t)
  PROVE  EraseInv'
<1>1. /\ th[t] # Idle /\ th[t] \in Job /\ Framed(th[t]) /\ lost \subseteq lost'
      /\ \A s \in Threads \ {t} : Kept(s)
  BY StepMoves
<1>2. TypeInv' /\ OwnFrame(t)
  BY StepTyped, StepOwnFrame
<1>3. ~clean
  BY <1>1 DEF EraseInv, Busy
<1>4. ASSUME NEW s \in Threads \ {t}, th'[s] # Idle
      PROVE  ~th'[s].alone /\ (th'[s].pc = "purge" => "erased" \in lost')
  <2>1. th[s] # Idle /\ th'[s].pc = th[s].pc /\ (th'[s].alone => th[s].alone)
    BY <1>1, <1>4 DEF Kept
  <2>2. ~th[s].alone
    BY <1>1, <2>1 DEF EraseInv, Busy
  <2>3. th[s].pc = "purge" => "erased" \in lost
    BY <2>1 DEF EraseInv, Busy
  <2> QED
    BY <1>1, <2>1, <2>2, <2>3
<1>5. ASSUME th[t].alone
      PROVE  \A s \in Threads \ {t} : th'[s] = Idle
  BY <1>1, <1>5 DEF EraseInv, Busy, Kept
<1>6. ASSUME th'[t] # Idle, th'[t].pc = "purge"
      PROVE  "erased" \in lost' /\ Erased'
  <2>1. th'[t].req.op = "erase" /\ th[t].req.op = "erase"
    BY <1>2, <1>6 DEF OwnFrame, TypeInv, FramesOK, Sound, Framed, OpsAt
  <2>2. th[t].pc \in {"check", "wipe", "purge"}
    BY <1>1, <2>1 DEF Framed, OpsAt, Job, Pcs, Adds
  <2>3. EraseCheck(t) \/ Wipe(t) \/ Purge(t)
    BY <2>2 DEF Step, At, ReadPaper, InsertPaper, SetPaperStatus, Rows, ReadRow, ReadRemove,
       Get, Create, ReadHashes, Judge, Consume, Put, Complete, Note, CallBbook, List, Persist
  <2>4. CASE EraseCheck(t)
    <3>1. th'[t] = Idle \/ th'[t] = [th[t] EXCEPT !.pc = "wipe"]
      BY <2>4, SetGives DEF EraseCheck, Finish, Go
    <3> QED
      BY <1>1, <1>6, <3>1 DEF Job
  <2>5. CASE Wipe(t)
    <3>1. CASE Fails(t)
      BY <1>1, <1>6, <2>5, <3>1, FailsFrame DEF Wipe, At
    <3>2. CASE ~Fails(t)
      BY <2>5, <3>2 DEF Wipe, Erased
    <3> QED
      BY <3>1, <3>2
  <2>6. CASE Purge(t)
    BY <1>6, <2>6, SetGives DEF Purge, Finish
  <2> QED
    BY <2>3, <2>4, <2>5, <2>6
<1>7. ASSUME NEW s \in Threads, th'[s] # Idle
      PROVE  /\ th'[s].alone => \A u \in Threads \ {s} : th'[u] = Idle
             /\ th'[s].pc = "purge" => "erased" \in lost'
             /\ th'[s].pc = "purge" /\ th'[s].alone => Erased'
  <2>1. CASE s = t
    BY <1>2, <1>5, <1>6, <1>7, <2>1 DEF OwnFrame
  <2>2. CASE s # t
    BY <1>4, <1>7, <2>2
  <2> QED
    BY <2>1, <2>2
<1>8. ASSUME clean'
      PROVE  Erased' /\ listed' = {} /\ \A s \in Threads : th'[s] = Idle
  <2>1. Purge(t)
    BY <1>3, <1>8 DEF Step, ReadPaper, InsertPaper, SetPaperStatus, Rows, ReadRow, ReadRemove,
       Get, Create, ReadHashes, Judge, Consume, Put, Complete, Note, CallBbook, List, Persist,
       EraseCheck, Wipe
  <2>2. th[t].alone /\ th[t].pc = "purge"
    BY <1>8, <2>1 DEF Purge, At
  <2>3. Erased
    BY <1>1, <2>2 DEF EraseInv, Busy
  <2>4. listed' = {} /\ UNCHANGED <<tables, row>> /\ th'[t] = Idle
    BY <2>1, SetGives DEF Purge, PurgeStudent, SetCache, Finish
  <2> QED
    BY <1>5, <2>2, <2>3, <2>4 DEF Erased, tables
<1> QED
  BY <1>7, <1>8 DEF EraseInv, Busy

\* What erasure maintains.
LEMMA EraseInvHolds == Spec => []EraseInv
<1>1. Init => EraseInv
  BY DEF Init, EraseInv, Busy
<1>2. TypeInv /\ EraseInv /\ [Next]_vars => EraseInv'
  <2> SUFFICES ASSUME TypeInv, EraseInv, [Next]_vars PROVE EraseInv'
    OBVIOUS
  <2>1. CASE UNCHANGED vars
    BY <2>1 DEF vars, tables, registry, EraseInv, Erased, Busy
  <2>2. ASSUME NEW t \in Threads, Begin(t) PROVE EraseInv'
    <3>1. PICK r \in Calls : th' = Joined(t, NewJob(r))
      BY <2>2 DEF Begin, NewJob, Joined
    <3>2. /\ NewJob(r) \in Job /\ Framed(NewJob(r)) /\ NewJob(r).pc # "purge"
          /\ NewJob(r).alone = (\A s \in Threads : ~Busy(s)) /\ NewJob(r) # Idle
      BY NewJobSound, RequestTypes DEF FirstPc
    <3>3. th'[t] = NewJob(r) /\ \A s \in Threads \ {t} : Kept(s)
      BY <3>1, <3>2, Moves DEF TypeInv, TypeOK, Sound
    <3>4. ASSUME NEW s \in Threads \ {t}, th'[s] # Idle
          PROVE  /\ ~th'[s].alone /\ th[s] # Idle
                 /\ th'[s].pc = "purge" => "erased" \in lost
      <4>1. th[s] # Idle /\ th'[s].pc = th[s].pc
        BY <3>3, <3>4 DEF Kept
      <4>2. th[s] \in Job /\ th'[s] = [th[s] EXCEPT !.alone = FALSE]
        BY <3>1, <4>1 DEF Joined, Busy, TypeInv, TypeOK
      <4> QED
        BY <4>1, <4>2 DEF Job, EraseInv, Busy
    <3>5. NewJob(r).alone => \A s \in Threads \ {t} : th'[s] = Idle
      BY <3>2, <3>3 DEF Kept, Busy
    <3>6. UNCHANGED lost /\ clean' = FALSE
      BY <2>2 DEF Begin
    <3>7. ASSUME NEW s \in Threads, th'[s] # Idle
          PROVE  /\ th'[s].alone => \A u \in Threads \ {s} : th'[u] = Idle
                 /\ th'[s].pc = "purge" => "erased" \in lost' /\ ~th'[s].alone
      BY <3>2, <3>3, <3>4, <3>5, <3>6, <3>7
    <3> QED
      BY <3>6, <3>7 DEF EraseInv, Busy
  <2>3. ASSUME NEW t \in Threads, Step(t) PROVE EraseInv'
    BY <2>3, StepErases
  <2>4. CASE Crash
    BY <2>4 DEF Crash, EraseInv, Busy
  <2> QED
    BY <2>1, <2>2, <2>3, <2>4 DEF Next
<1> QED
  BY <1>1, <1>2, TypesHold, PTL DEF Spec

\* The erasure of a student that no request overlapped leaves nothing of them
\* in the tables or in memory: wipe and purge are two steps, and the handler
\* that stays alone between them finds everything as the wipe left it.
THEOREM ErasureIsComplete == Spec => []ErasedLeavesNothing
<1>1. EraseInv => ErasedLeavesNothing
  BY DEF EraseInv, ErasedLeavesNothing, Erased
<1> QED
  BY <1>1, EraseInvHolds, PTL

-----------------------------------------------------------------------------
(* The table of requests.                                                   *)

\* What may keep the table from following the cache.
Unreliable == {"crossed", "fault", "erased"}

\* The requests in ids are covered by the snapshots of the thread; the others
\* are as they were, or in the table.
LEMMA TableStep ==
  ASSUME TypeInv, TableInv, NEW t \in Threads, th[t] # Idle => th[t].pc # "persist",
         \A s \in Threads \ {t} : Kept(s), lost \subseteq lost', NEW ids,
         \A a \in ids : th'[t] # Idle /\ [id |-> a, request |-> obj'[a]] \in th'[t].snaps,
         lost' \cap Unreliable = {} =>
           \A a \in Ids \ ids :
             \/ row'[a] = IF a \in listed' THEN obj'[a] ELSE None
             \/ /\ hydrated /\ obj'[a] = obj[a] /\ row'[a] = row[a]
                /\ a \in listed' <=> a \in listed
  PROVE  TableInv'
<1> SUFFICES ASSUME hydrated', lost' \cap Unreliable = {}, NEW a \in Ids
             PROVE  \/ row'[a] = IF a \in listed' THEN obj'[a] ELSE None
                    \/ \E s \in Threads :
                         th'[s] # Idle /\ [id |-> a, request |-> obj'[a]] \in th'[s].snaps
  BY DEF TableInv, InTable, Busy, Unreliable
<1>1. CASE a \in ids
  BY <1>1
<1>2. CASE /\ hydrated /\ obj'[a] = obj[a] /\ row'[a] = row[a]
           /\ a \in listed' <=> a \in listed
  <2>1. \/ InTable(a)
        \/ \E s \in Threads : th[s] # Idle /\ [id |-> a, request |-> obj[a]] \in th[s].snaps
    BY <1>2 DEF TableInv, Busy, Unreliable
  <2>2. CASE InTable(a)
    BY <1>2, <2>2 DEF InTable
  <2>3. ASSUME NEW s \in Threads, th[s] # Idle, [id |-> a, request |-> obj[a]] \in th[s].snaps
        PROVE  th'[s] # Idle /\ [id |-> a, request |-> obj'[a]] \in th'[s].snaps
    <3>1. s # t
      BY <2>3 DEF TypeInv, FramesOK, Sound, Framed
    <3> QED
      BY <1>2, <2>3, <3>1 DEF Kept
  <2> QED
    BY <2>1, <2>2, <2>3
<1> QED
  BY <1>1, <1>2

\* A first load finds the table; later the cache is what it was.
LEMMA LoadedAgrees ==
  ASSUME TypeInv, NEW loads \in Loads, ~loads => "fault" \in lost',
         lost' \cap Unreliable = {}, NEW a \in Ids
  PROVE  \/ row[a] = IF a \in Listed(loads) THEN Objects[a] ELSE None
         \/ /\ hydrated /\ Objects[a] = obj[a]
            /\ a \in Listed(loads) <=> a \in listed
<1>1. loads
  BY LoadsAreBoolean DEF Unreliable
<1>2. CASE hydrated
  BY <1>2 DEF Objects, Listed
<1>3. CASE ~hydrated
  BY <1>1, <1>3 DEF Objects, Listed
<1> QED
  BY <1>2, <1>3

LEMMA TableSettle ==
  ASSUME TypeInv, TableInv, NEW t \in Threads, th[t].pc # "persist",
         \A s \in Threads \ {t} : Kept(s), lost \subseteq lost',
         NEW loads \in Loads, ~loads => "fault" \in lost',
         NEW ids \in SUBSET Listed(loads),
         NEW status \in {"completed", "expired", "failed"},
         Settle(ids, status, loads), UNCHANGED row,
         LET snaps == Snapshots(ids, SetStatus(ids, status))
         IN snaps # {} => th'[t] # Idle /\ th'[t].snaps = snaps
  PROVE  TableInv'
<1> DEFINE snaps == Snapshots(ids, SetStatus(ids, status))
<1>1. RegistryTypeOK /\ RowsKnown /\ loads \in BOOLEAN
  BY LoadsAreBoolean DEF TypeInv, TypeOK, RegistryInv
<1>2. /\ listed' = Listed(loads) /\ obj' = SetStatus(ids, status)
      /\ \A a \in Ids \ ids : obj'[a] = Objects[a]
  BY <1>1, SettleTyped
<1>3. \A a \in ids : [id |-> a, request |-> obj'[a]] \in snaps
  BY <1>2 DEF Snapshots
<1>4. \A a \in ids : th'[t] # Idle /\ [id |-> a, request |-> obj'[a]] \in th'[t].snaps
  BY <1>3
<1>5. ASSUME lost' \cap Unreliable = {}, NEW a \in Ids \ ids
      PROVE  \/ row'[a] = IF a \in listed' THEN obj'[a] ELSE None
             \/ /\ hydrated /\ obj'[a] = obj[a] /\ row'[a] = row[a]
                /\ a \in listed' <=> a \in listed
  BY <1>2, <1>5, LoadedAgrees
<1> QED
  BY <1>4, <1>5, TableStep

\* The same for one request that is recorded.
LEMMA TableRecord ==
  ASSUME TypeInv, TableInv, NEW t \in Threads, th[t].pc # "persist",
         \A s \in Threads \ {t} : Kept(s), lost \subseteq lost',
         NEW loads \in Loads, ~loads => "fault" \in lost',
         NEW b \in Ids, NEW r \in Request, UNCHANGED row,
         listed' = Listed(loads) \cup {b}, obj'[b] = r,
         \A a \in Ids : a # b => obj'[a] = Objects[a],
         th'[t] # Idle, th'[t].snaps = {[id |-> b, request |-> r]}
  PROVE  TableInv'
<1> DEFINE ids == {b}
<1>1. \A a \in ids : th'[t] # Idle /\ [id |-> a, request |-> obj'[a]] \in th'[t].snaps
  OBVIOUS
<1>2. ASSUME lost' \cap Unreliable = {}, NEW a \in Ids \ ids
      PROVE  \/ row'[a] = IF a \in listed' THEN obj'[a] ELSE None
             \/ /\ hydrated /\ obj'[a] = obj[a] /\ row'[a] = row[a]
                /\ a \in listed' <=> a \in listed
  BY <1>2, LoadedAgrees
<1> HIDE DEF ids
<1> QED
  BY <1>1, <1>2, TableStep

LEMMA PersistTables ==
  ASSUME TypeInv, TableInv, NEW t \in Threads, Persist(t)
  PROVE  TableInv'
<1> DEFINE job == th[t]
<1>1. /\ job # Idle /\ job \in Job /\ Framed(job) /\ lost \subseteq lost'
      /\ \A s \in Threads \ {t} : Kept(s)
  BY StepMoves DEF Step
<1>2. PICK s \in job.snaps :
           /\ Set(t, Onward(job, job.snaps \ {s}))
           /\ \/ row' = [row EXCEPT ![s.id] = s.request]
                 /\ lost' = IF s.id \notin listed \/ obj[s.id] # s.request
                            THEN lost \cup {"crossed"} ELSE lost
              \/ StoreFaults /\ lost' = lost \cup {"fault"} /\ UNCHANGED row
  BY PersistCases
<1>3. UNCHANGED <<listed, obj, hydrated>> /\ job.pc = "persist"
  BY DEF Persist, At
<1>4. /\ s \in [id : Ids, request : Request]
      /\ job.snaps \ {s} \in SUBSET [id : Ids, request : Request]
      /\ job.req.op \in OpsAt("persist")
  BY <1>1, <1>3, JobFields DEF Framed
<1>5. /\ job.snaps \ {s} # {} => th'[t] # Idle
      /\ th'[t] # Idle => th'[t].snaps = job.snaps \ {s}
  BY <1>1, <1>2, <1>4, OnwardFrame
<1> SUFFICES ASSUME hydrated', lost' \cap Unreliable = {}, NEW a \in Ids
             PROVE  \/ row'[a] = IF a \in listed' THEN obj'[a] ELSE None
                    \/ \E u \in Threads :
                         th'[u] # Idle /\ [id |-> a, request |-> obj'[a]] \in th'[u].snaps
  BY DEF TableInv, InTable, Busy, Unreliable
<1>6. /\ s.id \in listed /\ obj[s.id] = s.request
      /\ row' = [row EXCEPT ![s.id] = s.request]
  BY <1>2 DEF Unreliable
<1>7. row \in [Ids -> Request \cup {None}]
  BY DEF TypeInv, TypeOK, RegistryTypeOK
<1>8. CASE a = s.id
  BY <1>3, <1>4, <1>6, <1>7, <1>8
<1>9. CASE a # s.id
  <2>1. row'[a] = row[a]
    BY <1>6, <1>7, <1>9
  <2>2. \/ InTable(a)
        \/ \E u \in Threads : th[u] # Idle /\ [id |-> a, request |-> obj[a]] \in th[u].snaps
    BY <1>1, <1>3 DEF TableInv, Busy, Unreliable
  <2>3. CASE InTable(a)
    BY <1>3, <2>1, <2>3 DEF InTable
  <2>4. ASSUME NEW u \in Threads, th[u] # Idle, [id |-> a, request |-> obj[a]] \in th[u].snaps
        PROVE  th'[u] # Idle /\ [id |-> a, request |-> obj'[a]] \in th'[u].snaps
    <3>1. CASE u = t
      <4>1. [id |-> a, request |-> obj[a]] \in job.snaps \ {s}
        BY <1>9, <2>4, <3>1
      <4> QED
        BY <1>3, <1>5, <3>1, <4>1
    <3>2. CASE u # t
      BY <1>1, <1>3, <2>4, <3>2 DEF Kept
    <3> QED
      BY <3>1, <3>2
  <2> QED
    BY <2>2, <2>3, <2>4
<1> QED
  BY <1>8, <1>9

LEMMA TableUnchanged ==
  ASSUME TypeInv, TableInv, NEW t \in Threads, th[t] # Idle => th[t].pc # "persist",
         \A s \in Threads \ {t} : Kept(s), lost \subseteq lost', UNCHANGED registry
  PROVE  TableInv'
<1> DEFINE ids == {}
<1>1. CASE hydrated
  <2>1. \A a \in Ids \ ids : /\ hydrated /\ obj'[a] = obj[a] /\ row'[a] = row[a]
                             /\ a \in listed' <=> a \in listed
    BY <1>1 DEF registry
  <2>2. \A a \in ids : th'[t] # Idle /\ [id |-> a, request |-> obj'[a]] \in th'[t].snaps
    OBVIOUS
  <2> HIDE DEF ids
  <2> QED
    BY <2>1, <2>2, TableStep
<1>2. CASE ~hydrated
  BY <1>2 DEF TableInv, registry
<1> QED
  BY <1>1, <1>2

LEMMA StepTables ==
  ASSUME TypeInv, EraseInv, TableInv, NEW t \in Threads, Step(t)
  PROVE  TableInv'
<1> DEFINE job == th[t]
           a == job.req.id
<1>1. /\ job # Idle /\ job \in Job /\ Framed(job) /\ lost \subseteq lost'
      /\ \A s \in Threads \ {t} : Kept(s)
  BY StepMoves
<1>2. CASE Persist(t)
  BY <1>2, PersistTables
<1>3. CASE Complete(t)
  <2>1. job.pc = "complete" /\ job.req.op \in OpsAt("persist") /\ UNCHANGED row
    BY <1>1, <1>3 DEF Complete, At, Framed, OpsAt
  <2>2. PICK loads \in Loads :
          /\ Settle(Pending(loads), "completed", loads) /\ NoteLoad(loads)
          /\ PersistThen(t, Snapshots(Pending(loads), SetStatus(Pending(loads), "completed")))
    <3>1. AuthWeight(job.prov) > 0
      BY <1>1, JobFields, WeightIsPositive
    <3> QED
      BY <1>3, <3>1 DEF Complete
  <2>3. /\ loads \in BOOLEAN /\ Pending(loads) \in SUBSET Listed(loads)
        /\ RegistryTypeOK /\ RowsKnown
    BY LoadsAreBoolean DEF Pending, TypeInv, TypeOK, RegistryInv
  <2> DEFINE snaps == Snapshots(Pending(loads), SetStatus(Pending(loads), "completed"))
  <2>4. snaps \in SUBSET [id : Ids, request : Request]
    BY <2>1, <2>2, <2>3, SettleTyped
  <2>5. Set(t, Onward(job, snaps))
    BY <2>2, PersistThenOnward
  <2> HIDE DEF snaps
  <2>6. snaps # {} => th'[t] # Idle /\ th'[t].snaps = snaps
    BY <1>1, <2>1, <2>4, <2>5, OnwardFrame
  <2>7. ~loads => "fault" \in lost'
    BY <2>2 DEF NoteLoad
  <2> QED
    BY <1>1, <2>1, <2>2, <2>3, <2>6, <2>7, TableSettle DEF snaps
<1>4. CASE List(t)
  <2>1. job.pc = "poll" /\ job.req.op \in OpsAt("persist") /\ UNCHANGED row
    BY <1>1, <1>4 DEF List, At, Framed, OpsAt
  <2>2. PICK loads \in Loads :
          \E due \in SUBSET {b \in Pending(loads) : Objects[b].dated} :
            /\ Settle(due, "expired", loads) /\ NoteLoad(loads)
            /\ PersistThen(t, Snapshots(due, SetStatus(due, "expired")))
    BY <1>4 DEF List
  <2>3. PICK due \in SUBSET {b \in Pending(loads) : Objects[b].dated} :
          /\ Settle(due, "expired", loads) /\ NoteLoad(loads)
          /\ PersistThen(t, Snapshots(due, SetStatus(due, "expired")))
    BY <2>2
  <2>4. /\ loads \in BOOLEAN /\ due \in SUBSET Listed(loads)
        /\ RegistryTypeOK /\ RowsKnown
    BY LoadsAreBoolean DEF Pending, TypeInv, TypeOK, RegistryInv
  <2> DEFINE snaps == Snapshots(due, SetStatus(due, "expired"))
  <2>5. snaps \in SUBSET [id : Ids, request : Request]
    BY <2>1, <2>3, <2>4, SettleTyped
  <2>6. Set(t, Onward(job, snaps))
    BY <2>3, PersistThenOnward
  <2> HIDE DEF snaps
  <2>7. snaps # {} => th'[t] # Idle /\ th'[t].snaps = snaps
    BY <1>1, <2>1, <2>5, <2>6, OnwardFrame
  <2>8. ~loads => "fault" \in lost'
    BY <2>3 DEF NoteLoad
  <2> QED
    BY <1>1, <2>1, <2>3, <2>4, <2>7, <2>8, TableSettle DEF snaps
<1>5. CASE Note(t)
  <2>1. /\ job.pc = "record" /\ job.req.op \in OpsAt("persist") /\ UNCHANGED row
        /\ a \in Ids
    BY <1>1, <1>5, JobFields, RequestTypes DEF Note, At, Framed, OpsAt
  <2> DEFINE snaps == {[id |-> a, request |-> Unsent]}
  <2>2. PICK loads \in Loads :
          Record(a, Unsent, loads) /\ NoteLoad(loads) /\ PersistThen(t, snaps)
    BY <1>5 DEF Note
  <2>3. /\ loads \in BOOLEAN /\ RegistryTypeOK /\ RowsKnown /\ Unsent \in Request
    BY LoadsAreBoolean DEF TypeInv, TypeOK, RegistryInv, Unsent, Request
  <2>4. snaps \in SUBSET [id : Ids, request : Request] /\ snaps # {}
    BY <2>1, <2>3
  <2> HIDE DEF a, snaps
  <2>5. /\ listed' = Listed(loads) \cup {a} /\ obj'[a] = Unsent
        /\ \A b \in Ids : b # a => obj'[b] = Objects[b]
    <3>1. listed' = Listed(loads) \cup {a} /\ obj' = [Objects EXCEPT ![a] = Unsent]
      BY <2>2 DEF Record, SetCache
    <3>2. Objects \in [Ids -> Request \cup {None}]
      BY <2>3, ObjectsKnown
    <3> QED
      BY <2>1, <3>1, <3>2
  <2>6. ~loads => "fault" \in lost'
    BY <2>2 DEF NoteLoad
  <2>7. Set(t, Onward(job, snaps))
    BY <2>2, PersistThenOnward
  <2>8. th'[t] # Idle /\ th'[t].snaps = snaps
    BY <1>1, <2>1, <2>4, <2>7, OnwardFrame
  <2> QED
    BY <1>1, <2>1, <2>3, <2>5, <2>6, <2>8, TableRecord DEF snaps
<1>6. CASE CallBbook(t)
  <2>1. /\ job.pc = "bbook" /\ UNCHANGED row /\ a \in Ids
    BY <1>1, <1>6, JobFields, RequestTypes DEF CallBbook, At, Framed, OpsAt
  <2>2. hydrated /\ obj[a] # None
    BY <1>1, <2>1 DEF TypeInv, RegistryInv, Busy, Framed, OpsAt
  <2>3. /\ RegistryTypeOK /\ RowsKnown /\ obj[a] \in Request /\ TRUE \in Loads
    BY <2>1, <2>2 DEF TypeInv, TypeOK, RegistryInv, RegistryTypeOK, Loads
  <2> DEFINE known == {a} \cap listed
             failed == Snapshots(known, SetStatus(known, "failed"))
  <2>4. ASSUME NEW dated \in BOOLEAN, NEW r, r = [obj[a] EXCEPT !.link = TRUE, !.dated = dated],
               Record(a, r, TRUE),
               th' = [th EXCEPT ![t].snaps = {[id |-> a, request |-> r]},
                                ![t].asked = TRUE, ![t].pc = "persist"]
        PROVE  TableInv'
    <3>1. r \in Request
      BY <2>3, <2>4 DEF Request
    <3> DEFINE next == [job EXCEPT !.snaps = {[id |-> a, request |-> r]},
                                   !.asked = TRUE, !.pc = "persist"]
    <3>2. th'[t] = next
      BY <2>4 DEF TypeInv, TypeOK
    <3>3. next.snaps = {[id |-> a, request |-> r]} /\ next.pc = "persist"
      BY <1>1 DEF Job
    <3> HIDE DEF next
    <3>4. th'[t] # Idle /\ th'[t].snaps = {[id |-> a, request |-> r]}
      BY <3>2, <3>3 DEF Idle
    <3> HIDE DEF a
    <3>5. /\ listed' = Listed(TRUE) \cup {a} /\ obj'[a] = r
          /\ \A b \in Ids : b # a => obj'[b] = Objects[b]
      BY <2>1, <2>3, <2>4, <3>1, RecordTyped
    <3> QED
      BY <1>1, <2>1, <2>3, <3>1, <3>4, <3>5, TableRecord
  <2>5. ASSUME Settle(known, "failed", TRUE),
               IF known = {} THEN Finish(t)
               ELSE th' = [th EXCEPT ![t].snaps = failed, ![t].asked = TRUE,
                                     ![t].pc = "persist"]
        PROVE  TableInv'
    <3>1. known \in SUBSET Listed(TRUE)
      BY <2>2 DEF Listed
    <3>2. known = {} => failed = {}
      BY DEF Snapshots
    <3> HIDE DEF failed
    <3> DEFINE next == [job EXCEPT !.snaps = failed, !.asked = TRUE, !.pc = "persist"]
    <3>3. known # {} => th'[t] = next
      BY <2>5 DEF TypeInv, TypeOK
    <3>4. next.snaps = failed /\ next.pc = "persist"
      BY <1>1 DEF Job
    <3> HIDE DEF known, next
    <3>5. failed # {} => th'[t] # Idle /\ th'[t].snaps = failed
      BY <3>2, <3>3, <3>4 DEF Idle
    <3> QED
      BY <1>1, <2>1, <2>3, <2>5, <3>1, <3>5, TableSettle DEF failed
  <2> QED
    BY <1>6, <2>4, <2>5 DEF CallBbook
<1>7. CASE Purge(t)
  <2>1. job.pc = "purge"
    BY <1>7 DEF Purge, At
  <2>2. "erased" \in lost
    BY <1>1, <2>1 DEF EraseInv, Busy
  <2> QED
    BY <1>1, <2>2 DEF TableInv
<1>8. CASE Wipe(t)
  <2>1. CASE Fails(t)
    BY <1>1, <1>8, <2>1, TableUnchanged DEF Wipe, At, Fails
  <2>2. CASE ~Fails(t)
    <3>1. "erased" \in lost'
      BY <1>8, <2>2 DEF Wipe
    <3> QED
      BY <3>1 DEF TableInv
  <2> QED
    BY <2>1, <2>2
<1>9. CASE ReadPaper(t) \/ InsertPaper(t) \/ SetPaperStatus(t) \/ Rows(t) \/ ReadRow(t)
           \/ ReadRemove(t) \/ Get(t) \/ Create(t) \/ ReadHashes(t) \/ Judge(t)
           \/ Consume(t) \/ Put(t) \/ EraseCheck(t)
  <2>1. UNCHANGED registry /\ job.pc # "persist"
    BY <1>9 DEF At, Fails, ReadPaper, InsertPaper, SetPaperStatus, Rows, ReadRow,
       ReadRemove, Get, Create, ReadHashes, Judge, Consume, Put, EraseCheck
  <2> QED
    BY <1>1, <2>1, TableUnchanged
<1> QED
  BY <1>2, <1>3, <1>4, <1>5, <1>6, <1>7, <1>8, <1>9 DEF Step

\* Between requests the table holds what the cache lists: every handler that
\* changed an object still owes the snapshot of it, whatever others did.
THEOREM CacheWrittenThrough == Spec => []TableFollowsCache
<1>1. Init => TableInv
  BY DEF Init, RegistryInit, TableInv
<1>2. TypeInv /\ EraseInv /\ TableInv /\ [Next]_vars => TableInv'
  <2> SUFFICES ASSUME TypeInv, EraseInv, TableInv, [Next]_vars PROVE TableInv'
    OBVIOUS
  <2>1. CASE UNCHANGED vars
    BY <2>1 DEF vars, registry, TableInv, InTable, Busy
  <2>2. ASSUME NEW t \in Threads, Begin(t) PROVE TableInv'
    <3>1. PICK r \in Calls : th' = Joined(t, NewJob(r))
      BY <2>2 DEF Begin, NewJob, Joined
    <3>2. Sound(NewJob(r))
      BY NewJobSound DEF Sound
    <3>3. \A s \in Threads \ {t} : Kept(s)
      BY <3>1, <3>2, Moves DEF TypeInv, TypeOK
    <3>4. th[t] = Idle /\ UNCHANGED registry /\ UNCHANGED lost
      BY <2>2 DEF Begin, Busy
    <3> QED
      BY <3>3, <3>4, TableUnchanged
  <2>3. ASSUME NEW t \in Threads, Step(t) PROVE TableInv'
    BY <2>3, StepTables
  <2>4. CASE Crash
    BY <2>4 DEF Crash, ForgetCache, TableInv
  <2> QED
    BY <2>1, <2>2, <2>3, <2>4 DEF Next
<1>3. TableInv => TableFollowsCache
  BY DEF TableInv, TableFollowsCache, InTable
<1> QED
  BY <1>1, <1>2, <1>3, TypesHold, EraseInvHolds, PTL DEF Spec
============================================================================
