----------------------------- MODULE Booklet -----------------------------
(***************************************************************************)
(* The exam booklet in the student's browser (demo/bluebook/Exam.jsx): the *)
(* pages on which one student writes one stored exam, the draft that each  *)
(* browser keeps, the copy that the server keeps, and the seal with its    *)
(* retries over a network that loses and delays.  The server is what       *)
(* SittingPromise says of it: the first seal of a student is recorded, a   *)
(* repeat of it is confirmed, any other is refused.                        *)
(***************************************************************************)
EXTENDS Naturals

CONSTANTS
  None,
  Pages, Browsers,
  Attempts,       \* BB_SEAL_BACKOFF.length + 1
  Scenarios,      \* the browser of each page, and the bounds of a history
  Bound           \* bound: the highest of those

\* texts: how often the student writes something; seals: how often they
\* confirm; time: writings and pushes; faults: what goes wrong (Fault).
Scenario == [home : UNION {[P -> Browsers] : P \in SUBSET Pages},
             texts : 0..Bound, seals : 0..Bound, time : 0..Bound, faults : 0..Bound]

ASSUME BoundAssumption == Attempts \in Nat \ {0} /\ Bound \in Nat
ASSUME ScenarioAssumption == Scenarios \subseteq Scenario

VARIABLES
  scenario,
  page,       \* [Pages -> page or Closed]
  draft,      \* localStorage: [Browsers -> draft or Nothing]
  record,     \* the submission that the server holds, or None
  copy,       \* the draft that the server holds, or None
  late,           \* seals that may still reach the server
  online,
  count,      \* texts written, seals confirmed, time, faults
  kept,       \* [Browsers -> what the student last wrote or confirmed there]
  sent,       \* every seal ever sent
  lost        \* what has happened that excuses a property

server == <<record, copy>>
vars == <<scenario, page, draft, server, late, online, count, kept, sent, lost>>

\* A text is known by when it was written (0: nothing written yet), a seal by
\* its uuid (0: the answers are not final).
Texts == 0..Bound
Seals == 0..Bound
Writing == [text : Texts, seal : Seals]
ASSUME NoneAssumption == None \notin Writing

Nothing == [text |-> 0, seal |-> 0]
Draft == [text : Texts, seal : Seals, at : 0..Bound]
NoDraft == [text |-> 0, seal |-> 0, at |-> 0]

Counts == [texts : Texts, seals : Seals, now : 0..Bound, faults : 0..Bound]

Closed == [phase |-> "closed"]

\* tries: attempts of this seal that failed; typed: since the page opened;
\* pushed: the text last sent to the server; asking, starting: the answer to
\* its request for the server's draft, or for its sitting, is still to come.
Page == [phase : {"writing", "shut", "sealing", "sent"}, text : Texts, seal : Seals,
         tries : 0..(Attempts - 1), typed : BOOLEAN, pushed : Texts,
         asking : BOOLEAN, starting : BOOLEAN]

Home(p) == scenario.home[p]
IsOpen(p) == page[p] # Closed
In(p, phase) == page[p].phase = phase
Written(p) == [text |-> page[p].text, seal |-> page[p].seal]

TypeOK ==
  /\ scenario \in Scenarios
  /\ page \in [Pages -> Page \cup {Closed}]
  /\ draft \in [Browsers -> Draft]
  /\ record \in Writing \cup {None}
  /\ copy \in [text : Texts, at : 0..Bound] \cup {None}
  /\ late \subseteq Writing /\ sent \subseteq Writing
  /\ online \in BOOLEAN
  /\ count \in Counts
  /\ kept \in [Browsers -> Writing]
  /\ lost \subseteq {"storage", "other tab", "resumed"}

Init ==
  /\ scenario \in Scenarios
  /\ page = [p \in Pages |-> Closed]
  /\ draft = [b \in Browsers |-> NoDraft]
  /\ record = None /\ copy = None
  /\ late = {}
  /\ online = TRUE
  /\ count = [texts |-> 0, seals |-> 0, now |-> 0, faults |-> 0]
  /\ kept = [b \in Browsers |-> Nothing]
  /\ sent = {} /\ lost = {}

Turn(p, pg) == page' = [page EXCEPT ![p] = pg]
MayFault == count.faults < scenario.faults
Faulted(c) == [c EXCEPT !.faults = @ + 1]
Fault == MayFault /\ count' = Faulted(count)

-----------------------------------------------------------------------------
(* The draft on the device                                                 *)

\* writeDraftNow replaces what the browser holds, whichever of its pages
\* wrote that; blocked or full storage is caught, and the page goes on.
Overwrites(p) == kept[Home(p)] \notin {Nothing, Written(p)}
Write(p, pg, c) ==
  \/ /\ draft' = [draft EXCEPT ![Home(p)] =
                    [text |-> pg.text, seal |-> pg.seal, at |-> c.now]]
     /\ lost' = IF Overwrites(p) THEN lost \cup {"other tab"} ELSE lost
     /\ count' = c
  \/ /\ MayFault /\ count' = Faulted(c)
     /\ lost' = lost \cup {"storage"}
     /\ UNCHANGED draft

Remove(p) == draft' = [draft EXCEPT ![Home(p)] = NoDraft]

\* Mutants: a final draft is opened for editing; it is shown, and not sent.
EditsFinal(d) == "writing"
ShowsFinal(d) == IF d.seal # 0 THEN "shut" ELSE "writing"

\* A draft that was already final is not reopened for editing: its seal is
\* finished instead.
PhaseOf(d) == IF d.seal # 0 THEN "sealing" ELSE "writing"

Open(p) ==
  LET d == draft[Home(p)]
  IN /\ ~IsOpen(p)
     /\ Turn(p, [ phase |-> PhaseOf(d), text |-> d.text, seal |-> d.seal, tries |-> 0,
                  typed |-> FALSE, pushed |-> 0, asking |-> d.seal = 0,
                  starting |-> d.seal = 0 ])
     /\ UNCHANGED <<scenario, draft, server, late, online, count, kept, sent, lost>>

\* The page is closed or reloaded, or crashes.
Close(p) ==
  /\ IsOpen(p) /\ Fault
  /\ Turn(p, Closed)
  /\ late' = IF In(p, "sent") THEN late \cup {Written(p)} ELSE late
  /\ UNCHANGED <<scenario, draft, server, online, kept, sent, lost>>

\* bbStartSession: a page that is not finishing a seal stays shut when this
\* student has already submitted.
StartAnswered(p) ==
  /\ IsOpen(p) /\ page[p].starting
  /\ Turn(p, [page[p] EXCEPT !.starting = FALSE,
                             !.phase = IF record # None /\ @ = "writing" THEN "shut" ELSE @])
  /\ UNCHANGED <<scenario, draft, server, late, online, count, kept, sent, lost>>

\* handleChange: written on the device at once.
Type(p) ==
  LET n == count.texts + 1
      c == [count EXCEPT !.texts = n, !.now = @ + 1]
      pg == [page[p] EXCEPT !.text = n, !.typed = TRUE]
  IN /\ IsOpen(p) /\ In(p, "writing")
     /\ count.texts < scenario.texts /\ count.now < scenario.time
     /\ Turn(p, pg)
     /\ Write(p, pg, c)
     /\ kept' = [kept EXCEPT ![Home(p)] = [text |-> n, seal |-> page[p].seal]]
     /\ UNCHANGED <<scenario, server, late, online, sent>>

\* The pause in typing, the 30-second interval, pagehide, a decision or a warning
\* noted: also of a page that is sealing or shut, or has nothing written yet.
Save(p) ==
  /\ IsOpen(p)
  /\ Write(p, page[p], count)
  /\ UNCHANGED <<scenario, page, server, late, online, kept, sent>>

-----------------------------------------------------------------------------
(* The copy on the server                                                  *)

\* A save is refused, and the copy dropped, once the exam is sealed
\* (bluebook_put_draft); one that fails is sent again at the next occasion.
Push(p) ==
  LET c == [count EXCEPT !.now = @ + 1]
      text == page[p].text
  IN /\ IsOpen(p) /\ In(p, "writing") /\ text \notin {0, page[p].pushed}
     /\ count.now < scenario.time
     /\ \/ /\ copy' = IF record = None THEN [text |-> text, at |-> c.now] ELSE None
           /\ Turn(p, [page[p] EXCEPT !.pushed = IF record = None THEN text ELSE 0])
           /\ count' = c
        \/ /\ MayFault /\ count' = Faulted(c)
           /\ Turn(p, [page[p] EXCEPT !.pushed = 0])
           /\ UNCHANGED copy
     /\ UNCHANGED <<scenario, draft, record, late, online, kept, sent, lost>>

\* Mutant: it is taken whatever the student did meanwhile.
Anyway(p) == In(p, "writing") /\ record = None

\* Nothing is final or typed on this page since it opened.
Untouched(p) == In(p, "writing") /\ ~page[p].typed /\ record = None

\* bbPickServerDraft
Newer(d) == copy # None /\ d.seal = 0 /\ (d.text = 0 \/ copy.at > d.at)

\* The answer to the request for the server's draft: taken unless the student
\* has typed meanwhile.  It is written on the device by the next Save.
Fetched(p) ==
  LET b == Home(p)
      takes == Untouched(p) /\ Newer(draft[b])
      pg == [page[p] EXCEPT !.asking = FALSE]
  IN /\ IsOpen(p) /\ page[p].asking
     /\ Turn(p, IF takes THEN [pg EXCEPT !.text = copy.text, !.pushed = copy.text] ELSE pg)
     /\ lost' = IF takes /\ kept[b] \notin {Nothing, [text |-> copy.text, seal |-> 0]}
                THEN lost \cup {"resumed"} ELSE lost
     /\ UNCHANGED <<scenario, draft, server, late, online, count, kept, sent>>

-----------------------------------------------------------------------------
(* The seal (handleSubmit)                                                 *)

\* The student confirms, or time runs out: the answers are final from here,
\* under the uuid that the draft already had, or a new one.
Confirm(p) ==
  LET u == IF page[p].seal = 0 THEN count.seals + 1 ELSE page[p].seal
      pg == [page[p] EXCEPT !.phase = "sealing", !.seal = u]
  IN /\ IsOpen(p) /\ In(p, "writing") /\ page[p].text # 0
     /\ page[p].seal = 0 => count.seals < scenario.seals
     /\ Turn(p, pg)
     /\ Write(p, pg, [count EXCEPT !.seals = IF u > @ THEN u ELSE @])
     /\ kept' = [kept EXCEPT ![Home(p)] = [text |-> pg.text, seal |-> u]]
     /\ UNCHANGED <<scenario, server, late, online, sent>>

\* Time runs out on a page with nothing written: its draft is cleared.
ExpireEmpty(p) ==
  /\ IsOpen(p) /\ In(p, "writing") /\ page[p].text = 0
  /\ Turn(p, Closed) /\ Remove(p)
  /\ lost' = IF Overwrites(p) THEN lost \cup {"other tab"} ELSE lost
  /\ UNCHANGED <<scenario, server, late, online, count, kept, sent>>

\* One attempt; offline, it waits for the connection.
Attempt(p) ==
  /\ IsOpen(p) /\ In(p, "sealing") /\ online
  /\ Turn(p, [page[p] EXCEPT !.phase = "sent"])
  /\ sent' = sent \cup {Written(p)}
  /\ UNCHANGED <<scenario, draft, server, late, online, count, kept, lost>>

\* bluebook_record_submission, in one step (see SittingPromise).
Recorded(m) == IF record = None THEN m ELSE record
Serve(m) == record' = Recorded(m) /\ copy' = None

\* Mutant: the draft is cleared whatever the answer was.
AlwaysClears(answer) == TRUE

Clears(answer) == answer = "sealed"

\* The page shows the outcome (and sends a student whose sign-in has lapsed
\* to sign in).
Finish(p, answer) ==
  /\ Turn(p, Closed)
  /\ IF Clears(answer) THEN Remove(p) ELSE UNCHANGED draft

Answered(p) ==
  LET m == Written(p)
  IN /\ IsOpen(p) /\ In(p, "sent")
     /\ Serve(m)
     /\ Finish(p, IF Recorded(m).seal = m.seal THEN "sealed" ELSE "already submitted")
     /\ UNCHANGED <<scenario, late, online, count, kept, sent, lost>>

\* Mutant: one attempt more than there are waits for.
OnceMore(p) == page[p].tries < Attempts

Again(p) == page[p].tries < Attempts - 1

\* No answer, a server error or "slow down": tried again after a pause, a
\* few times.  What was sent may have reached the server, or still reach it.
Unanswered(p) ==
  /\ IsOpen(p) /\ In(p, "sent") /\ Fault
  /\ late' = late \cup {Written(p)}
  /\ IF Again(p)
     THEN /\ Turn(p, [page[p] EXCEPT !.phase = "sealing", !.tries = @ + 1])
          /\ UNCHANGED draft
     ELSE Finish(p, "failed")
  /\ UNCHANGED <<scenario, server, online, kept, sent, lost>>

\* bbSealRetryable: any other refusal will not change on retry.
Refused(p) ==
  /\ IsOpen(p) /\ In(p, "sent") /\ Fault
  /\ Finish(p, "refused")
  /\ UNCHANGED <<scenario, server, late, online, kept, sent, lost>>

SealArrives(m) ==
  /\ m \in late
  /\ late' = late \ {m}
  /\ Serve(m)
  /\ UNCHANGED <<scenario, page, draft, online, count, kept, sent, lost>>

GoOffline ==
  /\ online /\ Fault
  /\ online' = FALSE
  /\ UNCHANGED <<scenario, page, draft, server, late, kept, sent, lost>>

GoOnline ==
  /\ ~online
  /\ online' = TRUE
  /\ UNCHANGED <<scenario, page, draft, server, late, count, kept, sent, lost>>

Step(p) ==
  \/ Open(p) \/ Close(p) \/ StartAnswered(p)
  \/ Type(p) \/ Save(p) \/ Push(p) \/ Fetched(p)
  \/ Confirm(p) \/ ExpireEmpty(p) \/ Attempt(p)
  \/ Answered(p) \/ Unanswered(p) \/ Refused(p)

Next ==
  \/ \E p \in DOMAIN scenario.home : Step(p)
  \/ \E m \in late : SealArrives(m)
  \/ GoOffline \/ GoOnline

\* A student whose answers are final comes back to them: the outcome screen
\* offers to try again, and the home screen reopens a sitting in progress.
ComesBack(p) == p \in DOMAIN scenario.home /\ draft[Home(p)].seal # 0 /\ Open(p)

Fairness ==
  /\ WF_vars(GoOnline)
  /\ \A p \in Pages :
       WF_vars(ComesBack(p)) /\ WF_vars(Attempt(p)) /\ WF_vars(Answered(p))

Spec == Init /\ [][Next]_vars /\ Fairness

-----------------------------------------------------------------------------
(* Properties                                                              *)

\* "A sitting must survive a crash, a refresh, a dropped connection": until
\* the exam is recorded, the device holds what the student last wrote or made
\* final on it.  Exactly three things can take it: storage that fails (the
\* page says so), another page of the same browser, and a newer copy from
\* another browser.
WritingKept ==
  record = None /\ lost = {} =>
    \A b \in Browsers :
      kept[b] # Nothing => draft[b].text = kept[b].text /\ draft[b].seal = kept[b].seal

\* "Everything a retry sends is fixed at the moment the answers became
\* final": no two sends of one seal differ, through reloads, retries, pages
\* that share a draft and failed storage.  (The server keeps the first, so
\* another text would be lost.)
OneTextPerSeal == \A m, n \in sent : m.seal = n.seal => m.text = n.text

\* What the student has typed on an open page stays on it: only typing
\* replaces it, whatever the server's draft says that was asked for before.
TypingStands ==
  [][\A p \in Pages :
       IsOpen(p) /\ page[p].typed /\ page'[p] # Closed =>
         page'[p].text = page[p].text \/ count'.texts > count.texts]_vars

\* Answers that became final are recorded in the end, or others of this
\* student were, unless the device lost them as above.
FinalIsRecorded ==
  \A u \in 1..Bound :
    count.seals = u /\ lost = {} ~> record # None \/ lost # {}
=============================================================================
