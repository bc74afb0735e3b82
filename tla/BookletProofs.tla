--------------------------- MODULE BookletProofs ---------------------------
(***************************************************************************)
(* Theorems about Booklet, for every set of pages and browsers, every      *)
(* number of attempts and every bound.                                     *)
(***************************************************************************)
EXTENDS Booklet, TLAPS

-----------------------------------------------------------------------------
(* Type correctness                                                        *)

LEMMA PageOfScenario ==
  ASSUME TypeOK, NEW p \in DOMAIN scenario.home
  PROVE  /\ p \in Pages /\ Home(p) \in Browsers
         /\ scenario.texts \in 0..Bound /\ scenario.seals \in 0..Bound
         /\ scenario.time \in 0..Bound /\ scenario.faults \in 0..Bound
<1>1. scenario \in Scenario
  BY ScenarioAssumption DEF TypeOK
<1>2. PICK P \in SUBSET Pages : scenario.home \in [P -> Browsers]
  BY <1>1 DEF Scenario
<1> QED
  BY <1>1, <1>2 DEF Scenario, Home

LEMMA OpenPageType ==
  ASSUME TypeOK, NEW p \in Pages, IsOpen(p)
  PROVE  page[p] \in Page /\ Written(p) \in Writing
  BY DEF TypeOK, IsOpen, Page, Written, Writing

\* A fault stays within its bound.
LEMMA FaultType ==
  ASSUME NEW c \in Counts, c.faults < scenario.faults, scenario.faults \in 0..Bound
  PROVE  Faulted(c) \in Counts
  BY BoundAssumption DEF Faulted, Counts, Texts, Seals

\* A write of a page onto its browser, whether or not the storage takes it.
LEMMA WriteType ==
  ASSUME TypeOK, NEW p \in DOMAIN scenario.home, NEW pg \in Page, NEW c \in Counts,
         c.faults = count.faults, Write(p, pg, c)
  PROVE  /\ draft' \in [Browsers -> Draft]
         /\ count' \in Counts
         /\ lost' \subseteq {"storage", "other tab", "resumed"}
<1>1. Home(p) \in Browsers /\ scenario.faults \in 0..Bound
  BY PageOfScenario
<1>2. [text |-> pg.text, seal |-> pg.seal, at |-> c.now] \in Draft
  BY DEF Page, Counts, Draft
<1>3. MayFault => Faulted(c) \in Counts
  BY <1>1, FaultType DEF MayFault
<1> QED
  BY <1>1, <1>2, <1>3 DEF Write, TypeOK

LEMMA InitTypeOK == Init => TypeOK
<1> SUFFICES ASSUME Init PROVE TypeOK
  OBVIOUS
<1>1. NoDraft \in Draft /\ Nothing \in Writing
  BY BoundAssumption DEF NoDraft, Draft, Nothing, Writing, Texts, Seals
<1>2. count \in Counts
  BY BoundAssumption DEF Init, Counts, Texts, Seals
<1> QED
  BY <1>1, <1>2 DEF Init, TypeOK

\* What a page does keeps every variable in its type.
LEMMA StepTypeOK ==
  ASSUME TypeOK, NEW p \in DOMAIN scenario.home, Step(p)
  PROVE  TypeOK'
<1>1. /\ p \in Pages /\ Home(p) \in Browsers
      /\ scenario.texts \in 0..Bound /\ scenario.seals \in 0..Bound
      /\ scenario.time \in 0..Bound /\ scenario.faults \in 0..Bound
  BY PageOfScenario
<1>2. IsOpen(p) => page[p] \in Page /\ Written(p) \in Writing
  BY <1>1, OpenPageType
<1>3. Fault => count' \in Counts
  BY <1>1, FaultType DEF Fault, MayFault, TypeOK
<1>4. \A pg \in Page \cup {Closed} : Turn(p, pg) => page' \in [Pages -> Page \cup {Closed}]
  BY DEF Turn, TypeOK
<1>5. NoDraft \in Draft
  BY BoundAssumption DEF NoDraft, Draft, Texts, Seals
<1>6. Remove(p) => draft' \in [Browsers -> Draft]
  BY <1>5 DEF Remove, TypeOK
<1>7. CASE Open(p)
  <2> DEFINE d == draft[Home(p)]
  <2> DEFINE pg == [ phase |-> PhaseOf(d), text |-> d.text, seal |-> d.seal, tries |-> 0,
                     typed |-> FALSE, pushed |-> 0, asking |-> d.seal = 0,
                     starting |-> d.seal = 0 ]
  <2>1. d \in Draft
    BY <1>1 DEF TypeOK
  <2>2. pg \in Page
    BY <2>1, BoundAssumption DEF Page, PhaseOf, Draft, Texts, Seals
  <2> QED
    BY <1>4, <1>7, <2>2 DEF Open, TypeOK, server
<1>8. CASE Close(p)
  BY <1>2, <1>3, <1>4, <1>8 DEF Close, TypeOK, server
<1>9. CASE StartAnswered(p)
  <2> DEFINE pg == [page[p] EXCEPT !.starting = FALSE,
                      !.phase = IF record # None /\ @ = "writing" THEN "shut" ELSE @]
  <2>1. pg \in Page
    BY <1>2, <1>9 DEF StartAnswered, Page
  <2> QED
    BY <1>4, <1>9, <2>1 DEF StartAnswered, TypeOK, server
<1>10. CASE Type(p)
  <2> DEFINE n == count.texts + 1
  <2> DEFINE c == [count EXCEPT !.texts = n, !.now = @ + 1]
  <2> DEFINE pg == [page[p] EXCEPT !.text = n, !.typed = TRUE]
  <2>1. count \in Counts /\ count.texts < scenario.texts /\ count.now < scenario.time
    BY <1>10 DEF Type, TypeOK
  <2>2. n \in Texts /\ c \in Counts /\ c.faults = count.faults
    <3>1. n \in 0..Bound /\ count.now + 1 \in 0..Bound
      BY <1>1, <2>1, BoundAssumption DEF Counts, Texts
    <3> QED
      BY <2>1, <3>1 DEF Counts, Texts
  <2>3. pg \in Page
    BY <1>2, <1>10, <2>2 DEF Type, Page
  <2>4. Write(p, pg, c) /\ Turn(p, pg)
    BY <1>10 DEF Type
  <2>5. /\ draft' \in [Browsers -> Draft] /\ count' \in Counts
        /\ lost' \subseteq {"storage", "other tab", "resumed"}
    BY <2>2, <2>3, <2>4, WriteType
  <2>6. [text |-> n, seal |-> page[p].seal] \in Writing
    BY <1>2, <1>10, <2>2 DEF Type, Page, Writing
  <2>7. kept' \in [Browsers -> Writing]
    BY <1>10, <2>6 DEF Type, TypeOK
  <2>8. page' \in [Pages -> Page \cup {Closed}]
    BY <1>4, <2>3, <2>4
  <2> QED
    BY <1>10, <2>5, <2>7, <2>8 DEF Type, TypeOK, server
<1>11. CASE Save(p)
  <2>1. page[p] \in Page /\ Write(p, page[p], count) /\ count \in Counts
    BY <1>2, <1>11 DEF Save, TypeOK
  <2>2. /\ draft' \in [Browsers -> Draft] /\ count' \in Counts
        /\ lost' \subseteq {"storage", "other tab", "resumed"}
    BY <2>1, WriteType
  <2> QED
    BY <1>11, <2>2 DEF Save, TypeOK, server
<1>12. CASE Push(p)
  <2> DEFINE c == [count EXCEPT !.now = @ + 1]
  <2>1. count \in Counts /\ count.now < scenario.time /\ page[p] \in Page
    BY <1>2, <1>12 DEF Push, TypeOK
  <2>2. c \in Counts /\ c.faults = count.faults
    BY <1>1, <2>1, BoundAssumption DEF Counts, Texts, Seals
  <2>3. MayFault => Faulted(c) \in Counts
    BY <1>1, <2>2, FaultType DEF MayFault
  <2>4. [text |-> page[p].text, at |-> c.now] \in [text : Texts, at : 0..Bound]
    BY <2>1, <2>2 DEF Page, Counts
  <2>5. \A k \in Texts : [page[p] EXCEPT !.pushed = k] \in Page
    BY <2>1 DEF Page
  <2>6. 0 \in Texts /\ page[p].text \in Texts
    BY <2>1, BoundAssumption DEF Page, Texts
  <2>7. /\ copy' \in [text : Texts, at : 0..Bound] \cup {None}
        /\ count' \in Counts /\ page' \in [Pages -> Page \cup {Closed}]
    BY <1>4, <1>12, <2>2, <2>3, <2>4, <2>5, <2>6 DEF Push, TypeOK
  <2> QED
    BY <1>12, <2>7 DEF Push, TypeOK
<1>13. CASE Fetched(p)
  <2> DEFINE pg == [page[p] EXCEPT !.asking = FALSE]
  <2>1. pg \in Page
    BY <1>2, <1>13 DEF Fetched, Page
  <2>2. copy # None => [pg EXCEPT !.text = copy.text, !.pushed = copy.text] \in Page
    BY <2>1 DEF Page, TypeOK
  <2>3. \E q \in Page : Turn(p, q)
    BY <1>13, <2>1, <2>2 DEF Fetched, Newer
  <2>4. page' \in [Pages -> Page \cup {Closed}]
    BY <1>4, <2>3
  <2>5. lost' \subseteq {"storage", "other tab", "resumed"}
    BY <1>13 DEF Fetched, TypeOK
  <2> QED
    BY <1>13, <2>4, <2>5 DEF Fetched, TypeOK, server
<1>14. CASE Confirm(p)
  <2> DEFINE u == IF page[p].seal = 0 THEN count.seals + 1 ELSE page[p].seal
  <2> DEFINE c == [count EXCEPT !.seals = IF u > @ THEN u ELSE @]
  <2> DEFINE pg == [page[p] EXCEPT !.phase = "sealing", !.seal = u]
  <2>1. count \in Counts /\ page[p] \in Page
        /\ (page[p].seal = 0 => count.seals < scenario.seals)
    BY <1>2, <1>14 DEF Confirm, TypeOK
  <2>2. u \in Seals
    BY <1>1, <2>1, BoundAssumption DEF Counts, Page, Seals
  <2>3. c \in Counts /\ c.faults = count.faults
    BY <2>1, <2>2 DEF Counts
  <2>4. pg \in Page
    BY <2>1, <2>2 DEF Page
  <2>5. Write(p, pg, c) /\ Turn(p, pg)
    BY <1>14 DEF Confirm
  <2>6. /\ draft' \in [Browsers -> Draft] /\ count' \in Counts
        /\ lost' \subseteq {"storage", "other tab", "resumed"}
    BY <2>3, <2>4, <2>5, WriteType
  <2>7. [text |-> pg.text, seal |-> u] \in Writing
    BY <2>2, <2>4 DEF Page, Writing
  <2>8. kept' \in [Browsers -> Writing]
    BY <1>14, <2>7 DEF Confirm, TypeOK
  <2>9. page' \in [Pages -> Page \cup {Closed}]
    BY <1>4, <2>4, <2>5
  <2> QED
    BY <1>14, <2>6, <2>8, <2>9 DEF Confirm, TypeOK, server
<1>15. CASE ExpireEmpty(p)
  BY <1>4, <1>6, <1>15 DEF ExpireEmpty, TypeOK, server
<1>16. CASE Attempt(p)
  <2>1. [page[p] EXCEPT !.phase = "sent"] \in Page
    BY <1>2, <1>16 DEF Attempt, Page
  <2>2. page' \in [Pages -> Page \cup {Closed}]
    BY <1>4, <1>16, <2>1 DEF Attempt
  <2> QED
    BY <1>2, <1>16, <2>2 DEF Attempt, TypeOK, server
<1>17. CASE Answered(p)
  BY <1>2, <1>4, <1>6, <1>17 DEF Answered, Serve, Recorded, Finish, TypeOK
<1>18. CASE Unanswered(p)
  <2>1. Again(p) => [page[p] EXCEPT !.phase = "sealing", !.tries = @ + 1] \in Page
    <3>1. page[p] \in Page
      BY <1>2, <1>18 DEF Unanswered
    <3>2. page[p].tries \in 0..(Attempts - 1) /\ Attempts \in Nat \ {0}
      BY <3>1, BoundAssumption DEF Page
    <3>3. Again(p) => page[p].tries + 1 \in 0..(Attempts - 1)
      BY <3>2 DEF Again
    <3> QED
      BY <3>1, <3>3 DEF Page
  <2>2. /\ page' \in [Pages -> Page \cup {Closed}]
        /\ draft' \in [Browsers -> Draft]
    BY <1>4, <1>6, <1>18, <2>1 DEF Unanswered, Finish, TypeOK
  <2> QED
    BY <1>2, <1>3, <1>18, <2>2 DEF Unanswered, TypeOK, server
<1>19. CASE Refused(p)
  BY <1>3, <1>4, <1>6, <1>19 DEF Refused, Finish, TypeOK, server
<1> QED
  BY <1>7, <1>8, <1>9, <1>10, <1>11, <1>12, <1>13, <1>14, <1>15, <1>16, <1>17, <1>18, <1>19
     DEF Step

LEMMA NextTypeOK == TypeOK /\ [Next]_vars => TypeOK'
<1> SUFFICES ASSUME TypeOK, [Next]_vars PROVE TypeOK'
  OBVIOUS
<1>1. CASE \E m \in late : SealArrives(m)
  BY <1>1 DEF SealArrives, Serve, Recorded, TypeOK
<1>2. CASE GoOffline
  <2>1. scenario.faults \in 0..Bound /\ count \in Counts
    BY ScenarioAssumption DEF TypeOK, Scenario
  <2>2. count' \in Counts
    BY <1>2, <2>1, FaultType DEF GoOffline, Fault, MayFault
  <2> QED
    BY <1>2, <2>2 DEF GoOffline, TypeOK, server
<1>3. CASE GoOnline
  BY <1>3 DEF GoOnline, TypeOK, server
<1>4. CASE UNCHANGED vars
  BY <1>4 DEF vars, TypeOK, server
<1> QED
  BY <1>1, <1>2, <1>3, <1>4, StepTypeOK DEF Next

\* Every variable of the booklet keeps its type; no page tries a seal more
\* often than it has attempts.
THEOREM BookletTypeCorrect == Spec => []TypeOK
  BY InitTypeOK, NextTypeOK, PTL DEF Spec

-----------------------------------------------------------------------------
(* One text under each seal                                                *)

\* A page is final from its confirmation on, and only then.
PhasesOK ==
  \A p \in Pages : IsOpen(p) => (page[p].phase \in {"sealing", "sent"} <=> page[p].seal # 0)

OnDevice(b) == [text |-> draft[b].text, seal |-> draft[b].seal]

\* Where final answers are: on a page, on a device, under way, or once sent.
Held(m) ==
  \/ m \in sent
  \/ \E p \in Pages : IsOpen(p) /\ m = Written(p)
  \/ \E b \in Browsers : m = OnDevice(b)

Finals == {m \in Writing : m.seal # 0 /\ Held(m)}

\* What is sent later is what is already held: two copies of one seal agree
\* wherever they are, and no copy has a seal that is yet to be given out.
OneTextInv ==
  /\ TypeOK /\ PhasesOK
  /\ \A m \in sent : m.seal # 0
  /\ \A m, n \in Finals : m.seal = n.seal => m.text = n.text
  /\ \A m \in Finals : m.seal <= count.seals

LEMMA InitOneText == Init => OneTextInv
<1> SUFFICES ASSUME Init PROVE OneTextInv
  OBVIOUS
<1>1. TypeOK
  BY InitTypeOK
<1>2. Finals = {}
  BY DEF Init, Finals, Held, OnDevice, IsOpen, NoDraft
<1> QED
  BY <1>1, <1>2 DEF Init, OneTextInv, PhasesOK, IsOpen

\* A step that makes no copy of a seal that was not held keeps them agreeing.
LEMMA NoNewFinals ==
  ASSUME OneTextInv, TypeOK', PhasesOK', \A m \in sent' : m.seal # 0,
         Finals' \subseteq Finals, count'.seals >= count.seals
  PROVE  OneTextInv'
<1>1. count.seals \in Nat /\ count'.seals \in Nat
  <2>1. count \in Counts /\ count' \in Counts
    BY DEF OneTextInv, TypeOK
  <2> QED
    BY <2>1, BoundAssumption DEF Counts, Seals
<1>2. \A m \in Finals : m.seal \in Nat
  BY BoundAssumption DEF Finals, Writing, Seals
<1>3. \A m \in Finals' : m.seal <= count'.seals
  BY <1>1, <1>2 DEF OneTextInv
<1> QED
  BY <1>3 DEF OneTextInv

\* A draft is written: the device then holds what the page does, or what it did.
LEMMA WriteHolds ==
  ASSUME TypeOK, NEW p \in DOMAIN scenario.home, NEW pg, NEW c \in Counts, Write(p, pg, c)
  PROVE  /\ \A b \in Browsers : OnDevice(b)' = OnDevice(b)
                                 \/ OnDevice(b)' = [text |-> pg.text, seal |-> pg.seal]
         /\ count'.seals = c.seals
<1>1. Home(p) \in Browsers
  BY PageOfScenario
<1>2. \A b \in Browsers : OnDevice(b)' = OnDevice(b)
                         \/ OnDevice(b)' = [text |-> pg.text, seal |-> pg.seal]
  <2> DEFINE d == [text |-> pg.text, seal |-> pg.seal, at |-> c.now]
  <2>1. draft' = [draft EXCEPT ![Home(p)] = d] \/ draft' = draft
    BY DEF Write
  <2>2. \A b \in Browsers : draft'[b] = draft[b] \/ draft'[b] = d
    BY <1>1, <2>1 DEF TypeOK
  <2> QED
    BY <2>2 DEF OnDevice
<1>3. Faulted(c).seals = c.seals
  BY DEF Faulted, Counts
<1> QED
  BY <1>2, <1>3 DEF Write

\* What a step of one page must show, when it confirms nothing.
LEMMA QuietStep ==
  ASSUME OneTextInv, TypeOK', NEW p \in Pages,
         \A q \in Pages \ {p} : page'[q] = page[q],
         \/ page'[p] = Closed
         \/ page'[p].seal = 0 /\ page'[p].phase \in {"writing", "shut"}
         \/ /\ page'[p].seal # 0 /\ page'[p].phase \in {"sealing", "sent"}
            /\ Held([text |-> page'[p].text, seal |-> page'[p].seal]),
         \A b \in Browsers : OnDevice(b)'.seal = 0 \/ Held(OnDevice(b)'),
         sent' = sent \/ (sent' = sent \cup {Written(p)} /\ IsOpen(p) /\ page[p].seal # 0),
         count'.seals >= count.seals
  PROVE  OneTextInv'
<1>1. PhasesOK'
  BY DEF OneTextInv, PhasesOK, IsOpen
<1>2. \A m \in sent' : m.seal # 0 /\ Held(m)
  BY DEF OneTextInv, Held, Written
<1>3. \A q \in Pages : IsOpen(q)' => Written(q)'.seal = 0 \/ Held(Written(q)')
  <2>1. \A q \in Pages \ {p} : IsOpen(q)' => Held(Written(q)')
    BY DEF Held, Written, IsOpen
  <2>2. IsOpen(p)' => Written(p)'.seal = 0 \/ Held(Written(p)')
    BY DEF Written, IsOpen
  <2> QED
    BY <2>1, <2>2
<1>4. \A m : Held(m)' => m.seal = 0 \/ Held(m)
  BY <1>2, <1>3 DEF Held
<1>5. Finals' \subseteq Finals
  BY <1>4 DEF Finals
<1> QED
  BY <1>1, <1>2, <1>5, NoNewFinals

\* A page's own step keeps copies agreeing: only a confirmation makes a new
\* seal, and a page whose answers are final shows what its seal was made for.
LEMMA StepOneText ==
  ASSUME OneTextInv, TypeOK', NEW p \in DOMAIN scenario.home, Step(p)
  PROVE  OneTextInv'
<1>1. TypeOK /\ p \in Pages /\ Home(p) \in Browsers
  BY PageOfScenario DEF OneTextInv
<1>2. IsOpen(p) => /\ page[p] \in Page /\ Held(Written(p))
                   /\ page[p].phase \in {"sealing", "sent"} <=> page[p].seal # 0
  BY <1>1, OpenPageType DEF OneTextInv, PhasesOK, Held
<1>3. page = [q \in Pages |-> page[q]]
  BY <1>1 DEF TypeOK
<1>4. \A b \in Browsers : Held(OnDevice(b))
  BY DEF Held
<1>5. draft' = draft => \A b \in Browsers : Held(OnDevice(b)')
  BY <1>4 DEF OnDevice
<1>6. Remove(p) => \A b \in Browsers : OnDevice(b)'.seal = 0 \/ Held(OnDevice(b)')
  <2>1. Remove(p) => \A b \in Browsers : draft'[b] = draft[b] \/ draft'[b] = NoDraft
    BY <1>1 DEF Remove, TypeOK
  <2> QED
    BY <1>4, <2>1 DEF OnDevice, NoDraft
<1>7. count.seals \in Nat /\ count \in Counts
  <2>1. count \in Counts
    BY <1>1 DEF TypeOK
  <2> QED
    BY <2>1, BoundAssumption DEF Counts, Seals
<1>8. Fault \/ count' = count => count'.seals >= count.seals
  BY <1>7 DEF Fault, Faulted, Counts
<1>9. CASE Open(p)
  <2> DEFINE d == draft[Home(p)]
  <2>1. /\ d \in Draft /\ page'[p].text = d.text /\ page'[p].seal = d.seal
        /\ page'[p].phase = PhaseOf(d)
        /\ \A q \in Pages \ {p} : page'[q] = page[q]
    BY <1>1, <1>3, <1>9 DEF Open, TypeOK, Turn
  <2>2. Held([text |-> d.text, seal |-> d.seal])
    BY <1>1 DEF Held, OnDevice
  <2> QED
    BY <1>1, <1>5, <1>8, <1>9, <2>1, <2>2, QuietStep DEF Open, PhaseOf
<1>10. CASE Close(p)
  BY <1>1, <1>3, <1>5, <1>8, <1>10, QuietStep DEF Close, Turn
<1>11. CASE StartAnswered(p)
  <2>1. /\ page'[p].text = page[p].text /\ page'[p].seal = page[p].seal
        /\ \/ page'[p].phase = page[p].phase
           \/ page[p].phase = "writing" /\ page'[p].phase = "shut"
        /\ \A q \in Pages \ {p} : page'[q] = page[q]
    BY <1>2, <1>3, <1>11 DEF StartAnswered, Page, Turn
  <2>2. page[p].phase \in {"writing", "shut", "sealing", "sent"}
    BY <1>2, <1>11 DEF StartAnswered, Page
  <2> QED
    BY <1>1, <1>2, <1>5, <1>8, <1>11, <2>1, <2>2, QuietStep DEF StartAnswered, Written
<1>12. CASE Type(p)
  <2> DEFINE n == count.texts + 1
  <2> DEFINE c == [count EXCEPT !.texts = n, !.now = @ + 1]
  <2> DEFINE pg == [page[p] EXCEPT !.text = n, !.typed = TRUE]
  <2>1. IsOpen(p) /\ page[p].phase = "writing" /\ Turn(p, pg) /\ Write(p, pg, c) /\ sent' = sent
    BY <1>12 DEF Type, In
  <2>2. page[p] \in Page /\ page[p].seal = 0
    BY <1>2, <2>1
  <2>3. page'[p].seal = 0 /\ page'[p].phase = "writing"
    BY <1>3, <2>1, <2>2 DEF Page, Turn
  <2>4. c \in Counts /\ c.seals = count.seals
    <3>1. /\ scenario.texts \in 0..Bound /\ scenario.time \in 0..Bound
          /\ count.texts < scenario.texts /\ count.now < scenario.time
      BY <1>1, <1>12, PageOfScenario DEF Type
    <3>2. n \in 0..Bound /\ count.now + 1 \in 0..Bound
      BY <1>7, <3>1, BoundAssumption DEF Counts, Texts
    <3> QED
      BY <1>7, <3>2 DEF Counts, Texts
  <2>5. /\ count'.seals = count.seals
        /\ \A b \in Browsers : OnDevice(b)' = OnDevice(b) \/ OnDevice(b)'.seal = 0
    <3>1. pg.seal = 0
      BY <2>2 DEF Page
    <3> HIDE DEF c, pg
    <3> QED
      BY <1>1, <2>1, <2>4, <3>1, WriteHolds
  <2>6. \A q \in Pages \ {p} : page'[q] = page[q]
    BY <1>1, <1>3, <2>1 DEF Turn
  <2>7. \A b \in Browsers : OnDevice(b)'.seal = 0 \/ Held(OnDevice(b)')
    BY <1>4, <2>5
  <2>8. count'.seals >= count.seals
    BY <1>7, <2>5
  <2> QED
    BY <1>1, <2>1, <2>3, <2>6, <2>7, <2>8, QuietStep
<1>13. CASE Save(p)
  <2>1. IsOpen(p) /\ Write(p, page[p], count) /\ page' = page /\ sent' = sent
    BY <1>13 DEF Save
  <2>2. /\ count'.seals = count.seals
        /\ \A b \in Browsers : OnDevice(b)' = OnDevice(b) \/ OnDevice(b)' = Written(p)
    BY <1>1, <1>7, <2>1, WriteHolds DEF Written
  <2>3. page[p].phase \in {"writing", "shut", "sealing", "sent"}
    BY <1>2, <2>1 DEF Page
  <2> QED
    BY <1>1, <1>2, <1>4, <1>7, <2>1, <2>2, <2>3, QuietStep DEF Written
<1>14. CASE Push(p)
  <2>1. PICK k : Turn(p, [page[p] EXCEPT !.pushed = k])
    BY <1>14 DEF Push
  <2>2. page[p] \in Page /\ page[p].phase = "writing" /\ page[p].seal = 0
    BY <1>2, <1>14 DEF Push, In
  <2>3. page'[p].phase = "writing" /\ page'[p].seal = 0
    BY <1>3, <2>1, <2>2 DEF Page, Turn
  <2>4. count'.seals = count.seals
    BY <1>7, <1>14 DEF Push, Faulted, Counts
  <2> QED
    <3>1. \A q \in Pages \ {p} : page'[q] = page[q]
      BY <1>1, <1>3, <2>1 DEF Turn
    <3>2. draft' = draft /\ sent' = sent
      BY <1>14 DEF Push
    <3>3. count'.seals >= count.seals
      BY <1>7, <2>4
    <3>4. \A b \in Browsers : OnDevice(b)'.seal = 0 \/ Held(OnDevice(b)')
      BY <1>5, <3>2
    <3> QED
      BY <1>1, <2>3, <3>1, <3>2, <3>3, <3>4, QuietStep
<1>15. CASE Fetched(p)
  <2>1. /\ page'[p].phase = page[p].phase /\ page'[p].seal = page[p].seal
        /\ page'[p].text = page[p].text \/ page[p].phase = "writing"
        /\ \A q \in Pages \ {p} : page'[q] = page[q]
    BY <1>2, <1>3, <1>15 DEF Fetched, Untouched, In, Page, Turn
  <2>2. page[p].phase \in {"writing", "shut", "sealing", "sent"}
    BY <1>2, <1>15 DEF Fetched, Page
  <2> QED
    BY <1>1, <1>2, <1>5, <1>8, <1>15, <2>1, <2>2, QuietStep DEF Fetched, Written
<1>16. CASE Confirm(p)
  <2> DEFINE u == count.seals + 1
  <2> DEFINE c == [count EXCEPT !.seals = u]
  <2> DEFINE pg == [page[p] EXCEPT !.phase = "sealing", !.seal = u]
  <2> DEFINE new == [text |-> page[p].text, seal |-> u]
  <2>1. /\ IsOpen(p) /\ page[p] \in Page /\ page[p].seal = 0
        /\ count.seals < scenario.seals /\ sent' = sent
    BY <1>2, <1>16 DEF Confirm, In
  <2>2. Turn(p, pg) /\ Write(p, pg, c)
    <3>1. u > count.seals
      BY <1>7
    <3> QED
      BY <1>7, <1>16, <2>1, <3>1 DEF Confirm
  <2>3. c \in Counts /\ c.seals = u
    <3>1. u \in 0..Bound
      BY <1>1, <1>7, <2>1, PageOfScenario, BoundAssumption
    <3> QED
      BY <1>7, <3>1 DEF Counts, Seals
  <2>4. [text |-> pg.text, seal |-> pg.seal] = new
    BY <2>1 DEF Page
  <2>5. /\ count'.seals = u
        /\ \A b \in Browsers : OnDevice(b)' = OnDevice(b) \/ OnDevice(b)' = new
    <3> HIDE DEF c, pg, new
    <3> QED
      BY <1>1, <2>2, <2>3, <2>4, WriteHolds
  <2>6. /\ page'[p].text = page[p].text /\ page'[p].seal = u /\ page'[p].phase = "sealing"
        /\ \A q \in Pages \ {p} : page'[q] = page[q]
    BY <1>1, <1>3, <2>1, <2>2 DEF Page, Turn
  <2>7. PhasesOK'
    BY <1>1, <1>7, <2>6 DEF OneTextInv, PhasesOK, IsOpen
  <2>8. \A m : Held(m)' => m = new \/ Held(m)
    <3>1. Written(p)' = new
      BY <2>6 DEF Written
    <3>2. \A q \in Pages \ {p} : IsOpen(q)' => Held(Written(q)')
      BY <2>6 DEF Held, Written, IsOpen
    <3> HIDE DEF new
    <3> QED
      BY <1>4, <2>1, <2>5, <3>1, <3>2 DEF Held
  <2>9. Finals' \subseteq Finals \cup {new}
    BY <2>8 DEF Finals
  <2>10. \A m \in Finals : m.seal \in Nat /\ m.seal < u
    BY <1>7, BoundAssumption DEF OneTextInv, Finals, Writing, Seals
  <2>11. \A m, n \in Finals' : m.seal = n.seal => m.text = n.text
    <3>1. new.seal = u
      OBVIOUS
    <3> HIDE DEF new
    <3> QED
      BY <1>7, <2>9, <2>10, <3>1 DEF OneTextInv
  <2>12. \A m \in Finals' : m.seal <= count'.seals
    BY <1>7, <2>5, <2>9, <2>10
  <2> QED
    BY <2>1, <2>7, <2>11, <2>12 DEF OneTextInv
<1>17. CASE ExpireEmpty(p)
  BY <1>1, <1>3, <1>6, <1>8, <1>17, QuietStep DEF ExpireEmpty, Turn
<1>18. CASE Attempt(p)
  <2>1. IsOpen(p) /\ page[p].phase = "sealing" /\ page[p].seal # 0
    BY <1>2, <1>18 DEF Attempt, In
  <2>2. /\ page'[p].text = page[p].text /\ page'[p].seal = page[p].seal
        /\ page'[p].phase = "sent" /\ \A q \in Pages \ {p} : page'[q] = page[q]
    BY <1>1, <1>2, <1>3, <1>18, <2>1 DEF Attempt, Page, Turn
  <2> QED
    BY <1>1, <1>2, <1>5, <1>8, <1>18, <2>1, <2>2, QuietStep DEF Attempt, Written
<1>19. CASE Answered(p)
  BY <1>1, <1>3, <1>5, <1>6, <1>8, <1>19, QuietStep DEF Answered, Finish, Turn
<1>20. CASE Unanswered(p)
  <2>1. IsOpen(p) /\ page[p].phase = "sent" /\ page[p].seal # 0
    BY <1>2, <1>20 DEF Unanswered, In
  <2>2. CASE Again(p)
    <3>0. Turn(p, [page[p] EXCEPT !.phase = "sealing", !.tries = @ + 1]) /\ page[p] \in Page
      BY <1>2, <1>20, <2>2 DEF Unanswered
    <3>1. /\ page'[p].text = page[p].text /\ page'[p].seal = page[p].seal
          /\ page'[p].phase = "sealing" /\ \A q \in Pages \ {p} : page'[q] = page[q]
      <4>1. /\ page'[p] = [page[p] EXCEPT !.phase = "sealing", !.tries = @ + 1]
            /\ \A q \in Pages \ {p} : page'[q] = page[q]
        BY <1>1, <1>3, <3>0 DEF Turn
      <4> QED
        BY <3>0, <4>1 DEF Page
    <3> QED
      BY <1>1, <1>2, <1>5, <1>8, <1>20, <2>1, <2>2, <3>1, QuietStep DEF Unanswered, Written
  <2>3. CASE ~Again(p)
    BY <1>1, <1>3, <1>5, <1>6, <1>8, <1>20, <2>3, QuietStep DEF Unanswered, Finish, Turn
  <2> QED
    BY <2>2, <2>3
<1>21. CASE Refused(p)
  BY <1>1, <1>3, <1>5, <1>6, <1>8, <1>21, QuietStep DEF Refused, Finish, Turn
<1> QED
  BY <1>9, <1>10, <1>11, <1>12, <1>13, <1>14, <1>15, <1>16, <1>17, <1>18, <1>19, <1>20, <1>21
     DEF Step

LEMMA NextOneText == OneTextInv /\ [Next]_vars => OneTextInv'
<1> SUFFICES ASSUME OneTextInv, [Next]_vars PROVE OneTextInv'
  OBVIOUS
<1>1. TypeOK'
  BY NextTypeOK DEF OneTextInv
<1>2. CASE \E p \in DOMAIN scenario.home : Step(p)
  BY <1>1, <1>2, StepOneText
<1>3. CASE page' = page /\ draft' = draft /\ sent' = sent /\ (Fault \/ count' = count)
  <2>1. Finals' = Finals /\ PhasesOK'
    BY <1>3 DEF Finals, Held, OnDevice, Written, IsOpen, PhasesOK, OneTextInv
  <2>2. count'.seals = count.seals
    BY <1>3 DEF Fault, Faulted, OneTextInv, TypeOK, Counts
  <2> QED
    BY <1>1, <1>3, <2>1, <2>2 DEF OneTextInv
<1> QED
  BY <1>2, <1>3 DEF Next, SealArrives, GoOffline, GoOnline, vars

\* No two sends of one seal differ in their text, whatever is reloaded,
\* retried, shared between pages or not stored in between.
THEOREM SealedTextIsFixed == Spec => []OneTextPerSeal
<1>1. OneTextInv => OneTextPerSeal
  BY DEF OneTextInv, OneTextPerSeal, Finals, Held, TypeOK
<1> QED
  BY <1>1, InitOneText, NextOneText, PTL DEF Spec

-----------------------------------------------------------------------------
(* Nothing written is lost                                                 *)

OnDeviceIsKept(b) ==
  kept[b] # Nothing => draft[b].text = kept[b].text /\ draft[b].seal = kept[b].seal

\* A write that costs nothing else leaves on the device what the page shows.
LEMMA WriteKeeps ==
  ASSUME TypeOK, NEW p \in DOMAIN scenario.home, NEW pg, NEW c, Write(p, pg, c), lost' = {}
  PROVE  /\ lost = {} /\ ~Overwrites(p)
         /\ draft'[Home(p)].text = pg.text /\ draft'[Home(p)].seal = pg.seal
         /\ \A b \in Browsers \ {Home(p)} : draft'[b] = draft[b]
<1>1. Home(p) \in Browsers
  BY PageOfScenario
<1>2. lost' = (IF Overwrites(p) THEN lost \cup {"other tab"} ELSE lost)
  BY DEF Write
<1>3. draft' = [draft EXCEPT ![Home(p)] = [text |-> pg.text, seal |-> pg.seal, at |-> c.now]]
  BY DEF Write
<1> QED
  BY <1>1, <1>2, <1>3 DEF TypeOK

\* A step that writes no draft costs no writing, and a page that removes one
\* does so when the server has its seal, or when nothing was written here.
LEMMA StepKeepsWriting ==
  ASSUME OneTextInv, WritingKept, NEW p \in DOMAIN scenario.home, Step(p),
         record' = None, lost' = {}
  PROVE  \A b \in Browsers : OnDeviceIsKept(b)'
<1>1. TypeOK /\ p \in Pages /\ Home(p) \in Browsers
  BY PageOfScenario DEF OneTextInv
<1>2. IsOpen(p) => /\ page[p] \in Page /\ Written(p) \in Writing
                   /\ page[p].phase \in {"sealing", "sent"} <=> page[p].seal # 0
  BY <1>1, OpenPageType DEF OneTextInv, PhasesOK
<1>3. record = None
  BY <1>1 DEF Step, Open, Close, StartAnswered, Type, Save, Push, Fetched, Confirm,
     ExpireEmpty, Attempt, Answered, Unanswered, Refused, Serve, Recorded, server
<1>4. lost = {} => \A b \in Browsers : OnDeviceIsKept(b)
  BY <1>3 DEF WritingKept, OnDeviceIsKept
<1>5. lost = {} /\ draft' = draft /\ kept' = kept => \A b \in Browsers : OnDeviceIsKept(b)'
  BY <1>4 DEF OnDeviceIsKept
<1>6. CASE Type(p)
  <2> DEFINE n == count.texts + 1
  <2> DEFINE pg == [page[p] EXCEPT !.text = n, !.typed = TRUE]
  <2>1. page[p] \in Page
    BY <1>2, <1>6 DEF Type
  <2>2. Write(p, pg, [count EXCEPT !.texts = n, !.now = @ + 1])
    BY <1>6 DEF Type
  <2>3. pg.text = n /\ pg.seal = page[p].seal
    BY <2>1 DEF Page
  <2>4. kept' = [kept EXCEPT ![Home(p)] = [text |-> n, seal |-> page[p].seal]]
    BY <1>6 DEF Type
  <2> HIDE DEF pg
  <2> QED
    <3>1. /\ lost = {} /\ draft'[Home(p)].text = n /\ draft'[Home(p)].seal = page[p].seal
          /\ \A b \in Browsers \ {Home(p)} : draft'[b] = draft[b]
      BY <1>1, <2>2, <2>3, WriteKeeps
    <3>2. /\ kept'[Home(p)] = [text |-> n, seal |-> page[p].seal]
          /\ \A b \in Browsers \ {Home(p)} : kept'[b] = kept[b]
      BY <1>1, <2>4 DEF TypeOK
    <3> QED
      BY <1>4, <3>1, <3>2 DEF OnDeviceIsKept
<1>7. CASE Save(p)
  <2>1. IsOpen(p) /\ Write(p, page[p], count) /\ kept' = kept
    BY <1>7 DEF Save
  <2>2. kept[Home(p)] \in {Nothing, Written(p)}
    BY <2>1, WriteKeeps, <1>1 DEF Overwrites
  <2> QED
    BY <1>1, <1>4, <2>1, <2>2, WriteKeeps DEF OnDeviceIsKept, Written
<1>8. CASE Confirm(p)
  <2> DEFINE u == IF page[p].seal = 0 THEN count.seals + 1 ELSE page[p].seal
  <2> DEFINE pg == [page[p] EXCEPT !.phase = "sealing", !.seal = u]
  <2>1. page[p] \in Page
    BY <1>2, <1>8 DEF Confirm
  <2>2. Write(p, pg, [count EXCEPT !.seals = IF u > @ THEN u ELSE @])
    BY <1>8 DEF Confirm
  <2>3. pg.text = page[p].text /\ pg.seal = u
    BY <2>1 DEF Page
  <2>4. kept' = [kept EXCEPT ![Home(p)] = [text |-> pg.text, seal |-> u]]
    BY <1>8 DEF Confirm
  <2> HIDE DEF pg, u
  <2> QED
    <3>1. /\ lost = {} /\ draft'[Home(p)].text = pg.text /\ draft'[Home(p)].seal = u
          /\ \A b \in Browsers \ {Home(p)} : draft'[b] = draft[b]
      BY <1>1, <2>2, <2>3, WriteKeeps
    <3>2. /\ kept'[Home(p)] = [text |-> pg.text, seal |-> u]
          /\ \A b \in Browsers \ {Home(p)} : kept'[b] = kept[b]
      BY <1>1, <2>4 DEF TypeOK
    <3> QED
      BY <1>4, <3>1, <3>2 DEF OnDeviceIsKept
<1>9. CASE ExpireEmpty(p)
  <2>1. lost = {} /\ ~Overwrites(p)
    BY <1>9 DEF ExpireEmpty
  <2>2. page[p].text = 0 /\ page[p].seal = 0
    BY <1>2, <1>9 DEF ExpireEmpty, In
  <2>3. kept'[Home(p)] = Nothing
    BY <1>9, <2>1, <2>2 DEF ExpireEmpty, Overwrites, Written, Nothing
  <2>4. \A b \in Browsers \ {Home(p)} : draft'[b] = draft[b] /\ kept'[b] = kept[b]
    BY <1>1, <1>9 DEF ExpireEmpty, Remove, TypeOK
  <2> QED
    BY <1>4, <2>1, <2>3, <2>4 DEF OnDeviceIsKept
<1>10. CASE Answered(p)
  <2>1. Recorded(Written(p)) # None => FALSE
    BY <1>10 DEF Answered, Serve
  <2> QED
    BY <1>2, <1>3, <1>10, <2>1, NoneAssumption DEF Answered, Recorded
<1>11. CASE Fetched(p)
  <2>1. lost' = lost \cup {"resumed"} \/ lost' = lost
    BY <1>11 DEF Fetched
  <2>2. lost = {}
    BY <2>1
  <2> QED
    BY <1>5, <1>11, <2>2 DEF Fetched
<1>12. CASE Unanswered(p) \/ Refused(p)
  BY <1>5, <1>12 DEF Unanswered, Refused, Finish, Clears
<1>13. CASE Open(p) \/ Close(p) \/ StartAnswered(p) \/ Push(p) \/ Attempt(p)
  BY <1>5, <1>13 DEF Open, Close, StartAnswered, Push, Attempt
<1> QED
  BY <1>6, <1>7, <1>8, <1>9, <1>10, <1>11, <1>12, <1>13 DEF Step

LEMMA NextKeepsWriting == OneTextInv /\ WritingKept /\ [Next]_vars => WritingKept'
<1> SUFFICES ASSUME OneTextInv, WritingKept, [Next]_vars, record' = None, lost' = {}
             PROVE  \A b \in Browsers : OnDeviceIsKept(b)'
  BY DEF WritingKept, OnDeviceIsKept
<1>1. CASE \E p \in DOMAIN scenario.home : Step(p)
  BY <1>1, StepKeepsWriting
<1>2. CASE /\ draft' = draft /\ kept' = kept /\ lost' = lost
           /\ record' = record \/ (\E m : Serve(m))
  <2>1. ASSUME NEW m, Serve(m) PROVE record = None
    BY <2>1 DEF Serve, Recorded
  <2>2. record = None
    BY <1>2, <2>1
  <2> QED
    BY <1>2, <2>2 DEF WritingKept, OnDeviceIsKept
<1> QED
  BY <1>1, <1>2 DEF Next, SealArrives, GoOffline, GoOnline, vars, server

\* Until the exam is recorded each browser holds what was last written or
\* made final on it, through every crash, reload and failed seal, unless its
\* storage failed, another of its pages wrote, or a newer copy was resumed.
THEOREM NothingWrittenIsLost == Spec => []WritingKept
<1>1. Init => WritingKept
  BY DEF Init, WritingKept
<1> QED
  BY <1>1, InitOneText, NextOneText, NextKeepsWriting, PTL DEF Spec

-----------------------------------------------------------------------------
(* What was typed stays.                                                    *)

\* An open page's text changes only with what the student types.
LEMMA StepTypingStands ==
  ASSUME TypeOK, NEW q \in DOMAIN scenario.home, Step(q), NEW p \in Pages,
         IsOpen(p), page[p].typed, page'[p] # Closed
  PROVE  page'[p].text = page[p].text \/ count'.texts > count.texts
<1> DEFINE pg == page[q]
<1>1. \A new : Turn(q, new) => page' = [page EXCEPT ![q] = new]
  BY DEF Turn
<1>2. CASE Type(q)
  <2> DEFINE c == [count EXCEPT !.texts = count.texts + 1, !.now = @ + 1]
  <2>1. count' = c \/ count' = Faulted(c)
    BY <1>2 DEF Type, Write
  <2>2. count \in Counts /\ count.texts \in Nat
    <3>1. count \in Counts
      BY DEF TypeOK
    <3>2. count.texts \in 0..Bound
      BY <3>1 DEF Counts, Texts
    <3> QED
      BY <3>1, <3>2
  <2>3. count'.texts = count.texts + 1
    BY <2>1, <2>2 DEF Faulted, Counts
  <2> QED
    BY <2>2, <2>3
<1>3. CASE p # q /\ ~Type(q)
  <2>1. page'[p] = page[p]
    BY <1>1, <1>3 DEF Step, Open, Close, StartAnswered, Save, Push, Fetched, Confirm,
       ExpireEmpty, Attempt, Answered, Unanswered, Refused, Finish, TypeOK
  <2> QED
    BY <2>1
<1>4. CASE p = q /\ ~Type(q)
  <2>1. pg \in Page /\ pg.typed /\ DOMAIN page = Pages /\ page'[q] # Closed
    BY <1>4 DEF TypeOK, IsOpen
  <2>2. \A new : Turn(q, new) => page'[q] = new
    BY <1>4, <2>1 DEF Turn
  <2>3. CASE Save(q)
    BY <1>4, <2>3 DEF Save
  <2>4. CASE Close(q) \/ ExpireEmpty(q) \/ Answered(q) \/ Refused(q)
    BY <2>1, <2>2, <2>4 DEF Close, ExpireEmpty, Answered, Refused, Finish
  <2>5. CASE Open(q)
    BY <1>4, <2>5 DEF Open
  <2>6. CASE StartAnswered(q)
    BY <1>4, <2>1, <2>2, <2>6 DEF StartAnswered, Page
  <2>7. CASE Push(q)
    BY <1>4, <2>1, <2>2, <2>7 DEF Push, Page
  <2>8. CASE Fetched(q)
    BY <1>4, <2>1, <2>2, <2>8 DEF Fetched, Untouched, Page
  <2>9. CASE Confirm(q)
    BY <1>4, <2>1, <2>2, <2>9 DEF Confirm, Page
  <2>10. CASE Attempt(q)
    BY <1>4, <2>1, <2>2, <2>10 DEF Attempt, Page
  <2>11. CASE Unanswered(q)
    BY <1>4, <2>1, <2>2, <2>11 DEF Unanswered, Finish, Page
  <2> QED
    BY <1>4, <2>3, <2>4, <2>5, <2>6, <2>7, <2>8, <2>9, <2>10, <2>11 DEF Step
<1> QED
  BY <1>2, <1>3, <1>4

\* The server's draft, asked for before, never replaces what was typed since.
THEOREM TypedTextStands == Spec => TypingStands
<1> DEFINE Stands ==
      \A p \in Pages :
        IsOpen(p) /\ page[p].typed /\ page'[p] # Closed =>
          page'[p].text = page[p].text \/ count'.texts > count.texts
<1>1. TypeOK /\ [Next]_vars => [Stands]_vars
  <2> SUFFICES ASSUME TypeOK, Next PROVE Stands
    OBVIOUS
  <2>1. CASE \E q \in DOMAIN scenario.home : Step(q)
    BY <2>1, StepTypingStands
  <2>2. CASE UNCHANGED page
    BY <2>2
  <2> QED
    BY <2>1, <2>2 DEF Next, SealArrives, GoOffline, GoOnline
<1>2. Spec => [][Next]_vars
  BY PTL DEF Spec
<1> QED
  BY <1>1, <1>2, BookletTypeCorrect, PTL DEF TypingStands
=============================================================================
