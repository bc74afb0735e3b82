---------------------------- MODULE Formation ----------------------------
(***************************************************************************)
(* A student's formation pathway (store.py, routers/students.py, me.py):   *)
(* three sessions that staff open for a submission that diverges, and that *)
(* clear its review flag when the last is done.  Staff and the student     *)
(* advance it; each reads the row and writes the next step by its number.  *)
(***************************************************************************)
EXTENDS WorkspaceStore

Forming == {"formation", "advance", "session"}

\* get_formation_pathway: an open one, the last that was written, or else one
\* that is completed.
Found(s) ==
  IF OpenPathways(s) = {} THEN None
  ELSE CHOOSE p \in OpenPathways(s) : \A q \in OpenPathways(s) : path[q].at <= path[p].at

\* The student's dashboard opens a pathway when there has never been one.
Mine(t) ==
  /\ At(t, "mine")
  /\ \/ Go(t, IF PathwaysOf(th[t].who) = {} THEN "pathway" ELSE "reach") /\ UNCHANGED lost
     \/ MayFail /\ Go(t, "pathway") /\ lost' = lost \cup {"fault"}
  /\ UNCHANGED tables

\* What follows a pathway that is open.
AfterOpening(job) == IF job.req.op = "session" THEN [job EXCEPT !.pc = "reach"] ELSE Idle

HasOpen(s) == OpenPathways(s) # {}

\* open_formation_pathway returns the one that is open.  A read that fails
\* finds none.
ReadOpen(t) ==
  /\ At(t, "pathway")
  /\ \/ /\ IF HasOpen(th[t].who) THEN Set(t, AfterOpening(th[t]))
           ELSE Set(t, [th[t] EXCEPT !.pc = "newpath", !.fresh = TRUE])
        /\ UNCHANGED lost
     \/ MayFail /\ Go(t, "newpath") /\ lost' = lost \cup {"fault"}
  /\ UNCHANGED tables

\* An insert that fails is logged, and the request goes on without.
OpenPathway(t) ==
  LET s == th[t].who
  IN /\ At(t, "newpath")
     /\ \/ /\ PutPathway(s)
           /\ SetOver(t, AfterOpening(th[t]),
                      {o \in Others(t) : At(o, "newpath") /\ th[o].who = s})
           /\ lost' = IF th[t].fresh THEN lost ELSE lost \cup {"raced path"}
        \/ /\ MayFail /\ Set(t, AfterOpening(th[t])) /\ lost' = lost \cup {"fault"}
           /\ UNCHANGED path
     /\ UNCHANGED <<people, exam, want, park, course, roster>>

\* advance_formation_pathway: the row as it was read.
Reach(t) ==
  LET p == Found(th[t].who)
  IN /\ At(t, "reach")
     /\ IF p = None THEN Finish(t)
        ELSE Set(t, [th[t] EXCEPT !.pc = "step", !.doc = [id |-> p, step |-> path[p].step],
                                  !.fresh = TRUE])
     /\ UNCHANGED <<tables, lost>>

\* Mutant: the last session but one completes it.
LastButOne(step) == step >= FormationSteps - 1

Completes(step) == step >= FormationSteps

\* The next step is written on that row, if it is still there.
StepOn(t) ==
  LET p == th[t].doc.id
      step == IF th[t].doc.step < FormationSteps THEN th[t].doc.step + 1 ELSE FormationSteps
      stands == path[p] # None
  IN /\ At(t, "step")
     /\ path' = IF stands THEN [path EXCEPT ![p] = Stepped(@, step, Completes(step))] ELSE path
     /\ SetOver(t, Idle, {o \in Others(t) : At(o, "step") /\ th[o].doc.id = p})
     /\ lost' = IF th[t].fresh \/ ~stands THEN lost ELSE lost \cup {"stale path"}
     /\ UNCHANGED <<people, exam, want, park, course, roster>>

FormationStep(t) == Mine(t) \/ ReadOpen(t) \/ OpenPathway(t) \/ Reach(t) \/ StepOn(t)
=============================================================================
