-------------------------- MODULE SittingPromise --------------------------
(***************************************************************************)
(* What the sitting routes promise, with the requests, threads, locks and  *)
(* store calls gone: a deadline is pinned once and forgotten only with the *)
(* exam; an exam's record holds one submission per student made under the  *)
(* one-sitting rule; an answer is given only about work already on record. *)
(***************************************************************************)
EXTENDS Naturals

CONSTANTS None, Exams, Students, Uuids, Owner

VARIABLES
  deadline,   \* [Exams \X Students -> Nat or None]
  work,       \* [Uuids -> {"none", "loose", "sitting"}]: how it was recorded
  confirmed,  \* the uuids whose client was told it is recorded
  refused     \* the uuids whose client was told of an earlier submission

promise == <<deadline, work, confirmed, refused>>

Recorded(u) == work[u] # "none"

Init ==
  /\ deadline = [k \in Exams \X Students |-> None]
  /\ work = [u \in Uuids |-> "none"]
  /\ confirmed = {} /\ refused = {}

Pin(k) ==
  /\ deadline[k] = None
  /\ deadline'[k] \in Nat
  /\ deadline' = [deadline EXCEPT ![k] = deadline'[k]]
  /\ UNCHANGED <<work, confirmed, refused>>

ForgetExam(e) ==
  /\ deadline' = [k \in Exams \X Students |-> IF k[1] = e THEN None ELSE deadline[k]]
  /\ UNCHANGED <<work, confirmed, refused>>

\* Under the one-sitting rule: the student's only such submission of the exam.
RecordSitting(u) ==
  /\ work[u] = "none"
  /\ \A v \in Uuids : Owner[v] = Owner[u] => work[v] # "sitting"
  /\ work' = [work EXCEPT ![u] = "sitting"]
  /\ UNCHANGED <<deadline, confirmed, refused>>

\* Outside it: an exam that is not stored, or that could not be read.
RecordLoose(u) ==
  /\ work[u] = "none"
  /\ work' = [work EXCEPT ![u] = "loose"]
  /\ UNCHANGED <<deadline, confirmed, refused>>

Confirm(u) ==
  /\ Recorded(u)
  /\ confirmed' = confirmed \cup {u}
  /\ UNCHANGED <<deadline, work, refused>>

Refuse(u) ==
  /\ \E v \in Uuids : Recorded(v) /\ Owner[v] = Owner[u]
  /\ refused' = refused \cup {u}
  /\ UNCHANGED <<deadline, work, confirmed>>

Next ==
  \/ \E k \in Exams \X Students : Pin(k)
  \/ \E e \in Exams : ForgetExam(e)
  \/ \E u \in Uuids : RecordSitting(u) \/ RecordLoose(u) \/ Confirm(u) \/ Refuse(u)

Spec == Init /\ [][Next]_promise
============================================================================
