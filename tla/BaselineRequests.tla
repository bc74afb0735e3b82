------------------------ MODULE BaselineRequests ------------------------
(***************************************************************************)
(* The registry of proctored-baseline requests (baseline_requests.py): a   *)
(* cache in the server's memory, written through to the baseline_requests  *)
(* table.  The cache is changed under _lock; the snapshots it produced are *)
(* persisted after the lock is released, one store call each, so two       *)
(* threads may persist theirs in the other order.                          *)
(*                                                                         *)
(* One student's requests: the registry is keyed by request, and what one  *)
(* student's handlers do never reads another student's entries.            *)
(***************************************************************************)
EXTENDS Naturals, Sequences, FiniteSets

CONSTANTS
  None,         \* no row, no object
  Ids,          \* external_request_ids the server may mint
  StoreFaults   \* may a store call fail?

ASSUME StoreFaultsAssumption == StoreFaults \in BOOLEAN

VARIABLES
  listed,    \* _registry and _by_student: the requests they hold
  obj,       \* the BaselineRequest objects; None before an id is minted
  row,       \* the baseline_requests table
  hydrated   \* _hydrated: the cache was loaded in this process

registry == <<listed, obj, row, hydrated>>

\* link: it carries the magic link; dated: its expires_at is known.
Request ==
  [ status : {"pending", "completed", "expired", "failed"},
    link : BOOLEAN, dated : BOOLEAN ]

ASSUME NoObjectAssumption == None \notin Request

Unsent == [status |-> "pending", link |-> FALSE, dated |-> FALSE]

RegistryTypeOK ==
  /\ listed \subseteq Ids
  /\ obj \in [Ids -> Request \cup {None}]
  /\ row \in [Ids -> Request \cup {None}]
  /\ hydrated \in BOOLEAN
  /\ \A a \in listed : obj[a] # None

\* The history begins at the start of a process, which may find requests of
\* the one before it in the table.
RegistryInit ==
  /\ row \in [Ids -> {None, [status |-> "pending", link |-> TRUE, dated |-> TRUE]}]
  /\ obj = row
  /\ listed = {}
  /\ hydrated = FALSE

-----------------------------------------------------------------------------
(* What an operation finds under _lock.  The first one of a process loads  *)
(* the table; a load that fails leaves the cache empty and is not retried. *)

Loads == IF StoreFaults /\ ~hydrated THEN BOOLEAN ELSE {TRUE}

Listed(loads) ==
  IF hydrated THEN listed
  ELSE IF loads THEN {a \in Ids : row[a] # None} ELSE {}

Objects ==
  IF hydrated THEN obj
  ELSE [a \in Ids |-> IF row[a] # None THEN row[a] ELSE obj[a]]

Pending(loads) == {a \in Listed(loads) : Objects[a].status = "pending"}

SetStatus(ids, status) ==
  [a \in Ids |-> IF a \in ids THEN [Objects[a] EXCEPT !.status = status]
                              ELSE Objects[a]]

SetCache(ids, objects) ==
  hydrated' = TRUE /\ listed' = ids /\ obj' = objects

\* Mutant: a new object is recorded in place of the one that is listed.
RecordCopy(a, request, loads) ==
  SetCache(Listed(loads) \cup {a}, [Objects EXCEPT ![a] = [request EXCEPT !.status = "pending"]])

\* record: a is in the cache, as the object the caller holds.
Record(a, request, loads) ==
  SetCache(Listed(loads) \cup {a}, [Objects EXCEPT ![a] = request])

\* mark_completed_for_student, mark_failed, the expiry in list_pending
Settle(ids, status, loads) == SetCache(Listed(loads), SetStatus(ids, status))

\* Mutant: erasure forgets the cache.
KeepStudent(loads) == SetCache(Listed(loads), Objects)

\* Mutant: the requests are dropped and stay listed for the student.
DropObjects(loads) == SetCache(Listed(loads), [a \in Ids |-> None])

\* purge_student
PurgeStudent(loads) == SetCache({}, Objects)

Snapshots(ids, objects) == {[id |-> a, request |-> objects[a]] : a \in ids}

\* Mutant: the upsert updates the status column and not the data.
PersistStatus(s) ==
  row' = [row EXCEPT ![s.id] = IF @ = None THEN s.request
                               ELSE [@ EXCEPT !.status = s.request.status]]

\* put_baseline_request
PersistSnapshot(s) == row' = [row EXCEPT ![s.id] = s.request]

\* The process restarts: the objects are only remembered as minted ids.
ForgetCache == hydrated' = FALSE /\ listed' = {} /\ UNCHANGED <<obj, row>>
=============================================================================
