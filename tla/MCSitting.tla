----------------------------- MODULE MCSitting -----------------------------
(***************************************************************************)
(* Small instances of Sitting for TLC: the exam rows a teacher may store,  *)
(* the booklets' uuids and the symmetry of the request threads.            *)
(***************************************************************************)
EXTENDS Sitting, TLC

CONSTANTS e1, s1, u1, u2, history

\* One booklet of a student, or two (two tabs).
OneTab == u1 :> <<e1, s1>>
TwoTabs == u1 :> <<e1, s1>> @@ u2 :> <<e1, s1>>

Row(status, opens, closes, phone, course) ==
  [ status |-> status, opens |-> opens, closes |-> closes, timed |-> TRUE,
    duration |-> 1, phone |-> phone, course |-> course ]

\* Always open: what matters is who seals what, in which order.
AlwaysOpen == { Row("LIVE", None, None, FALSE, None) }
NoPatches == { <<>> }

\* A window whose ends a teacher moves while students start and seal.
Windows == { Row("LIVE", opens, closes, FALSE, None) : opens \in {1, None}, closes \in {2, 3} }
WindowPatches == { [opens |-> None], [closes |-> 2] }

\* An exam of one course, drafted, published or closed, with or without phones.
Gates ==
  { Row(status, None, None, phone, history) : status \in Statuses, phone \in BOOLEAN }
GatePatches == { [status |-> "LIVE"], [status |-> "CLOSED"], [phone |-> TRUE] }

ThreadSymmetry == Permutations(Threads)
============================================================================
