------------------------- MODULE MCBaseline -------------------------
(* Baseline on a small instance: one attestation, one shared paper, a      *)
(* proctored and a take-home exam.                                         *)
EXTENDS Baseline, TLC

CONSTANTS t1, t2, w1, w2, w3, k1, p1, q1

TwoThreads == {t1, t2}
ThreadSymmetry == Permutations(TwoThreads)
SharedText == [p \in {p1} |-> w1]

ByStudent(asks, texts, via) ==
  [op |-> "upload", texts |-> texts, asks |-> asks, staff |-> FALSE,
   token |-> k1, keyed |-> via = "single", via |-> via]
SelfUpload(x) ==
  [op |-> "upload", texts |-> <<x>>, asks |-> "proctored", staff |-> FALSE,
   token |-> None, keyed |-> FALSE, via |-> "single"]
FromCanvas(x) ==
  [op |-> "upload", texts |-> <<x>>, asks |-> "canvas", staff |-> TRUE,
   token |-> None, keyed |-> FALSE, via |-> "canvas"]

UploadCalls ==
  { ByStudent("proctored", <<w2>>, "single"), ByStudent("proctored", <<w1, w2>>, "batch"),
    ByStudent("verified", <<w1, w2>>, "batch"), SelfUpload(w1), FromCanvas(w2) }
PaperCalls == [op : {"share", "paper", "decline"}, paper : {p1}]
ExamCalls ==
  { [op |-> "approve", texts |-> <<w3>>, bulk |-> FALSE],
    [op |-> "approve", texts |-> <<w2, w3>>, bulk |-> TRUE],
    [op |-> "remove", texts |-> <<w2>>] }
EraseCalls == [op : {"erase"}, bluebook : BOOLEAN]
RequestCalls == {[op |-> "ask", id |-> q1], [op |-> "poll"]}

AllCalls == UploadCalls \cup PaperCalls \cup ExamCalls \cup EraseCalls \cup RequestCalls
=============================================================================
