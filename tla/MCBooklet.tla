------------------------- MODULE MCBooklet -------------------------
(* Booklet with a page, two pages of one browser, and two browsers. *)
EXTENDS Booklet

CONSTANTS p1, p2, b1, b2

OnePage     == [p \in {p1} |-> b1]
OneBrowser  == [p \in {p1, p2} |-> b1]
TwoBrowsers == [p \in {p1, p2} |-> IF p = p1 THEN b1 ELSE b2]

History(home, texts, seals, time, faults) ==
  [home |-> home, texts |-> texts, seals |-> seals, time |-> time, faults |-> faults]

AllHistories ==
  { History(OnePage, 2, 2, 3, 3),
    History(OneBrowser, 1, 2, 1, 1), History(OneBrowser, 1, 1, 1, 2),
    History(OneBrowser, 2, 1, 2, 1), History(TwoBrowsers, 2, 2, 3, 1) }
=============================================================================
