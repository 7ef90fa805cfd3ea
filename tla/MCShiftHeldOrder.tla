--------------------------- MODULE MCShiftHeldOrder ---------------------------
(* A shift with three sales, or two shifts of one cashier with one, beside *)
(* a held order; three requests in flight.                                 *)
EXTENDS ShiftHeldOrder, TLC

CONSTANTS s1, s2, ann, o1, o2, x1, x2, x3, p1, p2, p3

MCSession == {s1, s2}
MCUser == {ann}
MCOwner == [s \in MCSession |-> ann]
MCOneOrder == {o1}
MCSale == {x1, x2, x3}
MCMaxSales == <<3, 1>>
MCProc == {p1, p2, p3}

\* The violation run: one shift, two sales.
MCOneSession == {s1}
MCOneOwner == [s \in MCOneSession |-> ann]
MCTwoSales == {x1, x2}
MCTwoAtMost == <<2>>
===============================================================================
