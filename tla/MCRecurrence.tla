----------------------------- MODULE MCRecurrence -----------------------------
(***************************************************************************)
(* Recurrence on a calendar of five short months, with three zones.        *)
(***************************************************************************)
EXTENDS Recurrence

(* Months of 4, 2, 3, 4 and 2 days: two in a row without a day 4, one        *)
(* without a day 3, one with the day again after them.                       *)
MCFirstDay == <<1, 5, 7, 10, 14, 16>>

(* Wall time d of a zone without changes is at instant 10 d.  The second     *)
(* zone skips the wall time of day 8; the third has that of days 3 and 10    *)
(* twice.                                                                    *)
Plain == [d \in Days |-> {10 * d}]
Gap == [d \in Days |-> IF d = 8 THEN {} ELSE {10 * d}]
Overlap == [d \in Days |-> IF d \in {3, 10} THEN {10 * d, 10 * d + 1} ELSE {10 * d}]
MCZones == {Plain, Gap, Overlap}
=============================================================================
