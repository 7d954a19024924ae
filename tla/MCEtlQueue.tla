------------------------------ MODULE MCEtlQueue ------------------------------
(* Instances of EtlQueue for TLC. *)
EXTENDS EtlQueue

CONSTANTS wa, wb, c1, j1, j2, p1, point1, point2, total1

\* Every job is for the same project.
OneProject == [j \in Jobs |-> p1]

\* Two points of the same day, then a total.
SameDay == [r \in Rows |-> IF r \in Totals THEN 2 ELSE 1]

=============================================================================
