---------------------------- MODULE MCTickScheduler ----------------------------
(* Instances of TickScheduler for TLC. *)
EXTENDS TickScheduler, TLC

CONSTANTS w1, w2, p1, p2, q1, s1, s2

\* Every schedule in one project, or one schedule in each of two projects.
OneProject == [s \in Schedules |-> p1]
TwoProjects == [s \in Schedules |-> IF s = s1 THEN p1 ELSE p2]

WorkerSymmetry == Permutations(Workers)
=============================================================================
