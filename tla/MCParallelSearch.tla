--------------------------- MODULE MCParallelSearch ---------------------------
(***************************************************************************)
(* A solvable and an unsolvable problem, searched by a primary and up to   *)
(* two workers on two threads.                                             *)
(***************************************************************************)
EXTENDS ParallelSearch, TLC

At(a, b) == [start |-> a, end |-> b]

\* Two meetings with one timetable, and two meetings with none.
MCProblems == {
    <<[id |-> 1, windows |-> <<At(0, 0), At(1, 1)>>], [id |-> 2, windows |-> <<At(0, 0)>>]>>,
    <<[id |-> 1, windows |-> <<At(0, 1)>>], [id |-> 2, windows |-> <<At(1, 1)>>]>> }
MCIds == 1 .. 2
MCBudgets == {NoLimit, 0, 1, 2}
=============================================================================
