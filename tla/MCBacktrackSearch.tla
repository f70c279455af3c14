-------------------------- MODULE MCBacktrackSearch --------------------------
(***************************************************************************)
(* Small problems for the backtracking search: every sequence of up to     *)
(* three meetings over slots 0..3, and of four meetings that compete for   *)
(* three slots.                                                            *)
(***************************************************************************)
EXTENDS BacktrackSearch

\* The windows of duration d within [a, b].
Slide(a, b, d) ==
    [i \in 1 .. b - a - d + 2 |-> [start |-> a + i - 1, end |-> a + i + d - 2]]

WindowLists ==
    { <<>>,
      Slide(0, 2, 1), Slide(1, 2, 1), Slide(0, 1, 1),
      Slide(0, 3, 2), Slide(1, 3, 3),
      Slide(0, 0, 1) \o Slide(3, 3, 1) }

ScarceLists == {Slide(0, 2, 1), Slide(1, 2, 1), Slide(0, 3, 2)}

Identified(c) == [n \in DOMAIN c |-> [id |-> n, windows |-> c[n]]]

MCIds == 1 .. 4
MCProblems ==
    {Identified(c) : c \in UNION {[1 .. k -> WindowLists] : k \in 0 .. 3}}
        \cup {Identified(c) : c \in [1 .. 4 -> ScarceLists]}
MCLimits == {NoLimit, 0, 1, 4}
=============================================================================
