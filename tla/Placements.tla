----------------------------- MODULE Placements -----------------------------
(***************************************************************************)
(* What a solution of a scheduling problem is, independently of how it is  *)
(* searched for.  A problem is a sequence of meetings, each with the       *)
(* sequence of windows (candidate times) it may take.                      *)
(***************************************************************************)
EXTENDS TimeOrder, Sequences

CONSTANT Ids

Meeting == [id : Ids, windows : Seq(TimeRange)]

\* The i-th window of meeting n, counted from 0 as the code's indices are.
Window(ms, n, i) == ms[n].windows[i + 1]

WindowIndices(ms) == UNION {0 .. Len(ms[n].windows) - 1 : n \in DOMAIN ms}

\* One window for every meeting, no two of them sharing a slot.
Placements(ms) ==
    {f \in [DOMAIN ms -> WindowIndices(ms)] :
        /\ \A n \in DOMAIN ms : f[n] < Len(ms[n].windows)
        /\ \A m, n \in DOMAIN ms :
              m < n => ~Overlap(Window(ms, m, f[m]), Window(ms, n, f[n]))}

Solvable(ms) == Placements(ms) # {}

\* The schedule a placement stands for: when each meeting takes place.
Timetable(ms, f) ==
    {[key |-> Window(ms, n, f[n]), id |-> ms[n].id] : n \in DOMAIN ms}
=============================================================================
