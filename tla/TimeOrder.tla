------------------------------ MODULE TimeOrder ------------------------------
(***************************************************************************)
(* Inclusive time ranges of zeitplan-libs, and the order in which the      *)
(* search keeps the ranges it has already given away.                      *)
(***************************************************************************)
EXTENDS Integers

\* A range that TimeRange::new or a validated request can hold.
TimeRange == {r \in [start : Int, end : Int] : r.start <= r.end}

\* TimeRange::new and InternalTimeRange::new: bounds in the wrong order are
\* swapped, never refused.
Ranged(a, b) ==
    IF b < a THEN [start |-> b, end |-> a] ELSE [start |-> a, end |-> b]

\* Ord for InternalTimeRange.  Ranges that share a slot are "Equal", which is
\* what lets the solution tree answer "is this time taken?" with contains_key.
InternalCmp(a, b) ==
    IF a.start < b.start /\ a.end < b.start THEN "Less"
    ELSE IF a.start > b.start /\ a.start > b.end THEN "Greater"
    ELSE "Equal"

\* What the order is meant to decide, in terms of slots.
Overlap(a, b) == a.start <= b.end /\ b.start <= a.end
=============================================================================
