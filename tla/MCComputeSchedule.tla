------------------------- MODULE MCComputeSchedule -------------------------
(* Requests in flight against each other and against changes of the tables. *)
EXTENDS ComputeSchedule, TLC

SomeOffers == {-1, 0, 2}

Symmetry == Permutations(Names) \cup Permutations(Requests)
=============================================================================
