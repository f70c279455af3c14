------------------------- MODULE MCAvailableCalendar -------------------------
(* Two requests and two calls at a time, two users one after the other. *)
EXTENDS AvailableCalendar, TLC

Symmetry == Permutations(Users) \cup Permutations(Requests) \cup Permutations(Calls)
=============================================================================
