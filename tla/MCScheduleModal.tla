--------------------------- MODULE MCScheduleModal ---------------------------
(* Two requests at a time, of two users who come and go one after the other. *)
EXTENDS ScheduleModal, TLC

Symmetry == Permutations(Users) \cup Permutations(Requests)
=============================================================================
