--------------------------- MODULE SearchContract ---------------------------
(***************************************************************************)
(* What a caller of one search may rely on, whatever algorithm runs it:    *)
(* an answer "Ok" is a conflict-free timetable, "NoSolution" is only given *)
(* when none exists, "NoSolutionWithinIteration" only when the budget of   *)
(* checks is spent, and "Interrupted" only once some search has decided.   *)
(***************************************************************************)
EXTENDS Placements

CONSTANTS
    NoLimit,      \* the budget None
    Parallel      \* the build with the rayon feature, where searches can stop one another

VARIABLES
    meetings,     \* the problem
    limit,        \* the budget of checks
    checks,       \* checks made so far
    looked,       \* the flag was down when the search last looked at it
    outcome,      \* NoOutcome until the search returns
    shouldStop    \* the flag the searches share

vars == <<meetings, limit, checks, looked, outcome, shouldStop>>

NoOutcome == [kind |-> "None"]
Interrupted == [kind |-> "Interrupted"]
NoSolution == [kind |-> "NoSolution"]
WithinIteration(n) == [kind |-> "NoSolutionWithinIteration", limit |-> n]

Init ==
    /\ checks = 0
    /\ looked = FALSE
    /\ outcome = NoOutcome
    /\ shouldStop = FALSE

Running == outcome = NoOutcome

\* Before each check a search looks at the flag; what others decide after that
\* it learns at its next look, if there is one.
Look ==
    /\ Running
    /\ ~looked /\ ~shouldStop
    /\ looked' = TRUE
    /\ UNCHANGED <<meetings, limit, checks, outcome, shouldStop>>

Check ==
    /\ Running
    /\ looked
    /\ limit # checks
    /\ checks' = checks + 1
    /\ looked' = FALSE
    /\ UNCHANGED <<meetings, limit, outcome, shouldStop>>

\* A decided search reports, and tells the other searches to stop.
Find ==
    /\ Running
    /\ checks > 0 /\ ~looked
    /\ outcome'.kind = "Ok"
    /\ \E f \in Placements(meetings) :
          outcome' = [kind |-> "Ok", count |-> checks, results |-> Timetable(meetings, f)]
    /\ shouldStop' = (Parallel \/ shouldStop)
    /\ UNCHANGED <<meetings, limit, checks, looked>>

Exhaust ==
    /\ Running
    /\ checks > 0 /\ ~looked
    /\ outcome' = NoSolution
    /\ ~Solvable(meetings)
    /\ shouldStop' = (Parallel \/ shouldStop)
    /\ UNCHANGED <<meetings, limit, checks, looked>>

GiveUp ==
    /\ Running
    /\ looked
    /\ limit = checks
    /\ outcome' = WithinIteration(limit)
    /\ looked' = FALSE
    /\ UNCHANGED <<meetings, limit, checks, shouldStop>>

Stop ==
    /\ Running
    /\ ~looked /\ shouldStop
    /\ outcome' = Interrupted
    /\ UNCHANGED <<meetings, limit, checks, looked, shouldStop>>

\* Another search of the same call has decided.
OtherDecides ==
    /\ Parallel
    /\ shouldStop' = TRUE
    /\ UNCHANGED <<meetings, limit, checks, looked, outcome>>

Next == Look \/ Check \/ Find \/ Exhaust \/ GiveUp \/ Stop \/ OtherDecides

Spec == Init /\ [][Next]_vars
=============================================================================
