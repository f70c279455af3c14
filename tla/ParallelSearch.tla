--------------------------- MODULE ParallelSearch ---------------------------
(***************************************************************************)
(* Schedule::schedule_meetings with the rayon feature: one primary search  *)
(* with the caller's budget and a number of worker searches of shuffled    *)
(* meetings, run by the threads of a pool (par_bridge) until one of them   *)
(* has something to say (find_map_any).  A search is known here by its     *)
(* contract and by how many checks it takes to decide.                     *)
(***************************************************************************)
EXTENDS Placements

CONSTANTS
    Threads,       \* the threads of the pool
    Caller,        \* the one of them that is sure to take part
    Problems,      \* the meetings a call can be given
    Budgets,       \* what count and PER_THREAD can be
    NoLimit,       \* the budget None
    MaxShuffles,   \* bound: the largest NUM_SHUFFLES
    MaxCost        \* bound: the most checks a search takes to decide

ASSUME ThreadsAssumption == Caller \in Threads
ASSUME ProblemsAssumption == Problems \subseteq Seq(Meeting)
ASSUME BudgetsAssumption == NoLimit \notin Nat /\ Budgets \subseteq Nat \cup {NoLimit}
ASSUME BoundsAssumption == MaxShuffles \in Nat /\ MaxCost \in Nat \ {0}

VARIABLES
    meetings,     \* the problem
    count,        \* the caller's budget
    perThread,    \* the workers' budget
    numShuffles,  \* how many workers there are
    cost,         \* the number of the check in which each search decides
    next,         \* the first search the shared iterator has not handed out
    at,           \* what each thread is doing
    running,      \* which search it has
    checks,       \* checks made by each search
    outcome,      \* what schedule_setup returned for each search
    shouldStop,   \* the flag the searches share
    found,        \* the flag find_map_any stops the pool with
    kept,         \* the results the closure returned to find_map_any, per thread
    answer        \* what schedule_meetings returned

input == <<meetings, count, perThread, numShuffles, cost>>
vars == <<meetings, count, perThread, numShuffles, cost, next, at, running, checks,
          outcome, shouldStop, found, kept, answer>>

Primary == 0
Searches == 0 .. MaxShuffles

Pending == [kind |-> "None"]
Interrupted == [kind |-> "Interrupted"]
NoSolution == [kind |-> "NoSolution"]
WithinIteration(n) == [kind |-> "NoSolutionWithinIteration", limit |-> n]
Panic == [kind |-> "Panic"]
Decisive(r) == r.kind \in {"Ok", "NoSolution"}
-----------------------------------------------------------------------------
\* The first configuration of the shuffle iterator is the primary's own.
Init ==
    /\ meetings \in Problems
    /\ count \in Budgets
    /\ perThread \in Budgets
    /\ numShuffles \in 0 .. MaxShuffles
    /\ cost \in [Searches -> 1 .. MaxCost]
    /\ 1 \in Searches => cost[1] = cost[Primary]
    /\ next = Primary
    /\ at = [t \in Threads |-> IF t = Caller THEN "ready" ELSE "away"]
    /\ running = [t \in Threads |-> Primary]
    /\ checks = [s \in Searches |-> 0]
    /\ outcome = [s \in Searches |-> Pending]
    /\ shouldStop = FALSE
    /\ found = FALSE
    /\ kept = [t \in Threads |-> Pending]
    /\ answer = Pending

\* Workers make no more checks than the primary, nor than PER_THREAD.
Limit(s) ==
    CASE s = Primary \/ perThread = NoLimit -> count
      [] s # Primary /\ count = NoLimit -> perThread
      [] s # Primary /\ count # NoLimit /\ perThread # NoLimit ->
            IF count <= perThread THEN count ELSE perThread

\* Another thread of the pool steals a share of the iterator.
Join(t) ==
    /\ at[t] = "away"
    /\ at' = [at EXCEPT ![t] = "ready"]
    /\ UNCHANGED <<input, next, running, checks, outcome, shouldStop, found, kept, answer>>

\* The thread sees whether the pool is done before it asks for a search.
LookFull(t) ==
    /\ at[t] = "ready"
    /\ at' = [at EXCEPT ![t] = IF found THEN "left" ELSE "asking"]
    /\ UNCHANGED <<input, next, running, checks, outcome, shouldStop, found, kept, answer>>

\* The iterator, behind its lock, hands out the next search.
Pull(t) ==
    /\ at[t] = "asking"
    /\ IF next <= numShuffles
       THEN /\ at' = [at EXCEPT ![t] = "searching"]
            /\ running' = [running EXCEPT ![t] = next]
            /\ next' = next + 1
       ELSE /\ at' = [at EXCEPT ![t] = "left"]
            /\ UNCHANGED <<running, next>>
    /\ UNCHANGED <<input, checks, outcome, shouldStop, found, kept, answer>>

\* The search of thread t is at the head of its loop.
AtHead(t) == at[t] = "searching" /\ checks[running[t]] < cost[running[t]]

Return(t, r) ==
    /\ outcome' = [outcome EXCEPT ![running[t]] = r]
    /\ at' = [at EXCEPT ![t] = "returned"]

ObserveStop(t) ==
    /\ AtHead(t)
    /\ shouldStop
    /\ Return(t, Interrupted)
    /\ UNCHANGED <<input, next, running, checks, shouldStop, found, kept, answer>>

\* Another search may store true between this load and the next.
PassFlag(t) ==
    /\ AtHead(t)
    /\ ~shouldStop
    /\ at' = [at EXCEPT ![t] = "looked"]
    /\ UNCHANGED <<input, next, running, checks, outcome, shouldStop, found, kept, answer>>

\* Mutant: the budget is looked at before the flag.
GiveUpBeforeLooking(t) ==
    /\ AtHead(t)
    /\ Limit(running[t]) = checks[running[t]]
    /\ Return(t, WithinIteration(checks[running[t]]))
    /\ UNCHANGED <<input, next, running, checks, shouldStop, found, kept, answer>>

\* Mutant: a search that gives up stops the others.
GiveUpForAll(t) ==
    /\ at[t] = "looked"
    /\ Limit(running[t]) = checks[running[t]]
    /\ Return(t, WithinIteration(checks[running[t]]))
    /\ shouldStop' = TRUE
    /\ UNCHANGED <<input, next, running, checks, found, kept, answer>>

GiveUp(t) ==
    /\ at[t] = "looked"
    /\ Limit(running[t]) = checks[running[t]]
    /\ Return(t, WithinIteration(checks[running[t]]))
    /\ UNCHANGED <<input, next, running, checks, shouldStop, found, kept, answer>>

\* Mutant: a check is not counted.
CheckUncounted(t) ==
    /\ at[t] = "looked"
    /\ Limit(running[t]) # checks[running[t]]
    /\ at' = [at EXCEPT ![t] = "searching"]
    /\ UNCHANGED <<input, next, running, checks, outcome, shouldStop, found, kept, answer>>

Check(t) ==
    /\ at[t] = "looked"
    /\ Limit(running[t]) # checks[running[t]]
    /\ checks' = [checks EXCEPT ![running[t]] = @ + 1]
    /\ at' = [at EXCEPT ![t] = "searching"]
    /\ UNCHANGED <<input, next, running, outcome, shouldStop, found, kept, answer>>

\* A search that has decided stops the others.
FlagAfter(r) == Decisive(r) \/ shouldStop

\* The check that decides: a timetable, or the certainty that there is none.
Decide(t) ==
    /\ at[t] = "searching"
    /\ checks[running[t]] = cost[running[t]]
    /\ \E r \in IF Solvable(meetings)
                THEN {[kind |-> "Ok", count |-> checks[running[t]],
                       results |-> Timetable(meetings, f)] : f \in Placements(meetings)}
                ELSE {NoSolution} :
          /\ Return(t, r)
          /\ shouldStop' = FlagAfter(r)
    /\ UNCHANGED <<input, next, running, checks, found, kept, answer>>

\* Mutant: a worker that gave up speaks for the call.
PassesOnGivenUp(s) == outcome[s] # Interrupted

\* Mutant: only a timetable is worth passing on.
PassesOnOk(s) == outcome[s].kind = "Ok"

\* The closure turns what a search returned into Some or None: the primary
\* speaks unless it was interrupted, a worker only when it has decided.
PassesOn(s) ==
    IF s = Primary THEN outcome[s] # Interrupted ELSE Decisive(outcome[s])

Report(t) ==
    /\ at[t] = "returned"
    /\ IF PassesOn(running[t])
       THEN /\ kept' = [kept EXCEPT ![t] = outcome[running[t]]]
            /\ found' = TRUE
            /\ at' = [at EXCEPT ![t] = "left"]
       ELSE /\ at' = [at EXCEPT ![t] = "ready"]
            /\ UNCHANGED <<kept, found>>
    /\ UNCHANGED <<input, next, running, checks, outcome, shouldStop, answer>>

Kept == {kept[t] : t \in Threads} \ {Pending}

\* Everyone who joined has left: any of the results is the answer, and
\* unwrap panics if there is none.
Answer ==
    /\ answer = Pending
    /\ \A t \in Threads : at[t] \in {"away", "left"}
    /\ IF Kept = {} THEN answer' = Panic ELSE answer' \in Kept
    /\ UNCHANGED <<input, next, at, running, checks, outcome, shouldStop, found, kept>>

\* What a thread that takes part does on its own.
Work(t) ==
    \/ LookFull(t)
    \/ Pull(t)
    \/ ObserveStop(t)
    \/ PassFlag(t)
    \/ GiveUp(t)
    \/ Check(t)
    \/ Decide(t)
    \/ Report(t)

Next == Answer \/ \E t \in Threads : (answer = Pending /\ Join(t)) \/ Work(t)

Spec == Init /\ [][Next]_vars

\* The operating system runs the threads that take part; the pool need not
\* send any other.
FairSpec == Spec /\ WF_vars(Answer) /\ \A t \in Threads : WF_vars(Work(t))
-----------------------------------------------------------------------------
(***************************************************************************)
(* Properties                                                              *)
(***************************************************************************)

Decision ==
    {NoSolution} \cup [kind : {"Ok"}, count : Nat,
                       results : {Timetable(meetings, f) : f \in Placements(meetings)}]

Outcome == {Pending, Interrupted} \cup Decision \cup [kind : {"NoSolutionWithinIteration"}, limit : Nat]

\* Every variable has the type the code gives it.
TypeOK ==
    /\ meetings \in Problems
    /\ count \in Budgets /\ perThread \in Budgets
    /\ numShuffles \in 0 .. MaxShuffles
    /\ cost \in [Searches -> 1 .. MaxCost]
    /\ next \in 0 .. numShuffles + 1
    /\ at \in [Threads -> {"away", "ready", "asking", "searching", "looked", "returned", "left"}]
    /\ running \in [Threads -> Searches]
    /\ checks \in [Searches -> Nat]
    /\ outcome \in [Searches -> Outcome]
    /\ shouldStop \in BOOLEAN
    /\ found \in BOOLEAN
    /\ kept \in [Threads -> Outcome \ {Interrupted}]
    /\ answer \in (Outcome \ {Interrupted}) \cup {Panic}

\* schedule_meetings never unwraps a None: whoever interrupts the primary has
\* a result that reaches the caller.
UnwrapSafe == answer # Panic

\* What the caller is told is true: a timetable is a conflict-free one, there
\* is no solution only when there is none, and the budget that was spent is
\* the caller's, spent by the primary, and would not have sufficed.
AnswerSound ==
    /\ answer.kind = "Ok" => answer.results \in {Timetable(meetings, f) : f \in Placements(meetings)}
    /\ answer.kind = "NoSolution" => ~Solvable(meetings)
    /\ answer.kind = "NoSolutionWithinIteration" =>
          /\ answer.limit = count
          /\ checks[Primary] = count
          /\ cost[Primary] > count

\* A search stops early only because another one has decided, and that one's
\* decision is never lost on its way to the caller.
StopHasReason ==
    shouldStop =>
        \E s \in Searches :
            /\ Decisive(outcome[s])
            /\ \/ \E t \in Threads : at[t] = "returned" /\ running[t] = s
               \/ outcome[s] \in Kept

\* The pool comes to an end even if no other thread joins, also when the
\* primary gives up while workers are still searching.
Returns == <>(answer # Pending)

\* Search s has found the flag down, and has not yet acted on it.
LookedAt(s) == \E t \in Threads : at[t] = "looked" /\ running[t] = s

Contract(s) == INSTANCE SearchContract WITH
    limit <- Limit(s), checks <- checks[s], outcome <- outcome[s], Parallel <- TRUE,
    looked <- LookedAt(s)

\* Running in a pool, next to others, each search still keeps its contract.
EachKeepsContract ==
    /\ \A s \in Searches : Contract(s)!Init
    /\ [][\A s \in Searches : Contract(s)!Next \/ UNCHANGED Contract(s)!vars]_vars

\* The primary has looked at the flag for the last time, and will answer that its
\* budget is spent.
PastLastLook == LookedAt(Primary) /\ Limit(Primary) = checks[Primary]

\* A search that decides before the primary's last look at the flag decides the
\* call: the primary can no longer answer that its budget is spent.
DecisionReachesCaller ==
    shouldStop /\ outcome[Primary] = Pending /\ ~PastLastLook ~> Decisive(answer)
-----------------------------------------------------------------------------
(* The inductive invariant, in parts. *)

Searching(t) == at[t] \in {"searching", "looked"}

\* A search that was handed out has one thread until it has an outcome.
Assigned ==
    /\ at[Caller] # "away"
    /\ \A s \in Searches :
          /\ outcome[s] # Pending => s < next
          /\ s < next /\ outcome[s] = Pending =>
                \E t \in Threads : Searching(t) /\ running[t] = s
    /\ \A t \in Threads :
          /\ Searching(t) => running[t] < next /\ outcome[running[t]] = Pending
          /\ at[t] = "looked" => checks[running[t]] < cost[running[t]]
          /\ at[t] = "returned" => outcome[running[t]] # Pending
    /\ \A t, u \in Threads :
          Searching(t) /\ Searching(u) /\ running[t] = running[u] => t = u

\* What the closure will pass on is on its way or has arrived, and nothing
\* else arrives.
Delivered ==
    /\ \A s \in Searches :
          outcome[s] # Pending /\ PassesOn(s) =>
             \/ \E t \in Threads : at[t] = "returned" /\ running[t] = s
             \/ \E t \in Threads : kept[t] = outcome[s]
    /\ \A t \in Threads :
          kept[t] # Pending =>
             /\ at[t] = "left"
             /\ \E s \in Searches : outcome[s] = kept[t] /\ PassesOn(s)
    /\ found => \E t \in Threads : kept[t] # Pending
    /\ \A t \in Threads : at[t] = "left" => found \/ next > numShuffles

\* Every outcome has its reason.
Justified ==
    /\ shouldStop => \E s \in Searches : Decisive(outcome[s])
    /\ \A s \in Searches :
          /\ outcome[s] = Interrupted => shouldStop
          /\ outcome[s] = NoSolution => ~Solvable(meetings)
          /\ outcome[s].kind = "NoSolutionWithinIteration" =>
                /\ outcome[s].limit = checks[s]
                /\ Limit(s) = checks[s]
                /\ checks[s] < cost[s]

Answered == answer # Pending => \E t \in Threads : answer = kept[t]

IInv == TypeOK /\ Assigned /\ Delivered /\ Justified /\ Answered
=============================================================================
