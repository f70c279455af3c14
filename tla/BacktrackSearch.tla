--------------------------- MODULE BacktrackSearch ---------------------------
(***************************************************************************)
(* Schedule::schedule_setup of zeitplan-libs: the backtracking search for  *)
(* a conflict-free timetable.  nth counts from 1 as in the code, and       *)
(* state[n] is the code's state[n - 1]: how many windows of the n-th       *)
(* meeting to skip.  A pass over the meetings (the closure of .all) is     *)
(* split into one action for each meeting it visits.                       *)
(***************************************************************************)
EXTENDS Placements

CONSTANTS
    Problems,     \* the sequences of meetings a call can be given
    Limits,       \* the budgets a call can be given
    NoLimit,      \* the budget None
    MaxDropped,   \* bound: meetings that setup left out of the problem
    Parallel,     \* whether the rayon feature is on
    UsizeMax      \* bound: the largest count_iter

ASSUME ProblemsAssumption == Problems \subseteq Seq(Meeting)
ASSUME LimitsAssumption == NoLimit \notin Nat /\ Limits \subseteq Nat \cup {NoLimit}
ASSUME BoundsAssumption == MaxDropped \in Nat /\ UsizeMax \in Nat
ASSUME ParallelAssumption == Parallel \in BOOLEAN

VARIABLES
    meetings,     \* the problem, in the order it is searched
    len,          \* how many meetings the request had, those left out included
    limit,        \* count: how many checks to make before giving up
    nth,          \* the meeting being placed
    countIter,    \* checks made
    state,        \* windows to skip, per meeting
    solution,     \* the tree of times given away, with the meeting that has them
    lastKey,      \* the same times in the order they were given away
    pc,           \* "head" of the loop, "looked" at the flag, "pass" over the meetings,
                  \* "exhausted", "done"
    result,       \* what was returned
    shouldStop    \* the flag shared by the searches of one call

vars == <<meetings, len, limit, nth, countIter, state, solution, lastKey, pc,
          result, shouldStop>>
input == <<meetings, len, limit>>

NoOutcome == [kind |-> "None"]
-----------------------------------------------------------------------------
\* Where every search starts.
Begin ==
    /\ nth = 1
    /\ countIter = 0
    /\ state = [n \in 1 .. len |-> 0]
    /\ solution = {}
    /\ lastKey = <<>>
    /\ pc = "head"
    /\ result = NoOutcome
    /\ shouldStop = FALSE

Init ==
    /\ meetings \in Problems
    /\ len \in Len(meetings) .. Len(meetings) + MaxDropped
    /\ limit \in Limits
    /\ Begin

\* Mutant: only an identical time counts as taken.
ContainsSameKey(w) == \E e \in solution : w = e.key

\* BTreeMap::contains_key.
ContainsKey(w) == \E e \in solution : InternalCmp(w, e.key) = "Equal"

\* Mutant: resumes one window too late.
FreeSkippingOne(n) ==
    {i \in state[n] + 1 .. Len(meetings[n].windows) - 1 : ~ContainsKey(Window(meetings, n, i))}

\* Windows of meeting n that the search has not yet tried and that are free.
Free(n) ==
    {i \in state[n] .. Len(meetings[n].windows) - 1 : ~ContainsKey(Window(meetings, n, i))}

\* find stops at the first of them.
FirstFree(n) == {i \in Free(n) : \A j \in Free(n) : i <= j}

ObserveStop ==
    /\ pc = "head"
    /\ shouldStop
    /\ result' = [kind |-> "Interrupted"]
    /\ pc' = "done"
    /\ UNCHANGED <<input, nth, countIter, state, solution, lastKey, shouldStop>>

\* Another search may store true between this load and the next.
PassFlag ==
    /\ pc = "head"
    /\ ~shouldStop
    /\ pc' = "looked"
    /\ UNCHANGED <<input, nth, countIter, state, solution, lastKey, result, shouldStop>>

GiveUp ==
    /\ pc = "looked"
    /\ limit = countIter
    /\ result' = [kind |-> "NoSolutionWithinIteration", limit |-> limit]
    /\ pc' = "done"
    /\ UNCHANGED <<input, nth, countIter, state, solution, lastKey, shouldStop>>

BeginPass ==
    /\ pc = "looked"
    /\ limit # countIter
    /\ countIter < UsizeMax
    /\ countIter' = countIter + 1
    /\ pc' = "pass"
    /\ UNCHANGED <<input, nth, state, solution, lastKey, result, shouldStop>>

\* The closure finds a free window for the meeting at hand.
Place ==
    /\ pc = "pass"
    /\ nth <= Len(meetings)
    /\ \E i \in FirstFree(nth) :
          LET time == Window(meetings, nth, i)
          IN  /\ state' = [state EXCEPT ![nth] = i]
              /\ solution' = solution \cup {[key |-> time, id |-> meetings[nth].id]}
              /\ lastKey' = Append(lastKey, time)
    /\ nth' = nth + 1
    /\ UNCHANGED <<input, countIter, pc, result, shouldStop>>

\* Mutant: the time that is taken back stays in the tree.
WithoutNothing(key) == solution

\* BTreeMap::remove takes out the entry whose key compares Equal.
Without(key) == {e \in solution : InternalCmp(key, e.key) # "Equal"}

\* Mutant: the meeting that failed keeps its index.
RewoundKeepingIndex ==
    [n \in DOMAIN state |-> IF n = nth - 1 THEN state[n] + 1 ELSE state[n]]

\* Mutant: the meeting before tries the window it just gave back again.
RewoundInPlace ==
    [n \in DOMAIN state |-> IF n = nth THEN 0 ELSE state[n]]

\* The meeting that failed starts over, the one before moves on by one.
Rewound ==
    [n \in DOMAIN state |->
        CASE n = nth -> 0
          [] n = nth - 1 -> state[n] + 1
          [] OTHER -> state[n]]

\* No window is free: the pass ends, the meeting before gives its time back
\* and will go on from its next window.
Backtrack ==
    /\ pc = "pass"
    /\ nth <= Len(meetings)
    /\ Free(nth) = {}
    /\ state' = Rewound
    /\ IF lastKey = <<>>
       THEN UNCHANGED <<solution, lastKey>>
       ELSE /\ lastKey' = SubSeq(lastKey, 1, Len(lastKey) - 1)
            /\ solution' = Without(lastKey[Len(lastKey)])
    /\ nth' = nth - 1
    /\ pc' = IF nth = 1 THEN "exhausted" ELSE "head"
    /\ UNCHANGED <<input, countIter, result, shouldStop>>

\* Every meeting has a time.  into_iter yields the tree's entries.
ReportOk ==
    /\ pc = "pass"
    /\ nth > Len(meetings)
    /\ result' = [kind |-> "Ok", count |-> countIter, results |-> solution,
                  indices |-> state]
    /\ shouldStop' = (Parallel \/ shouldStop)
    /\ pc' = "done"
    /\ UNCHANGED <<input, nth, countIter, state, solution, lastKey>>

ReportNoSolution ==
    /\ pc = "exhausted"
    /\ result' = [kind |-> "NoSolution"]
    /\ shouldStop' = (Parallel \/ shouldStop)
    /\ pc' = "done"
    /\ UNCHANGED <<input, nth, countIter, state, solution, lastKey>>

\* Another search of the same call stores true.
OtherSearchDecides ==
    /\ Parallel
    /\ ~shouldStop
    /\ shouldStop' = TRUE
    /\ UNCHANGED <<input, nth, countIter, state, solution, lastKey, pc, result>>

Step ==
    \/ ObserveStop
    \/ PassFlag
    \/ GiveUp
    \/ BeginPass
    \/ Place
    \/ Backtrack
    \/ ReportOk
    \/ ReportNoSolution

Next == Step \/ OtherSearchDecides

Spec == Init /\ [][Next]_vars

\* The thread that runs the search is scheduled; nobody need stop it.
FairSpec == Spec /\ WF_vars(Step)
-----------------------------------------------------------------------------
(***************************************************************************)
(* Properties                                                              *)
(***************************************************************************)

Entry == [key : TimeRange, id : Ids]

Outcome ==
    {NoOutcome, [kind |-> "Interrupted"], [kind |-> "NoSolution"]}
        \cup [kind : {"NoSolutionWithinIteration"}, limit : Limits]
        \cup [kind : {"Ok"}, count : Nat, results : SUBSET Entry,
              indices : [1 .. len -> Nat]]

\* Every variable has the type the code gives it.
TypeOK ==
    /\ meetings \in Seq(Meeting)
    /\ len \in Nat /\ Len(meetings) <= len
    /\ limit \in Limits
    /\ nth \in 0 .. Len(meetings) + 1
    /\ countIter \in Nat
    /\ state \in [1 .. len -> Nat]
    /\ solution \subseteq Entry
    /\ lastKey \in Seq(TimeRange)
    /\ pc \in {"head", "looked", "pass", "exhausted", "done"}
    /\ result \in Outcome
    /\ shouldStop \in BOOLEAN

\* The tree and the stack hold the same times, one for each meeting before
\* nth, and no two of them share a slot.  The tree is searched with an order
\* in which overlapping ranges are equal, and times are taken out of it by
\* that order: were two keys ever to overlap, a backtrack could free the time
\* of another meeting.
TreeMatchesStack ==
    /\ nth > 0 => Len(lastKey) = nth - 1
    /\ solution = {[key |-> lastKey[n], id |-> meetings[n].id] : n \in DOMAIN lastKey}
    /\ \A m, n \in DOMAIN lastKey : m < n => ~Overlap(lastKey[m], lastKey[n])

\* The placement f agrees with the windows the search has fixed for the
\* meetings before n.
AgreesBefore(f, n) == \A m \in 1 .. n - 1 : f[m] = state[m]

\* The search has not yet passed f by.
Untried(f) ==
    /\ nth > 0
    /\ \/ /\ AgreesBefore(f, nth)
          /\ nth \in DOMAIN meetings => f[nth] >= state[nth]
       \/ \E n \in 1 .. nth - 1 : AgreesBefore(f, n) /\ f[n] > state[n]

\* No conflict-free placement is ever behind the search: not when a window is
\* skipped because it is taken, not when a meeting is given up and the one
\* before it moved on.
NoPlacementPassedBy == \A f \in Placements(meetings) : Untried(f)

\* f is tried before g: at the first meeting where they differ, f takes the
\* earlier window.
TriedBefore(f, g) ==
    \E n \in DOMAIN f \cap DOMAIN g :
        /\ \A m \in 1 .. n - 1 : f[m] = g[m]
        /\ f[n] < g[n]

Chosen == [n \in DOMAIN meetings |-> result.indices[n]]

\* The timetable returned is the first conflict-free one in the order of the
\* search, the indices returned name its windows, and the meetings that setup
\* left out have index 0: backtracking skips no placement and leaves no
\* remains of an abandoned one.
FirstFit ==
    result.kind = "Ok" =>
        /\ Chosen \in Placements(meetings)
        /\ result.results = Timetable(meetings, Chosen)
        /\ \A f \in Placements(meetings) : ~TriedBefore(f, Chosen)
        /\ \A n \in Len(meetings) + 1 .. len : result.indices[n] = 0

\* The partial placement under consideration.
Frontier == [n \in 1 .. (IF nth > len THEN len ELSE nth) |-> state[n]]

\* A search only moves forward: every step leaves the partial placement alone,
\* extends it or goes to a later one, so no placement is looked at twice.
SearchAdvances ==
    [][nth' > 0 => \/ TriedBefore(Frontier, Frontier')
                   \/ \A n \in DOMAIN Frontier : n \in DOMAIN Frontier' /\ Frontier'[n] = Frontier[n]
      ]_vars

\* A search returns, with or without a budget, and does not depend on another
\* search to stop it.
Terminates == <>(pc = "done")

\* How the control state, the indices and the result go together.
Bookkeeping ==
    /\ pc \in {"head", "looked", "pass"} => nth > 0
    /\ pc = "exhausted" => nth = 0
    /\ pc \in {"pass", "exhausted"} => countIter > 0
    /\ \A n \in 1 .. len : n > nth \/ n > Len(meetings) => state[n] = 0
    /\ \A n \in 1 .. nth - 1 :
          /\ n \in DOMAIN meetings
          /\ n \in DOMAIN lastKey
          /\ state[n] < Len(meetings[n].windows)
          /\ lastKey[n] = Window(meetings, n, state[n])
    /\ nth = 0 => lastKey = <<>>
    /\ pc # "done" <=> result.kind = "None"
    /\ result.kind = "Ok" =>
          /\ nth = Len(meetings) + 1
          /\ result.results = solution
          /\ result.indices = state

\* The inductive invariant.
IInv == TypeOK /\ TreeMatchesStack /\ Bookkeeping /\ NoPlacementPassedBy

\* The outcome as the caller's contract knows it.
Reported ==
    IF result.kind = "Ok"
    THEN [kind |-> "Ok", count |-> result.count, results |-> result.results]
    ELSE result

Contract == INSTANCE SearchContract WITH
    checks <- countIter, looked <- (pc = "looked"), outcome <- Reported

\* The search does what its contract promises: an answer is a conflict-free
\* timetable, "no solution" is said only when none exists, and the budget is
\* reported spent only when it is.
ImplementsContract == Contract!Spec
=============================================================================
