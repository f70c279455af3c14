------------------------ MODULE ParallelSearchProofs ------------------------
(***************************************************************************)
(* Proofs about the parallel search, for every pool of threads, number of  *)
(* workers, problem and budget.                                            *)
(***************************************************************************)
EXTENDS ParallelSearch, TLAPS

-----------------------------------------------------------------------------
(* Outcomes. *)

\* The outcomes that matter differ, and a decision is neither a missing
\* outcome nor an interruption.
LEMMA OutcomesDiffer ==
    /\ Pending \in Outcome /\ Interrupted \in Outcome /\ NoSolution \in Outcome
    /\ Pending # Interrupted /\ Pending # NoSolution /\ Pending # Panic
    /\ Panic \notin Outcome
    /\ \A n \in Nat : /\ WithinIteration(n) \in Outcome
                      /\ WithinIteration(n) # Pending
                      /\ WithinIteration(n) # Interrupted
                      /\ WithinIteration(n) # NoSolution
                      /\ WithinIteration(n).kind = "NoSolutionWithinIteration"
                      /\ WithinIteration(n).limit = n
BY DEF Outcome, Decision, Pending, Interrupted, NoSolution, Panic, WithinIteration

\* A decision is none of the other outcomes.
LEMMA DecisionIsFinal ==
    ASSUME NEW r \in Decision
    PROVE  /\ r \in Outcome /\ Decisive(r)
           /\ r # Pending /\ r # Interrupted
           /\ r.kind # "NoSolutionWithinIteration"
BY DEF Outcome, Decision, Decisive, Pending, Interrupted, NoSolution

\* The closure passes on every decision.
LEMMA DecisionsPass ==
    ASSUME NEW s \in Searches, Decisive(outcome[s])
    PROVE  PassesOn(s) /\ outcome[s] # Pending
BY DEF PassesOn, Decisive, Interrupted, Pending

-----------------------------------------------------------------------------
(* The invariant is inductive. *)

\* It holds when the call starts.
LEMMA InitInv == Init => IInv
<1> SUFFICES ASSUME Init PROVE IInv
  OBVIOUS
<1> USE ThreadsAssumption, BudgetsAssumption, BoundsAssumption
<1>1. TypeOK
  <2>1. /\ numShuffles \in 0 .. MaxShuffles /\ next \in 0 .. numShuffles + 1
        /\ Primary \in Searches
    BY DEF Init, Searches, Primary
  <2>2. cost \in [Searches -> 1 .. MaxCost] /\ checks \in [Searches -> Nat]
    BY DEF Init
  <2>3. /\ running \in [Threads -> Searches] /\ outcome \in [Searches -> Outcome]
        /\ kept \in [Threads -> Outcome \ {Interrupted}]
        /\ answer \in Outcome \ {Interrupted}
    BY <2>1, OutcomesDiffer DEF Init
  <2> QED
    BY <2>1, <2>2, <2>3 DEF Init, TypeOK
<1>2. Assigned
  BY DEF Init, Assigned, Searching, Searches, Primary
<1>3. Delivered
  BY DEF Init, Delivered, Searches, Primary
<1>4. Justified
  BY OutcomesDiffer DEF Init, Justified, Pending
<1>5. Answered
  BY DEF Init, Answered
<1> QED
  BY <1>1, <1>2, <1>3, <1>4, <1>5 DEF IInv

\* Moving a thread between away, ready, asking and left.
LEMMA MoveInv ==
    ASSUME IInv, NEW t \in Threads, Join(t) \/ LookFull(t)
    PROVE  IInv'
<1> USE ThreadsAssumption
<1> DEFINE place == at'[t]
<1>1. /\ at[t] \in {"away", "ready"} /\ place \in {"ready", "left", "asking"}
      /\ at' = [at EXCEPT ![t] = place]
      /\ place = "left" => found
      /\ UNCHANGED <<meetings, count, perThread, numShuffles, cost, next, running, checks,
                     outcome, shouldStop, found, kept, answer>>
  BY DEF IInv, TypeOK, Join, LookFull, input
<1> HIDE DEF place
<1>2. TypeOK'
  BY <1>1 DEF IInv, TypeOK, Outcome, Decision, Searches
<1>3. Assigned'
  BY <1>1 DEF IInv, TypeOK, Assigned, Searching, Searches
<1>4. Delivered'
  <2>0. TypeOK /\ Delivered
    BY DEF IInv
  <2>1. kept[t] = Pending
    BY <1>1, <2>0 DEF Delivered
  <2>2. /\ \A u \in Threads : u # t => at'[u] = at[u]
        /\ at'[t] = place /\ at[t] # "returned" /\ place # "returned"
    BY <1>1, <2>0 DEF TypeOK
  <2>3. \A u \in Threads : at'[u] = "left" => found \/ next > numShuffles
    BY <1>1, <2>0, <2>2 DEF Delivered
  <2>4. \A u \in Threads : kept[u] # Pending => at'[u] = "left"
    BY <2>0, <2>1, <2>2 DEF Delivered
  <2>5. \A u \in Threads : at[u] = "returned" <=> at'[u] = "returned"
    BY <2>2
  <2>6. \A s \in Searches : PassesOn(s)' <=> PassesOn(s)
    BY <1>1 DEF PassesOn, Decisive
  <2> QED
    BY <1>1, <2>0, <2>3, <2>4, <2>5, <2>6 DEF Delivered
<1>5. Justified' /\ Answered'
  BY <1>1 DEF IInv, Justified, Answered, Searches, Limit, Decisive
<1> QED
  BY <1>2, <1>3, <1>4, <1>5 DEF IInv

\* Handing out a search.
LEMMA PullInv ==
    ASSUME IInv, NEW t \in Threads, Pull(t)
    PROVE  IInv'
<1> USE ThreadsAssumption, BoundsAssumption
<1> USE DEF Pull, input
<1>0. TypeOK /\ Assigned /\ Delivered /\ at[t] = "asking"
  BY DEF IInv
<1>1. TypeOK'
  <2>1. CASE next <= numShuffles
    <3>1. next \in Searches /\ next' \in 0 .. numShuffles + 1
      BY <1>0, <2>1 DEF TypeOK, Searches
    <3>2. at' = [at EXCEPT ![t] = "searching"] /\ running' = [running EXCEPT ![t] = next]
      BY <2>1
    <3> QED
      BY <1>0, <3>1, <3>2 DEF TypeOK, Outcome, Decision
  <2>2. CASE ~(next <= numShuffles)
    BY <1>0, <2>2 DEF TypeOK, Outcome, Decision
  <2> QED
    BY <2>1, <2>2
<1>2. Assigned'
  <2>1. CASE next <= numShuffles
    <3>1. /\ next \in Searches /\ next' = next + 1 /\ outcome[next] = Pending
          /\ at' = [at EXCEPT ![t] = "searching"] /\ running' = [running EXCEPT ![t] = next]
          /\ outcome' = outcome
      BY <1>0, <2>1 DEF TypeOK, Assigned, Searches
    <3>2. \A u \in Threads : u # t => at'[u] = at[u] /\ running'[u] = running[u]
      BY <1>0, <3>1 DEF TypeOK
    <3>3. at'[t] = "searching" /\ running'[t] = next
      BY <1>0, <3>1 DEF TypeOK
    <3>4. \A s \in Searches : s < next' <=> s < next \/ s = next
      BY <1>0, <3>1 DEF TypeOK, Searches
    <3>5. \A u \in Threads : u # t /\ Searching(u) => running[u] < next /\ running[u] # next
      BY <1>0 DEF TypeOK, Assigned, Searches
    <3>6. running \in [Threads -> Searches]
      BY <1>0 DEF TypeOK
    <3> QED
      BY <1>0, <3>1, <3>2, <3>3, <3>4, <3>5, <3>6 DEF Assigned, Searching
  <2>2. CASE ~(next <= numShuffles)
    <3>1. /\ at' = [at EXCEPT ![t] = "left"] /\ UNCHANGED <<running, next, outcome>>
      BY <2>2
    <3>2. /\ at'[t] = "left" /\ at[t] = "asking"
          /\ \A u \in Threads : u # t => at'[u] = at[u]
      BY <1>0, <3>1 DEF TypeOK
    <3> QED
      BY <1>0, <3>1, <3>2 DEF Assigned, Searching
  <2> QED
    BY <2>1, <2>2
<1>3. Delivered'
  <2>1. kept[t] = Pending
    BY <1>0 DEF Delivered
  <2>2. /\ \A u \in Threads : u # t => at'[u] = at[u] /\ running'[u] = running[u]
        /\ at'[t] # "returned"
        /\ at'[t] = "left" => next' > numShuffles
        /\ next' >= next
    BY <1>0 DEF TypeOK
  <2>3. \A s \in Searches : PassesOn(s)' <=> PassesOn(s)
    BY DEF PassesOn, Decisive
  <2>4. \A u \in Threads : at'[u] = "left" => found \/ next' > numShuffles
    BY <1>0, <2>2 DEF TypeOK, Delivered
  <2>5. \A u \in Threads : kept[u] # Pending => at'[u] = "left"
    BY <1>0, <2>1, <2>2 DEF Delivered
  <2>6. ASSUME NEW s \in Searches, outcome[s] # Pending, PassesOn(s)
        PROVE  \/ \E u \in Threads : at'[u] = "returned" /\ running'[u] = s
               \/ \E u \in Threads : kept[u] = outcome[s]
    BY <1>0, <2>2, <2>6 DEF Delivered
  <2>7. UNCHANGED <<outcome, kept, found, numShuffles>>
    OBVIOUS
  <2> QED
    BY <1>0, <2>3, <2>4, <2>5, <2>6, <2>7 DEF Delivered
<1>4. Justified' /\ Answered'
  BY DEF IInv, Justified, Answered, Searches, Limit, Decisive
<1> QED
  BY <1>1, <1>2, <1>3, <1>4 DEF IInv

\* A search returns r, which its own state and the flag justify.
LEMMA ReturnInv ==
    ASSUME IInv, NEW t \in Threads, Searching(t),
           NEW r \in Outcome \ {Pending}, Return(t, r),
           shouldStop' \in BOOLEAN,
           UNCHANGED <<meetings, count, perThread, numShuffles, cost, next, running,
                       checks, found, kept, answer>>,
           shouldStop => shouldStop',
           shouldStop' => shouldStop \/ Decisive(r),
           r = Interrupted => shouldStop,
           r = NoSolution => ~Solvable(meetings),
           r.kind = "NoSolutionWithinIteration" =>
              /\ r.limit = checks[running[t]]
              /\ Limit(running[t]) = checks[running[t]]
              /\ checks[running[t]] < cost[running[t]]
    PROVE  IInv'
<1> USE ThreadsAssumption
<1> DEFINE s0 == running[t]
<1>0. TypeOK /\ Assigned /\ Delivered /\ Justified /\ s0 \in Searches
  BY DEF IInv, TypeOK
<1>1. /\ outcome'[s0] = r /\ outcome[s0] = Pending /\ s0 < next
      /\ \A s \in Searches : s # s0 => outcome'[s] = outcome[s]
      /\ at'[t] = "returned" /\ at[t] \notin {"returned", "left"}
      /\ \A u \in Threads : u # t => at'[u] = at[u]
  BY <1>0 DEF TypeOK, Assigned, Searching, Return
<1>2. \A u \in Threads : u # t /\ Searching(u) => running[u] # s0
  BY <1>0 DEF Assigned
<1>3. running \in [Threads -> Searches]
  BY <1>0 DEF TypeOK
<1> HIDE DEF s0
<1>4. TypeOK'
  <2>1. /\ at' = [at EXCEPT ![t] = "returned"]
        /\ outcome' = [outcome EXCEPT ![s0] = r]
    BY DEF Return, s0
  <2>2. outcome' \in [Searches -> Outcome] /\ Outcome' = Outcome
    BY <1>0, <2>1 DEF TypeOK, Outcome, Decision
  <2> QED
    BY <1>0, <2>1, <2>2 DEF TypeOK
<1>5. Assigned'
  <2>0. ~Searching(t)' /\ \A u \in Threads : u # t => (Searching(u)' <=> Searching(u))
    BY <1>1 DEF Searching
  <2>1. at'[Caller] # "away"
    BY <1>0, <1>1 DEF Assigned
  <2>2. ASSUME NEW s \in Searches
        PROVE  /\ outcome'[s] # Pending => s < next
               /\ s < next /\ outcome'[s] = Pending =>
                     \E u \in Threads : Searching(u)' /\ running[u] = s
    BY <1>0, <1>1, <1>3, <2>0 DEF Assigned, s0
  <2>3. ASSUME NEW u \in Threads
        PROVE  /\ Searching(u)' => running[u] < next /\ outcome'[running[u]] = Pending
               /\ at'[u] = "looked" => checks[running[u]] < cost[running[u]]
               /\ at'[u] = "returned" => outcome'[running[u]] # Pending
    BY <1>0, <1>1, <1>2, <1>3, <2>0 DEF Assigned, s0
  <2>4. \A u, v \in Threads :
           Searching(u)' /\ Searching(v)' /\ running[u] = running[v] => u = v
    BY <1>0, <2>0 DEF Assigned
  <2> QED
    BY <2>1, <2>2, <2>3, <2>4 DEF Assigned
<1>6. \A s \in Searches : s # s0 => (PassesOn(s)' <=> PassesOn(s))
  BY <1>1 DEF PassesOn, Decisive
<1>7. Delivered'
  <2>1. ASSUME NEW s \in Searches, outcome'[s] # Pending, PassesOn(s)'
        PROVE  \/ \E u \in Threads : at'[u] = "returned" /\ running[u] = s
               \/ \E u \in Threads : kept[u] = outcome'[s]
    <3>1. CASE s = s0
      BY <1>1, <3>1 DEF s0
    <3>2. CASE s # s0
      <4>1. outcome[s] # Pending /\ PassesOn(s) /\ outcome'[s] = outcome[s]
        BY <1>1, <1>6, <2>1, <3>2
      <4>2. \/ \E u \in Threads : at[u] = "returned" /\ running[u] = s
            \/ \E u \in Threads : kept[u] = outcome[s]
        BY <1>0, <4>1 DEF Delivered
      <4>3. \A u \in Threads : at[u] = "returned" => u # t
        BY <1>1
      <4> QED
        BY <1>1, <4>1, <4>2, <4>3
    <3> QED
      BY <3>1, <3>2
  <2>2. ASSUME NEW u \in Threads, kept[u] # Pending
        PROVE  /\ at'[u] = "left"
               /\ \E s \in Searches : outcome'[s] = kept[u] /\ PassesOn(s)'
    BY <1>0, <1>1, <1>6, <2>2 DEF Delivered
  <2>3. found' => \E u \in Threads : kept'[u] # Pending
    BY <1>0 DEF Delivered
  <2>4. \A u \in Threads : at'[u] = "left" => found \/ next > numShuffles
    BY <1>0, <1>1 DEF Delivered
  <2> QED
    BY <2>1, <2>2, <2>3, <2>4 DEF Delivered
<1>8. Justified'
  <2>1. shouldStop' => \E s \in Searches : Decisive(outcome'[s])
    <3>1. shouldStop => \E s \in Searches : Decisive(outcome[s]) /\ s # s0
      BY <1>0, <1>1 DEF Justified, Decisive, Pending
    <3> QED
      BY <1>0, <1>1, <3>1
  <2>2. ASSUME NEW s \in Searches
        PROVE  /\ outcome'[s] = Interrupted => shouldStop'
               /\ outcome'[s] = NoSolution => ~Solvable(meetings)
               /\ outcome'[s].kind = "NoSolutionWithinIteration" =>
                     /\ outcome'[s].limit = checks[s]
                     /\ Limit(s) = checks[s]
                     /\ checks[s] < cost[s]
    BY <1>0, <1>1 DEF Justified, s0
  <2> QED
    BY <2>1, <2>2 DEF Justified, Limit
<1>9. Answered'
  BY DEF IInv, Answered
<1> QED
  BY <1>4, <1>5, <1>7, <1>8, <1>9 DEF IInv

\* A search that looked at the flag, or counted a check against itself, goes on.
LEMMA CheckInv ==
    ASSUME IInv, NEW t \in Threads, PassFlag(t) \/ Check(t)
    PROVE  IInv'
<1> USE DEF PassFlag, Check, AtHead, input
<1>0. /\ TypeOK /\ Assigned /\ Delivered /\ Justified
      /\ running[t] \in Searches /\ outcome[running[t]] = Pending /\ Searching(t)
  BY DEF IInv, TypeOK, Assigned, Searching
<1>1. /\ UNCHANGED <<meetings, count, perThread, numShuffles, cost, next, running, outcome,
                     shouldStop, found, kept, answer>>
      /\ checks' \in [Searches -> Nat]
      /\ \A s \in Searches : s # running[t] => checks'[s] = checks[s]
      /\ \A u \in Threads : u # t => at'[u] = at[u]
      /\ at'[t] \in {"searching", "looked"} /\ at' = [at EXCEPT ![t] = at'[t]]
      /\ at'[t] = "looked" => checks'[running[t]] < cost[running[t]]
  BY <1>0 DEF TypeOK
<1>2. \A u \in Threads : /\ Searching(u)' <=> Searching(u)
                         /\ at'[u] = "returned" <=> at[u] = "returned"
                         /\ at'[u] = "away" <=> at[u] = "away"
                         /\ at'[u] = "left" <=> at[u] = "left"
  BY <1>0, <1>1 DEF Searching
<1>3. TypeOK'
  BY <1>0, <1>1 DEF TypeOK, Outcome, Decision
<1>4. Assigned'
  <2>1. ASSUME NEW u \in Threads, at'[u] = "looked"
        PROVE  checks'[running[u]] < cost[running[u]]
    <3>1. CASE u = t
      BY <1>1, <2>1, <3>1
    <3>2. CASE u # t
      <4>1. at[u] = "looked" /\ Searching(u) /\ running[u] # running[t] /\ running[u] \in Searches
        BY <1>0, <1>1, <2>1, <3>2 DEF Assigned, Searching, TypeOK
      <4> QED
        BY <1>0, <1>1, <4>1 DEF Assigned
    <3> QED
      BY <3>1, <3>2
  <2>2. /\ at'[Caller] # "away"
        /\ \A s \in Searches : s < next /\ outcome[s] = Pending =>
              \E u \in Threads : Searching(u)' /\ running[u] = s
    BY <1>0, <1>2, ThreadsAssumption DEF Assigned
  <2> QED
    BY <1>0, <1>1, <1>2, <2>1, <2>2 DEF Assigned
<1>5. Delivered'
  <2>1. \A s \in Searches : PassesOn(s)' <=> PassesOn(s)
    BY <1>1 DEF PassesOn, Decisive
  <2>2. ASSUME NEW s \in Searches, outcome[s] # Pending, PassesOn(s)
        PROVE  \/ \E u \in Threads : at'[u] = "returned" /\ running[u] = s
               \/ \E u \in Threads : kept[u] = outcome[s]
    BY <1>0, <1>2, <2>2 DEF Delivered
  <2> QED
    BY <1>0, <1>1, <1>2, <2>1, <2>2 DEF Delivered
<1>6. Justified'
  <2>1. outcome[running[t]].kind # "NoSolutionWithinIteration"
    BY <1>0 DEF Pending
  <2> QED
    BY <1>0, <1>1, <2>1 DEF Justified, Limit, Decisive
<1>7. Answered'
  BY <1>1 DEF IInv, Answered
<1> QED
  BY <1>3, <1>4, <1>5, <1>6, <1>7 DEF IInv

\* What the deciding check returns is a decision.
LEMMA DecideType ==
    ASSUME IInv, NEW t \in Threads, Decide(t)
    PROVE  \E r \in Decision :
              /\ r = NoSolution <=> ~Solvable(meetings)
              /\ r.kind = "Ok" <=> Solvable(meetings)
              /\ r.kind = "Ok" => \E f \in Placements(meetings) :
                    r = [kind |-> "Ok", count |-> checks[running[t]],
                         results |-> Timetable(meetings, f)]
              /\ Return(t, r)
              /\ shouldStop' = TRUE
<1>1. checks[running[t]] \in Nat
  BY DEF IInv, TypeOK
<1>2. CASE Solvable(meetings)
  <2>1. PICK f \in Placements(meetings) :
           LET r == [kind |-> "Ok", count |-> checks[running[t]], results |-> Timetable(meetings, f)]
           IN  Return(t, r) /\ shouldStop' = FlagAfter(r)
    BY <1>2 DEF Decide
  <2> DEFINE r == [kind |-> "Ok", count |-> checks[running[t]], results |-> Timetable(meetings, f)]
  <2>2. r \in Decision /\ r # NoSolution /\ r.kind = "Ok"
    BY <1>1 DEF Decision, NoSolution
  <2>3. Return(t, r) /\ shouldStop' = TRUE
    BY <2>1 DEF FlagAfter, Decisive
  <2> HIDE DEF r
  <2> QED
    BY <1>2, <2>2, <2>3 DEF r
<1>3. CASE ~Solvable(meetings)
  <2>1. Return(t, NoSolution) /\ shouldStop' = FlagAfter(NoSolution)
    BY <1>3 DEF Decide
  <2>3. FlagAfter(NoSolution) = TRUE
    BY DEF FlagAfter, Decisive, NoSolution
  <2>2. NoSolution \in Decision /\ NoSolution.kind # "Ok"
    BY DEF Decision, NoSolution
  <2> QED
    BY <1>3, <2>1, <2>2, <2>3
<1> QED
  BY <1>2, <1>3

\* The three ways in which a search returns.
LEMMA ConcludeInv ==
    ASSUME IInv, NEW t \in Threads, ObserveStop(t) \/ GiveUp(t) \/ Decide(t)
    PROVE  IInv'
<1>0. /\ running[t] \in Searches /\ checks[running[t]] \in Nat /\ cost[running[t]] \in Nat
      /\ shouldStop \in BOOLEAN
  BY BoundsAssumption DEF IInv, TypeOK
<1>1. CASE ObserveStop(t)
  <2>1. Interrupted.kind # "NoSolutionWithinIteration" /\ Interrupted # NoSolution
    BY DEF Interrupted, NoSolution
  <2> QED
    BY <1>0, <1>1, <2>1, OutcomesDiffer, ReturnInv DEF ObserveStop, AtHead, Searching, input
<1>2. CASE GiveUp(t)
  <2>1. Searching(t) /\ checks[running[t]] < cost[running[t]]
    BY <1>2 DEF GiveUp, Searching, IInv, Assigned
  <2> QED
    BY <1>0, <1>2, <2>1, OutcomesDiffer, ReturnInv DEF GiveUp, input
<1>3. CASE Decide(t)
  <2>1. PICK r \in Decision : /\ r = NoSolution <=> ~Solvable(meetings)
                              /\ Return(t, r) /\ shouldStop' = TRUE
    BY <1>3, DecideType
  <2>2. /\ r \in Outcome \ {Pending} /\ r # Interrupted /\ Decisive(r)
        /\ r.kind # "NoSolutionWithinIteration"
    BY DecisionIsFinal
  <2>3. /\ Searching(t)
        /\ UNCHANGED <<meetings, count, perThread, numShuffles, cost, next, running,
                       checks, found, kept, answer>>
    BY <1>3 DEF Decide, Searching, input
  <2> QED
    BY <1>0, <2>1, <2>2, <2>3, ReturnInv
<1> QED
  BY <1>1, <1>2, <1>3

\* A result reaches find_map_any, or is dropped by the closure.
LEMMA ReportInv ==
    ASSUME IInv, NEW t \in Threads, Report(t)
    PROVE  IInv'
<1> USE ThreadsAssumption
<1> USE DEF Report, input
<1> DEFINE s0 == running[t]
<1>0. /\ TypeOK /\ Assigned /\ Delivered /\ Justified /\ Answered
      /\ s0 \in Searches /\ at[t] = "returned" /\ outcome[s0] # Pending
      /\ kept[t] = Pending
  BY DEF IInv, TypeOK, Assigned, Delivered
<1>1. \A s \in Searches : PassesOn(s)' <=> PassesOn(s)
  BY DEF PassesOn, Decisive
<1>2. Assigned'
  <2>1. \A u \in Threads : /\ Searching(u)' <=> Searching(u)
                           /\ at'[u] = "looked" => at[u] = "looked"
                           /\ at'[u] = "returned" => at[u] = "returned"
                           /\ at'[u] = "away" => at[u] = "away"
    BY <1>0 DEF TypeOK, Searching
  <2> QED
    BY <1>0, <2>1 DEF Assigned
<1>3. Justified'
  BY <1>0 DEF Justified, Limit, Decisive
<1>4. CASE PassesOn(s0)
  <2>1. /\ kept' = [kept EXCEPT ![t] = outcome[s0]] /\ found' = TRUE
        /\ at' = [at EXCEPT ![t] = "left"]
    BY <1>4
  <2>2. outcome[s0] \in Outcome \ {Interrupted}
    <3>1. outcome[s0] # Interrupted
      BY <1>4 DEF PassesOn, Decisive, Interrupted
    <3> QED
      BY <1>0, <3>1 DEF TypeOK
  <2>3. TypeOK'
    BY <1>0, <2>1, <2>2 DEF TypeOK, Outcome, Decision
  <2>4. /\ kept'[t] = outcome[s0] /\ at'[t] = "left"
        /\ \A u \in Threads : u # t => kept'[u] = kept[u] /\ at'[u] = at[u]
    BY <1>0, <2>1 DEF TypeOK
  <2>5. Delivered'
    <3>1. ASSUME NEW s \in Searches, outcome[s] # Pending, PassesOn(s)
          PROVE  \/ \E u \in Threads : at'[u] = "returned" /\ running[u] = s
                 \/ \E u \in Threads : kept'[u] = outcome[s]
      <4>1. CASE s = s0
        BY <2>4, <4>1
      <4>2. CASE s # s0
        BY <1>0, <2>4, <3>1, <4>2 DEF Delivered
      <4> QED
        BY <4>1, <4>2
    <3>2. ASSUME NEW u \in Threads, kept'[u] # Pending
          PROVE  at'[u] = "left" /\ \E s \in Searches : outcome[s] = kept'[u] /\ PassesOn(s)
      BY <1>0, <1>4, <2>4, <3>2 DEF Delivered
    <3>3. kept'[t] # Pending
      BY <1>0, <2>4
    <3>4. outcome' = outcome /\ running' = running
      OBVIOUS
    <3> QED
      BY <1>1, <2>1, <3>1, <3>2, <3>3, <3>4 DEF Delivered
  <2>6. Answered'
    <3>1. answer # Pending => \E u \in Threads : answer = kept[u] /\ u # t
      BY <1>0 DEF Answered
    <3> QED
      BY <2>4, <3>1 DEF Answered
  <2> QED
    BY <1>2, <1>3, <2>3, <2>5, <2>6 DEF IInv
<1>5. CASE ~PassesOn(s0)
  <2>1. UNCHANGED <<kept, found, answer, outcome, running>> /\ at' = [at EXCEPT ![t] = "ready"]
    BY <1>5
  <2>2. TypeOK'
    BY <1>0, <2>1 DEF TypeOK, Outcome, Decision
  <2>3. at'[t] = "ready" /\ \A u \in Threads : u # t => at'[u] = at[u]
    BY <1>0, <2>1 DEF TypeOK
  <2>4. Delivered'
    <3>1. ASSUME NEW s \in Searches, outcome[s] # Pending, PassesOn(s)
          PROVE  \/ \E u \in Threads : at'[u] = "returned" /\ running[u] = s
                 \/ \E u \in Threads : kept[u] = outcome[s]
      BY <1>0, <1>5, <2>3, <3>1 DEF Delivered
    <3>2. ASSUME NEW u \in Threads, kept[u] # Pending
          PROVE  at'[u] = "left" /\ \E s \in Searches : outcome[s] = kept[u] /\ PassesOn(s)
      BY <1>0, <2>3, <3>2 DEF Delivered
    <3>3. \A u \in Threads : at'[u] = "left" => found \/ next > numShuffles
      BY <1>0, <2>3 DEF Delivered
    <3> QED
      BY <1>0, <1>1, <2>1, <3>1, <3>2, <3>3 DEF Delivered
  <2>5. Answered'
    BY <1>0, <2>1 DEF Answered
  <2> QED
    BY <1>2, <1>3, <2>2, <2>4, <2>5 DEF IInv
<1> QED
  BY <1>4, <1>5

\* When everyone has left, there is a result: unwrap has something to unwrap.
LEMMA SomethingIsKept ==
    ASSUME IInv, \A t \in Threads : at[t] \in {"away", "left"}
    PROVE  Kept # {}
<1> USE ThreadsAssumption
<1>0. TypeOK /\ Assigned /\ Delivered /\ Justified
  BY DEF IInv
<1>1. at[Caller] = "left"
  BY <1>0 DEF Assigned
<1>2. CASE found
  BY <1>0, <1>2 DEF Delivered, Kept
<1>3. CASE next > numShuffles
  <2>1. Primary \in Searches /\ Primary < next
    BY <1>0, <1>3, BoundsAssumption DEF TypeOK, Searches, Primary
  <2>2. outcome[Primary] # Pending
    BY <1>0, <2>1 DEF Assigned, Searching
  <2>3. \A s \in Searches : outcome[s] # Pending /\ PassesOn(s) =>
            \E u \in Threads : kept[u] = outcome[s]
    BY <1>0 DEF Delivered
  <2>4. CASE PassesOn(Primary)
    BY <2>1, <2>2, <2>3, <2>4 DEF Kept
  <2>5. CASE ~PassesOn(Primary)
    <3>1. PICK s \in Searches : Decisive(outcome[s])
      BY <1>0, <2>1, <2>5 DEF PassesOn, Justified
    <3> QED
      BY <2>3, <3>1, DecisionsPass DEF Kept
  <2> QED
    BY <2>4, <2>5
<1> QED
  BY <1>0, <1>1, <1>2, <1>3 DEF Delivered

\* The caller gets its answer.
LEMMA AnswerInv ==
    ASSUME IInv, Answer
    PROVE  IInv'
<1> USE DEF Answer, input
<1>1. answer' \in Kept
  BY SomethingIsKept
<1>2. PICK t \in Threads : answer' = kept[t]
  BY <1>1 DEF Kept
<1>3. TypeOK'
  BY <1>2 DEF IInv, TypeOK, Outcome, Decision
<1>4. Assigned' /\ Delivered' /\ Justified'
  BY DEF IInv, Assigned, Searching, Delivered, Justified, PassesOn, Decisive, Limit
<1>5. Answered'
  BY <1>2 DEF Answered
<1> QED
  BY <1>3, <1>4, <1>5 DEF IInv

\* Every step preserves the invariant.
LEMMA NextInv == IInv /\ [Next]_vars => IInv'
<1> SUFFICES ASSUME IInv, [Next]_vars PROVE IInv'
  OBVIOUS
<1>1. CASE Answer
  BY <1>1, AnswerInv
<1>2. ASSUME NEW t \in Threads, Join(t) \/ Work(t) PROVE IInv'
  BY <1>2, MoveInv, PullInv, CheckInv, ConcludeInv, ReportInv DEF Work
<1>3. CASE UNCHANGED vars
  BY <1>3 DEF IInv, TypeOK, Assigned, Searching, Delivered, Justified, Answered, PassesOn, Decisive,
              Limit, Outcome, Decision, vars, input
<1> QED
  BY <1>1, <1>2, <1>3 DEF Next

\* The invariant holds throughout every call.
THEOREM InductiveInvariant == Spec => []IInv
BY InitInv, NextInv, PTL DEF Spec

-----------------------------------------------------------------------------
(* What follows from it. *)

\* The type invariant.
THEOREM TypeCorrect == Spec => []TypeOK
<1>1. IInv => TypeOK
  BY DEF IInv
<1> QED
  BY <1>1, InductiveInvariant, PTL

\* An answer is a search's outcome that the closure passed on.
LEMMA AnswerIsOutcome ==
    ASSUME IInv, answer # Pending
    PROVE  \E s \in Searches : answer = outcome[s] /\ PassesOn(s)
BY DEF IInv, Answered, Delivered

\* schedule_meetings never panics in unwrap, whatever the threads do.
THEOREM NoUnwrapOfNone == Spec => []UnwrapSafe
<1>1. IInv => UnwrapSafe
  <2> SUFFICES ASSUME IInv, answer = Panic PROVE FALSE
    BY DEF UnwrapSafe
  <2>1. PICK s \in Searches : answer = outcome[s]
    BY AnswerIsOutcome, OutcomesDiffer
  <2> QED
    BY <2>1, OutcomesDiffer DEF IInv, TypeOK
<1> QED
  BY <1>1, InductiveInvariant, PTL

\* What schedule_meetings answers is true of the problem and the budget.
THEOREM AnswersAreSound == Spec => []AnswerSound
<1>1. IInv => AnswerSound
  <2> SUFFICES ASSUME IInv, answer # Pending PROVE AnswerSound
    BY DEF AnswerSound, Pending
  <2>1. PICK s \in Searches : answer = outcome[s] /\ PassesOn(s)
    BY AnswerIsOutcome
  <2>2. answer \in Outcome /\ Justified
    BY <2>1 DEF IInv, TypeOK
  <2>3. answer.kind = "Ok" =>
           answer.results \in {Timetable(meetings, f) : f \in Placements(meetings)}
    BY <2>2 DEF Outcome, Decision, Pending, Interrupted, NoSolution
  <2>4. answer.kind = "NoSolution" => ~Solvable(meetings)
    <3>1. answer.kind = "NoSolution" => answer = NoSolution
      BY <2>2 DEF Outcome, Decision, Pending, Interrupted, NoSolution
    <3> QED
      BY <2>1, <2>2, <3>1 DEF Justified
  <2>5. ASSUME answer.kind = "NoSolutionWithinIteration"
        PROVE  answer.limit = count /\ checks[Primary] = count /\ cost[Primary] > count
    <3>1. s = Primary
      BY <2>1, <2>5 DEF PassesOn, Decisive
    <3>2. Limit(s) = count
      BY <3>1 DEF Limit
    <3> QED
      BY <2>1, <2>2, <2>5, <3>1, <3>2 DEF Justified
  <2> QED
    BY <2>3, <2>4, <2>5 DEF AnswerSound
<1> QED
  BY <1>1, InductiveInvariant, PTL

\* The flag that stops the searches is set for a decision that is not lost.
THEOREM StopsHaveReason == Spec => []StopHasReason
<1>1. IInv => StopHasReason
  <2> SUFFICES ASSUME IInv, shouldStop PROVE StopHasReason
    BY DEF StopHasReason
  <2>1. PICK s \in Searches : Decisive(outcome[s])
    BY DEF IInv, Justified
  <2>2. PassesOn(s) /\ outcome[s] # Pending
    BY <2>1, DecisionsPass
  <2>3. \/ \E u \in Threads : at[u] = "returned" /\ running[u] = s
        \/ \E u \in Threads : kept[u] = outcome[s]
    BY <2>2 DEF IInv, Delivered
  <2> QED
    BY <2>1, <2>2, <2>3 DEF StopHasReason, Kept
<1> QED
  BY <1>1, InductiveInvariant, PTL

-----------------------------------------------------------------------------
(* Each search keeps its contract. *)

\* A search starts as its contract says.
LEMMA ContractStarts ==
    ASSUME Init, NEW s \in Searches
    PROVE  Contract(s)!Init
BY DEF Init, Contract!Init, Contract!NoOutcome, Pending, LookedAt

\* The contract speaks of the same placements.
LEMMA SamePlacements ==
    ASSUME NEW s \in Searches
    PROVE  /\ Contract(s)!Placements(meetings) = Placements(meetings)
           /\ Contract(s)!Solvable(meetings) <=> Solvable(meetings)
           /\ \A f : Contract(s)!Timetable(meetings, f) = Timetable(meetings, f)
<1>1. Contract(s)!Placements(meetings) = Placements(meetings)
  BY DEF Contract!Placements, Placements, Contract!WindowIndices, WindowIndices,
         Contract!Window, Window, Contract!Overlap, Overlap
<1>2. \A f : Contract(s)!Timetable(meetings, f) = Timetable(meetings, f)
  BY DEF Contract!Timetable, Timetable, Contract!Window, Window
<1> QED
  BY <1>1, <1>2 DEF Contract!Solvable, Solvable

\* A step of one thread from or to its look at the flag is seen by the search
\* that it runs, and by no other.
LEMMA LooksApart ==
    ASSUME IInv, NEW t \in Threads, Searching(t), UNCHANGED running,
           \A u \in Threads : u # t => at'[u] = at[u]
    PROVE  /\ LookedAt(running[t]) = IF at[t] = "looked" THEN TRUE ELSE FALSE
           /\ LookedAt(running[t])' = IF at'[t] = "looked" THEN TRUE ELSE FALSE
           /\ \A s \in Searches : s # running[t] => LookedAt(s)' = LookedAt(s)
<1>1. \A u \in Threads : u # t /\ running[u] = running[t] => at[u] # "looked"
  BY DEF IInv, Assigned, Searching
<1> QED
  BY <1>1 DEF LookedAt

\* A return is a step of the contract of the search that returns, and at most
\* another search's decision to the rest.
LEMMA ReturnKeepsContract ==
    ASSUME IInv, NEW t \in Threads, ObserveStop(t) \/ GiveUp(t) \/ Decide(t),
           NEW s \in Searches
    PROVE  Contract(s)!Next \/ UNCHANGED Contract(s)!vars
<1> USE DEF Contract!vars, Contract!Next, Contract!Running, Contract!NoOutcome
<1>0. /\ running[t] \in Searches
      /\ outcome \in [Searches -> Outcome]
      /\ Searching(t) /\ outcome[running[t]] = Pending
      /\ at'[t] = "returned" /\ \A u \in Threads : u # t => at'[u] = at[u]
      /\ cost[running[t]] \in Nat /\ checks[running[t]] \in Nat
      /\ shouldStop \in BOOLEAN
      /\ UNCHANGED <<meetings, count, perThread, numShuffles, cost, checks, running>>
  BY BoundsAssumption
     DEF IInv, TypeOK, Assigned, Searching, ObserveStop, GiveUp, Decide, Return, AtHead, input
<1>1. Limit(s)' = Limit(s)
  BY <1>0 DEF Limit
<1>2. /\ LookedAt(running[t]) = IF at[t] = "looked" THEN TRUE ELSE FALSE
      /\ LookedAt(running[t])' = FALSE
      /\ s # running[t] => LookedAt(s)' = LookedAt(s)
  BY <1>0, LooksApart
<1>3. CASE s # running[t]
  <2>1. outcome'[s] = outcome[s]
    BY <1>0, <1>3 DEF ObserveStop, GiveUp, Decide, Return
  <2>2. shouldStop' \in BOOLEAN /\ (shouldStop => shouldStop')
    <3>1. CASE Decide(t)
      BY <3>1, DecideType
    <3> QED
      BY <1>0, <3>1 DEF ObserveStop, GiveUp
  <2> QED
    BY <1>0, <1>1, <1>2, <1>3, <2>1, <2>2 DEF Contract!OtherDecides
<1>4. CASE s = running[t]
  <2>1. CASE ObserveStop(t)
    <3>1. /\ outcome'[s] = Interrupted /\ shouldStop /\ shouldStop' = shouldStop
          /\ at[t] # "looked"
      BY <1>0, <1>4, <2>1 DEF ObserveStop, AtHead, Return
    <3> QED
      BY <1>0, <1>1, <1>2, <1>4, <3>1 DEF Contract!Stop, Contract!Interrupted, Interrupted, Pending
  <2>2. CASE GiveUp(t)
    <3>1. /\ outcome'[s] = WithinIteration(checks[s])
          /\ shouldStop' = shouldStop /\ Limit(s) = checks[s] /\ at[t] = "looked"
      BY <1>0, <1>4, <2>2 DEF GiveUp, Return
    <3> QED
      BY <1>0, <1>1, <1>2, <1>4, <3>1
         DEF Contract!GiveUp, Contract!WithinIteration, WithinIteration, Pending
  <2>3. CASE Decide(t)
    <3>1. checks[s] > 0 /\ LookedAt(s) = FALSE /\ LookedAt(s)' = FALSE
      <4>1. cost[s] \in 1 .. MaxCost /\ checks[s] = cost[s] /\ at[t] # "looked"
        BY <1>4, <2>3 DEF Decide, IInv, TypeOK
      <4>2. checks[s] > 0
        BY <4>1, BoundsAssumption
      <4>3. LookedAt(s) = FALSE /\ LookedAt(s)' = FALSE
        <5>1. LookedAt(running[t]) = FALSE /\ LookedAt(running[t])' = FALSE
          BY <1>2, <4>1, Zenon
        <5>2. running' = running
          BY <1>0
        <5> QED
          BY <1>4, <5>1, <5>2 DEF LookedAt
      <4> QED
        BY <4>2, <4>3
    <3>2. PICK r \in Decision :
              /\ r = NoSolution <=> ~Solvable(meetings)
              /\ r.kind = "Ok" <=> Solvable(meetings)
              /\ r.kind = "Ok" => \E f \in Placements(meetings) :
                    r = [kind |-> "Ok", count |-> checks[running[t]],
                         results |-> Timetable(meetings, f)]
              /\ Return(t, r)
              /\ shouldStop' = TRUE
      BY <2>3, DecideType
    <3>3. outcome'[s] = r
      BY <1>0, <1>4, <3>2 DEF Return
    <3>4. CASE Solvable(meetings)
      <4>1. PICK f \in Placements(meetings) :
               r = [kind |-> "Ok", count |-> checks[s], results |-> Timetable(meetings, f)]
        BY <1>4, <3>2, <3>4
      <4>2. outcome'[s].kind = "Ok"
        BY <3>2, <3>3, <3>4
      <4>3. \E g \in Placements(meetings) :
               outcome'[s] = [kind |-> "Ok", count |-> checks[s], results |-> Timetable(meetings, g)]
        BY <3>3, <4>1
      <4>4. UNCHANGED LookedAt(s)
        BY <3>1
      <4>5. Contract(s)!Find
        BY <1>0, <1>1, <1>4, <3>1, <3>2, <4>2, <4>3, <4>4, SamePlacements DEF Contract!Find, Pending
      <4> QED
        BY <4>5
    <3>5. CASE ~Solvable(meetings)
      <4>1. outcome'[s] = NoSolution /\ shouldStop' = TRUE
        BY <3>2, <3>3, <3>5
      <4>2. Contract(s)!Exhaust
        BY <1>0, <1>1, <1>2, <1>4, <3>1, <3>5, <4>1, SamePlacements
           DEF Contract!Exhaust, Contract!NoSolution, NoSolution, Pending
      <4> QED
        BY <4>2
    <3> QED
      BY <3>4, <3>5
  <2> QED
    BY <2>1, <2>2, <2>3
<1> QED
  BY <1>3, <1>4

\* Every step of the pool is one that the contract of each search allows.
LEMMA ContractStep ==
    ASSUME IInv, [Next]_vars, NEW s \in Searches
    PROVE  Contract(s)!Next \/ UNCHANGED Contract(s)!vars
<1> USE DEF Contract!vars
<1>1. CASE UNCHANGED <<meetings, count, perThread, checks, LookedAt(s), outcome, shouldStop>>
  BY <1>1 DEF Limit
<1>2. ASSUME NEW t \in Threads, PassFlag(t) \/ Check(t)
      PROVE  Contract(s)!Next \/ UNCHANGED Contract(s)!vars
  <2>0. /\ running[t] \in Searches /\ outcome[running[t]] = Pending
        /\ checks \in [Searches -> Nat]
        /\ UNCHANGED <<meetings, count, perThread, running, outcome, shouldStop>>
        /\ Searching(t) /\ \A u \in Threads : u # t => at'[u] = at[u]
    BY <1>2 DEF IInv, TypeOK, Assigned, Searching, PassFlag, Check, AtHead, input
  <2>1. Limit(s)' = Limit(s)
    BY <2>0 DEF Limit
  <2>2. /\ LookedAt(running[t]) = IF at[t] = "looked" THEN TRUE ELSE FALSE
        /\ LookedAt(running[t])' = IF at'[t] = "looked" THEN TRUE ELSE FALSE
        /\ s # running[t] => LookedAt(s)' = LookedAt(s)
    BY <2>0, LooksApart
  <2>3. CASE s = running[t] /\ PassFlag(t)
    <3>1. /\ LookedAt(s) = FALSE /\ LookedAt(s)' = TRUE
          /\ ~shouldStop /\ UNCHANGED checks
      BY <2>2, <2>3 DEF PassFlag, AtHead, IInv, TypeOK
    <3> QED
      BY <2>0, <2>1, <2>3, <3>1
         DEF Contract!Next, Contract!Look, Contract!Running, Contract!NoOutcome, Pending
  <2>4. CASE s = running[t] /\ Check(t)
    <3>1. /\ LookedAt(s) = TRUE /\ LookedAt(s)' = FALSE
          /\ Limit(s) # checks[s] /\ checks'[s] = checks[s] + 1
      BY <2>0, <2>2, <2>4 DEF Check, IInv, TypeOK
    <3> QED
      BY <2>0, <2>1, <2>4, <3>1
         DEF Contract!Next, Contract!Check, Contract!Running, Contract!NoOutcome, Pending
  <2>5. CASE s # running[t]
    <3>1. checks'[s] = checks[s]
      BY <1>2, <2>0, <2>5 DEF PassFlag, Check
    <3> QED
      BY <2>0, <2>1, <2>2, <2>5, <3>1
  <2> QED
    BY <1>2, <2>3, <2>4, <2>5
<1>3. ASSUME NEW t \in Threads, ObserveStop(t) \/ GiveUp(t) \/ Decide(t)
      PROVE  Contract(s)!Next \/ UNCHANGED Contract(s)!vars
  BY <1>3, ReturnKeepsContract
<1>4. ASSUME NEW t \in Threads, Join(t) \/ LookFull(t) \/ Pull(t) \/ Report(t)
      PROVE  UNCHANGED <<meetings, count, perThread, checks, LookedAt(s), outcome, shouldStop>>
  <2>1. /\ UNCHANGED <<meetings, count, perThread, checks, outcome, shouldStop>>
        /\ \A u \in Threads : u # t => at'[u] = at[u] /\ running'[u] = running[u]
        /\ at[t] # "looked" /\ at'[t] # "looked"
    BY <1>4 DEF Join, LookFull, Pull, Report, input, IInv, TypeOK
  <2> QED
    BY <2>1 DEF LookedAt
<1>5. CASE Answer
  BY <1>1, <1>5 DEF Answer, input, LookedAt
<1>6. CASE UNCHANGED vars
  BY <1>1, <1>6 DEF vars, input, LookedAt
<1> QED
  BY <1>1, <1>2, <1>3, <1>4, <1>5, <1>6 DEF Next, Work

\* In a pool of any size, each search behaves as its contract allows: the
\* contract that BacktrackSearch implements is all the pool relies on.
THEOREM EverySearchKeepsContract == Spec => EachKeepsContract
<1>1. Init => \A s \in Searches : Contract(s)!Init
  BY ContractStarts
<1>2. IInv /\ [Next]_vars =>
         [\A s \in Searches : Contract(s)!Next \/ UNCHANGED Contract(s)!vars]_vars
  BY ContractStep
<1> QED
  BY <1>1, <1>2, InductiveInvariant, PTL DEF Spec, EachKeepsContract
=============================================================================
