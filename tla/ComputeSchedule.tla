--------------------------- MODULE ComputeSchedule ---------------------------
(***************************************************************************)
(* The pipelines computeSchedule and validate of the stack.  Each step of  *)
(* a pipeline is a call to one table or lambda, and anything may happen to *)
(* the tables between two of them: the credits are compared first and      *)
(* deducted last, the meetings are read before the calendars of their      *)
(* participants.  A slot takes a new request when its last one has ended.  *)
(***************************************************************************)
EXTENDS UserTables, FiniteSets

CONSTANTS
    Requests,     \* slots: the pipelines that can be in flight at a time
    Offers,       \* the credits that computeSchedule may be called with
    MaxCost,      \* the largest of them
    MaxCredits,   \* bound: the balance up to which credits are granted
    MaxNow        \* bound: the milliseconds the clock goes through

ASSUME RequestsAssumption ==
    IsFiniteSet(Requests) /\ Requests # {} /\ Absent \notin Requests
ASSUME OffersAssumption ==
    MaxCost \in Nat \ {0} /\ Offers \subseteq Int /\ \A c \in Offers : c <= MaxCost
ASSUME BoundsAssumption == MaxCredits \in Nat /\ MaxNow \in Nat

VARIABLES
    credits,     \* the user's credits
    schedules,   \* created -> the request whose schedule is kept there
    now,         \* $util.time.nowEpochMilliSeconds()
    request      \* what each pipeline knows

pipelineVars == <<credits, schedules, now, request>>
computeVars == <<tablesVars, pipelineVars>>

Times == 0 .. MaxNow

\* A request's offer; the meetings as it read them; the problem it poses to
\* the lambda, per meeting each participant with what blocks it; and when its
\* schedule was saved.
Pipeline ==
    [stage : {"idle", "admitted", "read", "posed", "answered", "saved"},
     kind : {"compute", "validate"}, cost : 0 .. MaxCost,
     meetings : [Created -> {Absent} \cup SUBSET Names],
     problem : [Created -> {Absent} \cup SUBSET (Names \X ({Absent} \cup Blocked))],
     at : Times]

Idle == [stage |-> "idle", kind |-> "validate", cost |-> 0, meetings |-> NoMeetings,
         problem |-> NoMeetings, at |-> 0]
-----------------------------------------------------------------------------
ComputeInit ==
    /\ TablesInit
    /\ credits \in 0 .. MaxCredits
    /\ schedules = [t \in Times |-> Absent]
    /\ now = 0
    /\ request = [r \in Requests |-> Idle]

\* Mutant: the credits are compared one short.
CoveredAlmost(c) == 1 <= c /\ c <= credits + 1

\* GetAvailabilityInformation.  A refusal leaves no trace.
Covered(c) == 1 <= c /\ c <= credits

Admit(r, kind, c) ==
    /\ request[r].stage = "idle"
    /\ request' = [request EXCEPT ![r] = [Idle EXCEPT !.stage = "admitted", !.kind = kind,
                                                      !.cost = c]]
    /\ UNCHANGED <<credits, schedules, now>>

BeginCompute(r, c) == Covered(c) /\ Admit(r, "compute", c)

\* validate has no argument credits, so that no comparison with it holds.
BeginValidate(r) == Admit(r, "validate", 0)

End(r) == request' = [request EXCEPT ![r] = Idle]

\* GetMeetingsForSchedule
GetMeetings(r) ==
    /\ request[r].stage = "admitted"
    /\ IF meetings = NoMeetings
       THEN End(r)
       ELSE request' = [request EXCEPT ![r].stage = "read", ![r].meetings = meetings]
    /\ UNCHANGED <<credits, schedules, now>>

\* Mutant: a participant without a calendar is passed over.
SomeFound(read) == \A m \in Created : read[m] # {}

\* Iterating over a meeting without participants throws, and so does asking
\* for the events of a calendar that the batch did not find.
AllFound(read) ==
    \A m \in Created :
       read[m] # Absent => read[m] # {} /\ \A n \in read[m] : calendars[n] # Absent

\* GetParticipantsBlockedTimes
Problem(read) ==
    [m \in Created |-> IF read[m] = Absent THEN Absent
                       ELSE {<<n, calendars[n]>> : n \in read[m]}]

GetCalendars(r) ==
    /\ request[r].stage = "read"
    /\ IF AllFound(request[r].meetings)
       THEN request' = [request EXCEPT ![r].stage = "posed",
                                       ![r].problem = Problem(request[r].meetings)]
       ELSE End(r)
    /\ UNCHANGED <<credits, schedules, now>>

\* CheckScheduleFunction ends validate with its answer.
Check(r) ==
    /\ request[r].stage = "posed" /\ request[r].kind = "validate"
    /\ End(r)
    /\ UNCHANGED <<credits, schedules, now>>

\* ScheduleMeetingLambda goes on with a schedule or with an error, alike.
Search(r) ==
    /\ request[r].stage = "posed" /\ request[r].kind = "compute"
    /\ request' = [request EXCEPT ![r].stage = "answered"]
    /\ UNCHANGED <<credits, schedules, now>>

\* SaveScheduleFunction
SaveSchedule(r) ==
    /\ request[r].stage = "answered"
    /\ schedules' = [schedules EXCEPT ![now] = r]
    /\ request' = [request EXCEPT ![r].stage = "saved", ![r].at = now]
    /\ UNCHANGED <<credits, now>>

\* Mutant: the two last functions of the pipeline are swapped.
DeductFirst(r) ==
    /\ request[r].stage = "answered"
    /\ credits' = credits - request[r].cost
    /\ End(r)
    /\ UNCHANGED <<schedules, now>>

\* DeductCreditsFunction: the expression has no condition.
Deduct(r) ==
    /\ request[r].stage = "saved"
    /\ credits' = credits - request[r].cost
    /\ End(r)
    /\ UNCHANGED <<schedules, now>>

\* A call fails, throws or is out of time.  DeductCreditsFunction returns the
\* schedule all the same.
Abort(r) ==
    /\ request[r].stage # "idle"
    /\ End(r)
    /\ UNCHANGED <<credits, schedules, now>>

\* A payment has succeeded.
Grant ==
    /\ \E n \in 1 .. (MaxCredits - credits) : credits' = credits + n
    /\ UNCHANGED <<schedules, now, request>>

Tick ==
    /\ now < MaxNow
    /\ now' = now + 1
    /\ UNCHANGED <<credits, schedules, request>>

Pipelines ==
    \E r \in Requests :
       \/ \E c \in Offers : BeginCompute(r, c)
       \/ BeginValidate(r)
       \/ GetMeetings(r)
       \/ GetCalendars(r)
       \/ Check(r)
       \/ Search(r)
       \/ SaveSchedule(r)
       \/ Deduct(r)
       \/ Abort(r)

ComputeNext ==
    \/ TablesNext /\ UNCHANGED pipelineVars
    \/ (Pipelines \/ Grant \/ Tick) /\ UNCHANGED tablesVars

ComputeSpec == ComputeInit /\ [][ComputeNext]_computeVars
-----------------------------------------------------------------------------
\* Types, and that whoever computes has offered something.
ComputeTypeOK ==
    /\ TablesTypeOK
    /\ credits \in Int
    /\ schedules \in [Times -> {Absent} \cup Requests]
    /\ now \in Times
    /\ request \in [Requests -> Pipeline]
    /\ \A r \in Requests :
          request[r].stage # "idle" /\ request[r].kind = "compute" => request[r].cost > 0

\* No schedule is sought that forgets somebody: the problem that goes to the
\* lambda has, for every participant of every meeting as it was read, a
\* calendar that says when this participant cannot come, though calendars and
\* meetings may have been deleted between the two reads.
EveryoneConsidered ==
    \A r \in Requests : request[r].stage \in {"posed", "answered", "saved"} =>
       \A m \in Created : request[r].meetings[m] # Absent =>
          /\ request[r].meetings[m] # {}
          /\ \A n \in request[r].meetings[m] :
                \E blocked \in Blocked : <<n, blocked>> \in request[r].problem[m]

\* Since admission reserves nothing, the balance can become negative, but no
\* further than the requests in flight beside the last one could spend.  With
\* one request at a time it never does.
OverdraftBounded == credits >= MaxCost - MaxCost * Cardinality(Requests)

\* A request counts as recorded only while the table has a schedule where it
\* was saved.
Account(r) ==
    [state |-> IF request[r].stage = "idle" \/ request[r].kind = "validate" THEN "none"
               ELSE IF request[r].stage = "saved" /\ schedules[request[r].at] # Absent
               THEN "recorded" ELSE "admitted",
     cost |-> request[r].cost]

Ledger == INSTANCE CreditLedger WITH
    Costs <- Offers,
    balance <- credits,
    account <- [r \in Requests |-> Account(r)]

\* The pipelines keep the books: credits are deducted once for a request, by
\* what it was admitted for, after its schedule is in the table.
KeepsTheBooks == Ledger!Spec
=============================================================================
