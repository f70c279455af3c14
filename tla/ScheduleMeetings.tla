-------------------------- MODULE ScheduleMeetings --------------------------
(***************************************************************************)
(* A request from end to end, in the build without rayon: validation, the  *)
(* availability of each meeting, the pigeonhole check, the order of the    *)
(* search, the search itself (BacktrackSearch) and what the two lambdas    *)
(* make of its result.  precheck_schedule runs setup and no more,          *)
(* schedule_meetings runs everything.                                      *)
(***************************************************************************)
EXTENDS TimeRanges, BacktrackSearch

CONSTANT Requests    \* what the lambdas can be asked

\* A range as a request spells it, which may be upside down.
SpeltRange == [start : Slot, end : Slot]
SpeltMeeting == [id : Ids, blockedTimes : Seq(SpeltRange), duration : Slot]

ASSUME RequestsAssumption ==
    \A r \in Requests :
        /\ r.lambda \in {"precheck", "schedule"}
        /\ r.meetings \in Seq(SpeltMeeting)
        /\ \A m, n \in DOMAIN r.meetings : r.meetings[m].id = r.meetings[n].id => m = n
        /\ r.availability \in Seq(SpeltRange)
        /\ r.count \in Limits

\* Beside the variables of the search, which has no meetings until Sort.
VARIABLES
    request,      \* the request
    stage,        \* "validate", "availability", "pigeons", "sort", "search", "done"
    schedulable,  \* what setup returned: the meetings that have availability
    response      \* what the lambda answered

requestVars == <<request, stage, schedulable, response, vars>>

NoResponse == [kind |-> "None"]
-----------------------------------------------------------------------------
RequestInit ==
    /\ request \in Requests
    /\ stage = "validate"
    /\ schedulable = <<>>
    /\ response = NoResponse
    /\ meetings = <<>>
    /\ len = 0
    /\ limit = request.count
    /\ Begin

\* Validate, for a range, a meeting and a schedule.
ValidRange(r) == r.start <= r.end

ValidMeeting(m) == m.duration >= 1 /\ \A r \in ToSet(m.blockedTimes) : ValidRange(r)
ValidRequest ==
    /\ \A r \in ToSet(request.availability) : ValidRange(r)
    /\ \A m \in ToSet(request.meetings) : ValidMeeting(m)

AvailabilityOf(m) == MeetingAvailability(request.availability, m.blockedTimes, m.duration)

\* Schedule::meeting_availability leaves out the meetings that fit nowhere.
InfoOf(m) ==
    IF AvailabilityOf(m) = <<>> THEN <<>>
    ELSE <<[id |-> m.id, duration |-> m.duration, availability |-> AvailabilityOf(m)]>>

MeetingAvailabilityInfo ==
    FlattenSeq([n \in DOMAIN request.meetings |-> InfoOf(request.meetings[n])])

Holes(infos) == CountPigeons(TimeMerge(FlattenSeq([n \in DOMAIN infos |-> infos[n].availability])))

\* The slots that the first n meetings take together, while N can count them.
Pigeons(infos, n) == SumOf([k \in DOMAIN infos |-> infos[k].duration])[n]

\* The meeting at which the count of pigeons overflows, if there is one.
Overflowing(infos) ==
    {n \in DOMAIN infos : Pigeons(infos, n - 1) <= MAX /\ Pigeons(infos, n) > MAX}

TooMany(pigeons, holes) == {[kind |-> "PigeonholeError", pigeons |-> pigeons, pigeonHoles |-> holes]}

\* Mutant: an overflowing count of pigeons is always too many.
PigeonholeErrorsOnOverflow(infos) ==
    LET holes == Holes(infos)
    IN  CASE Overflowing(infos) # {} -> TooMany(0, 0)
          [] Overflowing(infos) = {} /\ holes # <<>> /\ Pigeons(infos, Len(infos)) > holes[1] ->
                TooMany(Pigeons(infos, Len(infos)), holes[1])
          [] OTHER -> {}

\* The pigeonhole check.  With every slot there is (holes = None) the meetings
\* may take MAX + 1 slots, and no more: not one more in the meeting that
\* overflows, nor a meeting after it.
PigeonholeErrors(infos) ==
    LET holes == Holes(infos)
        total == Pigeons(infos, Len(infos))
    IN  CASE Overflowing(infos) = {} /\ holes # <<>> ->
                IF total > holes[1] THEN TooMany(total, holes[1]) ELSE {}
          [] Overflowing(infos) = {} /\ holes = <<>> -> {}
          [] Overflowing(infos) # {} /\ holes # <<>> -> TooMany(holes[1], holes[1])
          [] Overflowing(infos) # {} /\ holes = <<>> ->
                IF \E n \in Overflowing(infos) : n < Len(infos) \/ Pigeons(infos, n) - 1 > MAX
                THEN TooMany(0, 0) ELSE {}

\* setup validates the request.
Validate ==
    /\ stage = "validate"
    /\ IF ValidRequest
       THEN stage' = "availability" /\ UNCHANGED response
       ELSE stage' = "done" /\ response' = [kind |-> "InvalidData"]
    /\ UNCHANGED <<request, schedulable, vars>>

\* It works out when each meeting can be held.
ListAvailability ==
    /\ stage = "availability"
    /\ schedulable' = MeetingAvailabilityInfo
    /\ stage' = "pigeons"
    /\ UNCHANGED <<request, response, vars>>

\* It refuses the request if the slots cannot suffice.
RefusePigeons ==
    /\ stage = "pigeons"
    /\ response' \in PigeonholeErrors(schedulable)
    /\ stage' = "done"
    /\ UNCHANGED <<request, schedulable, vars>>

\* setup passes; that is all precheck_schedule wants to know.
PassSetup ==
    /\ stage = "pigeons"
    /\ PigeonholeErrors(schedulable) = {}
    /\ IF request.lambda = "precheck"
       THEN stage' = "done" /\ response' = [kind |-> "Success"]
       ELSE stage' = "sort" /\ UNCHANGED response
    /\ UNCHANGED <<request, schedulable, vars>>

\* The meetings with the fewest positions go first.
SortsBefore(a, b) ==
    LET p == Slack(a.availability, a.duration)
        q == Slack(b.availability, b.duration)
    IN  p < q \/ (p = q /\ a.duration < b.duration)

\* The sort is unstable: meetings that compare Equal come in any order.
SortedOrders ==
    LET n == Len(schedulable)
    IN  {o \in Bijection(1 .. n, 1 .. n) :
            \A i, j \in 1 .. n : i < j => ~SortsBefore(schedulable[o[j]], schedulable[o[i]])}

\* The search starts on the sorted meetings, windows taken as it needs them.
Sort ==
    /\ stage = "sort"
    /\ \E o \in SortedOrders :
          meetings' = [n \in DOMAIN schedulable |->
                          [id |-> schedulable[o[n]].id,
                           windows |-> Windowed(schedulable[o[n]].availability,
                                                schedulable[o[n]].duration)]]
    /\ len' = Len(request.meetings)
    /\ state' = [n \in 1 .. Len(request.meetings) |-> 0]
    /\ stage' = "search"
    /\ UNCHANGED <<request, schedulable, response, limit, nth, countIter, solution, lastKey,
                   pc, result, shouldStop>>

SearchStep ==
    /\ stage = "search"
    /\ Step
    /\ UNCHANGED <<request, stage, schedulable, response>>

\* Mutant: what failed is what setup left out, looked for by position.
FailedByCount == {request.meetings[n].id : n \in Len(schedulable) + 1 .. Len(request.meetings)}

\* The meetings that the timetable does not have.
Failed ==
    {m.id : m \in ToSet(request.meetings)} \ {e.id : e \in result.results}

\* What the lambda makes of the search's result.
Answer ==
    IF result.kind = "Ok"
    THEN [kind |-> "Ok", results |-> result.results, failed |-> Failed, attempts |-> result.count]
    ELSE result

Respond ==
    /\ stage = "search"
    /\ pc = "done"
    /\ response' = Answer
    /\ stage' = "done"
    /\ UNCHANGED <<request, schedulable, vars>>

RequestNext ==
    Validate \/ ListAvailability \/ RefusePigeons \/ PassSetup \/ Sort \/ SearchStep \/ Respond

RequestSpec == RequestInit /\ [][RequestNext]_requestVars
-----------------------------------------------------------------------------
(***************************************************************************)
(* Properties                                                              *)
(***************************************************************************)

\* What the request asks for, straight from its slots.
FreeSlots(m) == SlotsOf(request.availability) \ SlotsOf(m.blockedTimes)

IsPosition(m, r) ==
    /\ r.end - r.start + 1 = m.duration
    /\ r.start .. r.end \subseteq FreeSlots(m)

Positions(m) == {r \in SlotRange : IsPosition(m, r)}

\* The meetings that have a position at all, and the ways to hold all of them.
Possible == {m.id : m \in {m \in ToSet(request.meetings) : Positions(m) # {}}}

Timetables ==
    {f \in [Possible -> SlotRange] :
        /\ \A i, j \in Possible : i # j => ~Overlap(f[i], f[j])
        /\ \A m \in ToSet(request.meetings) : m.id \in Possible => IsPosition(m, f[m.id])}

\* The one position that windowed cannot yield.
LastSlot == [start |-> MAX, end |-> MAX]

\* What setup lists of a meeting, and the meeting as the search gets it.
Info == [id : Ids, duration : Slot \ {0}, availability : Seq(SlotRange)]
Sought == [id : Ids, windows : Seq(SlotRange)]

\* Every variable has the type the code gives it; of the search's variables,
\* those that the handover from setup decides.
RequestTypeOK ==
    /\ request \in Requests
    /\ stage \in {"validate", "availability", "pigeons", "sort", "search", "done"}
    /\ schedulable \in Seq(Info)
    /\ meetings \in Seq(Sought)
    /\ len = Len(state)
    /\ nth \in 0 .. Len(meetings) + 1
    /\ response.kind \in {"None", "Success", "InvalidData", "PigeonholeError", "Ok",
                          "NoSolution", "NoSolutionWithinIteration"}

\* The timetable in a response is one of those the request asks for: each
\* meeting once, as long as asked, when its people and the calendar allow it,
\* no two at once.
TimetableSound ==
    response.kind = "Ok" =>
        \E f \in Timetables :
            response.results = {[key |-> f[id], id |-> id] : id \in Possible}

\* Each meeting is in the timetable or among the failed ones, and those that
\* failed have no position whatever the others do.  Nothing loses its type on
\* the way from setup to search to response.
EveryMeetingAccountedFor ==
    /\ RequestTypeOK
    /\ response.kind = "Ok" =>
          /\ response.failed = {m.id : m \in ToSet(request.meetings)} \ Possible
          /\ {e.id : e \in response.results} = Possible

\* The slots that the meetings which have a position ask for together, and those
\* that some meeting could use.
DemandOf(m) == IF m.id \in Possible THEN m.duration ELSE 0
Demand ==
    SumOf([n \in DOMAIN request.meetings |-> DemandOf(request.meetings[n])])[Len(request.meetings)]

Usable == UNION {UNION {p.start .. p.end : p \in Positions(m)} : m \in ToSet(request.meetings)}
Supply == Cardinality(Usable)

\* The pigeonhole check refuses exactly the requests that ask for more slots
\* than its meetings can use, however the counting overflows.
PigeonholeExact ==
    stage \in {"sort", "done"} /\ ValidRequest =>
        (response.kind = "PigeonholeError" <=> Demand > Supply)

\* A request is refused for want of a timetable only when it has none, but
\* for the last slot, which is never offered.
RefusalSound ==
    response.kind \in {"PigeonholeError", "NoSolution"} =>
        \A f \in Timetables : \E id \in Possible : f[id] = LastSlot

\* ms is the search's problem: its k-th meeting is meeting at[k] of the request,
\* each meeting that has a position is there once, and its windows are its
\* positions, but for the last slot.
Searched(ms, at) ==
    /\ ms \in Seq(Sought)
    /\ at \in [1 .. Len(ms) -> 1 .. Len(request.meetings)]
    /\ \A k, j \in 1 .. Len(ms) : at[k] = at[j] => k = j
    /\ \A k \in 1 .. Len(ms) :
          /\ ms[k].id = request.meetings[at[k]].id
          /\ Positions(request.meetings[at[k]]) # {}
          /\ \A w \in SlotRange :
                (\E i \in 1 .. Len(ms[k].windows) : ms[k].windows[i] = w)
                   <=> w \in Positions(request.meetings[at[k]]) /\ w # LastSlot
    /\ \A n \in 1 .. Len(request.meetings) :
          Positions(request.meetings[n]) # {} => \E k \in 1 .. Len(ms) : at[k] = n

\* The search has not been called, or has been called on the sorted meetings.
Waiting == meetings = <<>> /\ len = 0 /\ Begin

Underway ==
    /\ len = Len(request.meetings)
    /\ \E at \in [DOMAIN meetings -> DOMAIN request.meetings] : Searched(meetings, at)

\* What setup has listed, and that the slots suffice for it.
Listed == ValidRequest /\ schedulable = MeetingAvailabilityInfo
Passed == Listed /\ PigeonholeErrors(schedulable) = {}

\* What each response rests on.
Settled ==
    \/ ~ValidRequest /\ schedulable = <<>> /\ Waiting /\ response.kind = "InvalidData"
    \/ Listed /\ Waiting /\ response \in PigeonholeErrors(schedulable)
    \/ Passed /\ Waiting /\ response.kind = "Success"
    \/ Passed /\ Underway /\ pc = "done" /\ response = Answer

\* The inductive invariant: that of the search, which is the only one of its
\* call, and what each stage leaves to the next.
RequestIInv ==
    /\ request \in Requests
    /\ stage \in {"validate", "availability", "pigeons", "sort", "search", "done"}
    /\ IInv
    /\ shouldStop => pc = "done"
    /\ result.kind # "Interrupted"
    /\ result.kind = "NoSolution" => nth = 0
    /\ stage # "done" => response = NoResponse
    /\ stage \in {"validate", "availability"} => schedulable = <<>> /\ Waiting
    /\ stage = "availability" => ValidRequest
    /\ stage = "pigeons" => Listed /\ Waiting
    /\ stage = "sort" => Passed /\ Waiting
    /\ stage = "search" => Passed /\ Underway
    /\ stage = "done" => Settled
=============================================================================
