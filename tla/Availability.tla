---------------------------- MODULE Availability ----------------------------
(***************************************************************************)
(* When a meeting can take place: MeetingParticipants is turned into a     *)
(* Meeting (meeting.rs), Meeting::get_availability takes the blocked times *)
(* out of the available ones, and the search walks the windows of what is  *)
(* left.  The two iterators advance one next() at a time.                  *)
(***************************************************************************)
EXTENDS TimeRanges

CONSTANT Requests   \* what a caller can ask: records of available, participants, duration

ASSUME RequestsAssumption ==
    Requests \subseteq [available : Seq(SlotRange), participants : Seq(Seq(SlotRange)),
                        duration : Slot \ {0}]

VARIABLES
    request,    \* the request
    blocked,    \* Meeting::blocked_times
    times,      \* events the Blocker has yet to consume
    blocker,    \* the Blocker, with the ranges it has yielded so far
    ranges,     \* ranges of the meeting the TimeWindow has yet to consume
    windowing,  \* the TimeWindow, with the windows it has yielded so far
    pc          \* "blocks", "windows", "done"

vars == <<request, blocked, times, blocker, ranges, windowing, pc>>

\* Mutant: only the first participant's times are taken.
BlockedTimesOfFirst(participants) == TimeMerge(participants[1])

\* From<MeetingParticipants> for Meeting.
BlockedTimes(participants) == TimeMerge(FlattenSeq(participants))

Init ==
    /\ request \in Requests
    /\ blocked = BlockedTimes(request.participants)
    /\ IF request.available = <<>>
       THEN times = <<>>
       ELSE times = BlockEvents(request.available, blocked)
    /\ blocker = Blocker(blocked)
    /\ ranges = <<>>
    /\ windowing = [out |-> <<>>, stopped |-> FALSE]
    /\ pc = "blocks"

\* Blocker::next consumes an event.
NextEvent ==
    /\ pc = "blocks"
    /\ times # <<>>
    /\ blocker' = BlockStep(blocker, Head(times))
    /\ times' = Tail(times)
    /\ UNCHANGED <<request, blocked, ranges, windowing, pc>>

\* The Blocker is exhausted: the ranges too short for the meeting go.
KeepLongEnough ==
    /\ pc = "blocks"
    /\ times = <<>>
    /\ ~blocker.panicked
    /\ ranges' = Holding(blocker.out, request.duration)
    /\ pc' = "windows"
    /\ UNCHANGED <<request, blocked, times, blocker, windowing>>

\* TimeWindow::next, until it asks for the range after this one.
NextRange ==
    /\ pc = "windows"
    /\ ranges # <<>>
    /\ windowing' = WindowStep(windowing, Head(ranges), request.duration)
    /\ ranges' = Tail(ranges)
    /\ UNCHANGED <<request, blocked, times, blocker, pc>>

NoMoreWindows ==
    /\ pc = "windows"
    /\ ranges = <<>>
    /\ pc' = "done"
    /\ UNCHANGED <<request, blocked, times, blocker, ranges, windowing>>

Next == NextEvent \/ KeepLongEnough \/ NextRange \/ NoMoreWindows

Spec == Init /\ [][Next]_vars

-----------------------------------------------------------------------------
(***************************************************************************)
(* Properties                                                              *)
(***************************************************************************)

\* The slots everybody is free in, straight from the request.
FreeSlots ==
    SlotsOf(request.available)
        \ UNION {SlotsOf(request.participants[p]) : p \in DOMAIN request.participants}

\* Every variable has the type the code gives it.
TypeOK ==
    /\ request \in Requests
    /\ blocked \in Seq(SlotRange)
    /\ times \in Seq([kind : {"Start", "End"}, at : Slot])
    /\ blocker \in [count : Int, pending : BoundedSeq(Slot, 1),
                    out : Seq(SlotRange), panicked : BOOLEAN]
    /\ ranges \in Seq(SlotRange)
    /\ windowing \in [out : Seq(SlotRange), stopped : BOOLEAN]
    /\ pc \in {"blocks", "windows", "done"}

\* The Blocker never meets a start where the code says unreachable!(), counts
\* below one for as long as it has events, and everything it has yielded, at
\* any point, is exactly the free slots up to there.  All of it is in N.
YieldsFreeSlots ==
    /\ TypeOK
    /\ ~blocker.panicked
    /\ blocker.count < 1
    /\ Separated(blocker.out)
    /\ blocker.out # <<>> =>
          SlotsOf(blocker.out) = {s \in FreeSlots : s <= Last(blocker.out).end}
    /\ pc # "blocks" => SlotsOf(blocker.out) = FreeSlots /\ blocker.pending = <<>>

\* Every window lies in the times each participant reports on their own: the
\* path from MeetingParticipants to a Meeting and the one through
\* Participant::get_availability agree.
EveryoneCanCome ==
    \A w \in ToSet(windowing.out), p \in DOMAIN request.participants :
        w.start .. w.end \subseteq
            SlotsOf(ParticipantAvailability(request.available, request.participants[p]))

\* The windows of a meeting's length among the slots everybody is free in.
Positions ==
    {w \in SlotRange : w.end - w.start + 1 = request.duration /\ w.start .. w.end \subseteq FreeSlots}

\* The search walks each position of the meeting once, in ascending order;
\* the one that starts at the largest value of N is the only one it can miss.
WindowsInOrder ==
    pc = "done" =>
        /\ \A i \in 1 .. Len(windowing.out) - 1 : windowing.out[i].start < windowing.out[i + 1].start
        /\ ToSet(windowing.out) = Positions \ {[start |-> MAX, end |-> MAX]}

\* The key meetings are sorted by, one for each position but the first of each
\* range, counts the positions of the meeting: with one more for each range it
\* is their number, the one that windowed can miss included.
SlackCountsWindows ==
    pc = "done" =>
        LET kept == MeetingAvailability(request.available, blocked, request.duration)
        IN  Slack(kept, request.duration) + Len(kept) = Cardinality(Positions)
=============================================================================
