---------------------------- MODULE PageEstimate ----------------------------
(***************************************************************************)
(* Which meetings the schedule page believes to be impossible.  While a    *)
(* schedule is reviewed, the page computes it from its own calendars, with *)
(* arithmetic of its own (mergeTimes, subtractTimes) that has to agree     *)
(* with what the pipeline will find.                                       *)
(***************************************************************************)
EXTENDS Availability

CONSTANT DaySlots     \* slots of a day, which are numbered from 1

ASSUME DaySlotsAssumption == DaySlots \in Nat \ {0}

\* A blocked day, as the pipeline knows it and as dayToEvent has it: from the last
\* slot of the day before.
Days == {r \in SlotRange : \E index \in Slot : r.start = index * DaySlots + 1
                                            /\ r.end = (index + 1) * DaySlots}

DayToEvent(day) == [day EXCEPT !.start = @ - 1]

\* Events that neither overlap nor touch.
Clear(a, b) == a.end < b.start - 1 \/ a.start > b.end + 1

\* What List.partition sets aside.
Untouched(list, event) ==
    FlattenSeq([i \in DOMAIN list |-> IF Clear(list[i], event) THEN <<list[i]>> ELSE <<>>])

AddEvent(list, event) ==
    LET conflicting == {event} \cup {ev \in ToSet(list) : ~Clear(ev, event)}
    IN  <<[start |-> Min({ev.start : ev \in conflicting}), end |-> Max({ev.end : ev \in conflicting})]>>
            \o Untouched(list, event)

\* foldl.
MergeTimes(events) ==
    LET merged[n \in 0 .. Len(events)] ==
            IF n = 0 THEN <<>> ELSE AddEvent(merged[n - 1], events[n])
    IN  merged[Len(events)]

\* Mutant: the event ends where what is removed starts.
UpToItsStart(ev, remove) ==
    CASE ev.start >= remove.start /\ ev.end <= remove.end -> <<>>
      [] ev.start < remove.start -> <<[ev EXCEPT !.end = remove.start]>>
      [] OTHER -> <<[ev EXCEPT !.start = remove.end + 1]>>

\* What is left of an event: of two parts only the first.
Remainder(ev, remove) ==
    CASE ev.start >= remove.start /\ ev.end <= remove.end -> <<>>
      [] ev.start < remove.start -> <<[ev EXCEPT !.end = remove.start - 1]>>
      [] OTHER -> <<[ev EXCEPT !.start = remove.end + 1]>>

Subtract(remove, remaining) ==
    FlattenSeq([i \in DOMAIN remaining |->
                   IF Clear(remaining[i], remove) THEN <<>> ELSE Remainder(remaining[i], remove)])
        \o Untouched(remaining, remove)

\* foldr: the last of them first.
SubtractTimes(events, subtract) ==
    LET remaining[n \in 0 .. Len(subtract)] ==
            IF n = 0 THEN events ELSE Subtract(subtract[Len(subtract) - n + 1], remaining[n - 1])
    IN  remaining[Len(subtract)]

\* The participants' calendars, of which some ranges are blocked days.
PageBlocked(blockedDays) ==
    LET all == FlattenSeq(request.participants)
    IN  [i \in DOMAIN all |-> IF all[i] \in blockedDays THEN DayToEvent(all[i]) ELSE all[i]]

\* The meeting is listed as impossible if there are none.
PageAvailability(blockedDays) ==
    LET free == SubtractTimes(request.available, MergeTimes(PageBlocked(blockedDays)))
    IN  FlattenSeq([i \in DOMAIN free |->
                       IF free[i].end - free[i].start + 1 >= request.duration THEN <<free[i]>> ELSE <<>>])
-----------------------------------------------------------------------------
BlockedDaySets == SUBSET (Days \cap ToSet(FlattenSeq(request.participants)))

\* The widget keeps the available times apart.
AvailableApart ==
    \A i, j \in DOMAIN request.available : i # j => Clear(request.available[i], request.available[j])

\* A slot the page cannot see is free: before a blocked day, or behind something
\* blocked within the same available time.
Unseen(s, blockedDays) ==
    \/ \E day \in blockedDays : s = day.start - 1
    \/ \E open \in ToSet(request.available), block \in ToSet(PageBlocked(blockedDays)) :
          s \in open.start .. open.end /\ open.start < block.start /\ block.end < s

\* The page errs to one side: a meeting it believes possible is possible, and one it
\* lists as impossible is, or could only take place on slots that the page cannot see.
EstimateErrsOneWay ==
    pc = "done" /\ AvailableApart =>
        \A blockedDays \in BlockedDaySets :
            IF PageAvailability(blockedDays) # <<>>
            THEN Positions # {}
            ELSE \A w \in Positions : \E s \in w.start .. w.end : Unseen(s, blockedDays)
=============================================================================
