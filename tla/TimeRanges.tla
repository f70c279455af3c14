----------------------------- MODULE TimeRanges -----------------------------
(***************************************************************************)
(* The range arithmetic of zeitplan-libs (time.rs), for an unsigned N      *)
(* with values 0..MAX.  An iterator is the sequence of what it yields.     *)
(* Every iterator here consumes sorted start and end events one at a time, *)
(* so each is given by its reaction to one event, and run over them.       *)
(***************************************************************************)
EXTENDS TimeOrder, FiniteSets, SequencesExt

CONSTANT MAX      \* N::max_value(); N::zero() is 0

ASSUME MaxAssumption == MAX \in Nat

Slot == 0 .. MAX
SlotRange == {r \in [start : Slot, end : Slot] : r.start <= r.end}

\* The slots that some ranges hold.
SlotsOf(ranges) == UNION {r.start .. r.end : r \in ToSet(ranges)}

\* Ascending, and no two of them adjacent: each is as long as it can be, so
\* no position that crosses two of them is lost.
Separated(rs) == \A i \in 1 .. Len(rs) - 1 : rs[i].end + 1 < rs[i + 1].start

Start(n) == [kind |-> "Start", at |-> n]
End(n) == [kind |-> "End", at |-> n]

\* Ord for Time and for TimeType: at one value, a start comes before an end.
EventLess(a, b) ==
    \/ a.at < b.at
    \/ a.at = b.at /\ a.kind = "Start" /\ b.kind = "End"

\* sorted_unstable: each event goes where its rank is; equal events are alike,
\* so which of them comes first does not matter.
GoesBefore(events, i, j) ==
    EventLess(events[i], events[j]) \/ (events[i] = events[j] /\ i <= j)

Rank(events, j) == Cardinality({i \in DOMAIN events : GoesBefore(events, i, j)})

Sorted(events) ==
    [k \in DOMAIN events |-> events[CHOOSE j \in DOMAIN events : Rank(events, j) = k]]

\* The events of each range.
BoundsOf(ranges) == [i \in DOMAIN ranges |-> <<Start(ranges[i].start), End(ranges[i].end)>>]
-----------------------------------------------------------------------------
(* TimeMerge: overlapping and adjacent ranges become one. *)

\* A start with nothing open continues the last range if it is next to it.
\* A range that ends at MAX is never continued: MAX + 1 overflows.
Joins(out, v) ==
    /\ out # <<>>
    /\ Last(out).end < MAX
    /\ v <= Last(out).end + 1

\* Mutant: the first end closes everything that is open, as if ranges did not
\* nest.
MergeStepFlat(acc, ev) ==
    IF ev.kind = "End"
    THEN [open |-> 0, out |-> Append(Front(acc.out), [Last(acc.out) EXCEPT !.end = ev.at])]
    ELSE [open |-> acc.open + 1,
          out |-> IF acc.open > 0 \/ Joins(acc.out, ev.at)
                  THEN acc.out
                  ELSE Append(acc.out, [start |-> ev.at, end |-> ev.at])]

MergeStep(acc, ev) ==
    IF ev.kind = "End"
    THEN [open |-> acc.open - 1,
          out |-> Append(Front(acc.out), [Last(acc.out) EXCEPT !.end = ev.at])]
    ELSE [open |-> acc.open + 1,
          out |-> IF acc.open > 0 \/ Joins(acc.out, ev.at)
                  THEN acc.out
                  ELSE Append(acc.out, [start |-> ev.at, end |-> ev.at])]

\* What it has merged after n events.
MergeRun(events) ==
    LET run[n \in 0 .. Len(events)] ==
            IF n = 0 THEN [open |-> 0, out |-> <<>>] ELSE MergeStep(run[n - 1], events[n])
    IN  run

MergeEvents(ranges) == Sorted(FlattenSeq(BoundsOf(ranges)))

TimeMerge(ranges) ==
    LET events == MergeEvents(ranges)
    IN  MergeRun(events)[Len(events)].out
-----------------------------------------------------------------------------
(* Blocks: what is left of some ranges when others are taken out. *)

\* A blocked range ends what is free one slot before it and starts it again
\* one slot after, unless that slot does not exist.
BlockEventsOf(r) ==
    (IF r.start > 0 THEN <<End(r.start - 1)>> ELSE <<>>)
        \o (IF r.end < MAX THEN <<Start(r.end + 1)>> ELSE <<>>)

\* Both inputs of the merge are sorted, so is what it yields.
BlockEvents(available, blocking) ==
    LET merged == TimeMerge(blocking)
    IN  Sorted(FlattenSeq(BoundsOf(TimeMerge(available))
                             \o [i \in DOMAIN merged |-> BlockEventsOf(merged[i])]))

\* count starts below zero when a blocked range has no slot before it.
Blocker(blocking) ==
    [count |-> IF \E r \in ToSet(TimeMerge(blocking)) : r.start = 0 THEN -1 ELSE 0,
     pending |-> <<>>, out |-> <<>>, panicked |-> FALSE]

\* Blocker::next on one event; pending is the start it has read and still
\* needs the end of.  A second start there is the code's unreachable!().
BlockStep(b, ev) ==
    CASE b.panicked \/ b.count >= 1 -> b
      [] b.pending # <<>> /\ ev.kind = "End" ->
            [b EXCEPT !.pending = <<>>, !.out = Append(@, Ranged(b.pending[1], ev.at))]
      [] b.pending # <<>> /\ ev.kind = "Start" -> [b EXCEPT !.panicked = TRUE]
      [] b.pending = <<>> /\ ev.kind = "Start" /\ b.count = 0 -> [b EXCEPT !.pending = <<ev.at>>]
      [] b.pending = <<>> /\ ev.kind = "Start" /\ b.count < 0 -> [b EXCEPT !.count = @ + 1]
      [] b.pending = <<>> /\ ev.kind = "End" -> [b EXCEPT !.count = @ - 1]

\* The Blocker after n events.
BlockRun(start, events) ==
    LET run[n \in 0 .. Len(events)] ==
            IF n = 0 THEN start ELSE BlockStep(run[n - 1], events[n])
    IN  run

BlocksRun(available, blocking) ==
    LET events == BlockEvents(available, blocking)
    IN  BlockRun(Blocker(blocking), events)[Len(events)]

\* Mutant: a range of exactly the duration is too short.
LongerThan(r, duration) == r.end - r.start + 1 > duration

\* A range of every slot there is has a length N cannot express, and holds any.
LongEnough(r, duration) ==
    LET length == r.end - r.start + 1
    IN  length > MAX \/ length >= duration

KeepLong(kept, r, duration) == IF LongEnough(r, duration) THEN Append(kept, r) ELSE kept

\* Meeting::get_availability keeps the ranges that hold the duration.
Holding(ranges, duration) ==
    LET held[n \in 0 .. Len(ranges)] ==
            IF n = 0 THEN <<>> ELSE KeepLong(held[n - 1], ranges[n], duration)
    IN  held[Len(ranges)]

MeetingAvailability(available, blocked, duration) ==
    IF available = <<>> THEN <<>> ELSE Holding(BlocksRun(available, blocked).out, duration)

ParticipantAvailability(available, blocked) ==
    CASE available = <<>> -> <<>>
      [] available # <<>> /\ blocked = <<>> -> available
      [] available # <<>> /\ blocked # <<>> -> BlocksRun(available, blocked).out
-----------------------------------------------------------------------------
(* Windowed: every range of a duration within the ranges, in order. *)

\* next ends the whole iteration, not just this range, when an addition
\* overflows: before the range's first window (start + duration - 1), after
\* its last, or, for a window that starts at MAX, instead of yielding it.
WindowStep(acc, r, duration) ==
    IF acc.stopped THEN acc
    ELSE LET last == (IF r.end = MAX /\ duration = 1 THEN MAX - 1 ELSE r.end - (duration - 1))
         IN  [out |-> acc.out \o [i \in 1 .. last - r.start + 1 |->
                                    Ranged(r.start + i - 1, r.start + i - 1 + (duration - 1))],
              stopped |-> r.end = MAX \/ r.start + (duration - 1) > MAX]

\* The iteration after n ranges.
WindowRun(ranges, duration) ==
    LET run[n \in 0 .. Len(ranges)] ==
            IF n = 0 THEN [out |-> <<>>, stopped |-> FALSE]
            ELSE WindowStep(run[n - 1], ranges[n], duration)
    IN  run

Windowed(ranges, duration) == WindowRun(ranges, duration)[Len(ranges)].out
-----------------------------------------------------------------------------
(* Pigeons: how many slots some ranges have. *)

\* What the first n of some numbers add up to.
SumOf(numbers) ==
    LET sum[n \in 0 .. Len(numbers)] == IF n = 0 THEN 0 ELSE sum[n - 1] + numbers[n]
    IN  sum

\* An Option<N>: <<>> is None.  One range can have all the slots, and those
\* are one more than N can count.
CountPigeons(ranges) ==
    IF \E r \in ToSet(ranges) : r.end - r.start + 1 > MAX THEN <<>>
    ELSE <<SumOf([i \in DOMAIN ranges |-> ranges[i].end - ranges[i].start + 1])[Len(ranges)]>>

\* Mutant: the formula of the unused Meeting::sort_val.
SlackBySortVal(ranges, duration) ==
    SumOf([i \in DOMAIN ranges |-> ranges[i].end - (duration + ranges[i].start + 1)])[Len(ranges)]

\* One less than the number of positions in each range, summed: the key by
\* which the meetings are sorted.
Slack(ranges, duration) ==
    SumOf([i \in DOMAIN ranges |-> ranges[i].end - ranges[i].start - (duration - 1)])[Len(ranges)]
=============================================================================
