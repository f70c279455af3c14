------------------------- MODULE AvailabilityProofs -------------------------
(***************************************************************************)
(* Proofs about Availability, and about the estimate that the page makes   *)
(* of it (PageEstimate), for any largest slot, length of the day and       *)
(* requests.                                                               *)
(***************************************************************************)
EXTENDS PageEstimate, TimeRangesProofs
-----------------------------------------------------------------------------
(* The slots that are free. *)

\* The blocked times of a meeting are those of all its participants.
LEMMA BlockedSlots ==
    ASSUME NEW participants \in Seq(Seq(SlotRange))
    PROVE  /\ BlockedTimes(participants) \in Seq(SlotRange)
           /\ SlotsOf(BlockedTimes(participants)) =
                 UNION {SlotsOf(participants[p]) : p \in DOMAIN participants}
  <1>0. PICK n \in Nat : n = Len(participants)
    OBVIOUS
  <1>1. PICK ss : n = Len(participants) /\ ss = participants
    BY <1>0
  <1>2. ss \in [1 .. n -> Seq(SlotRange)] /\ DOMAIN participants = 1 .. n
    BY <1>1
  <1>3. PICK flat : flat = FlattenSeq(ss)
    OBVIOUS
  <1>4. flat \in Seq(SlotRange) /\ SlotsOf(flat) = UNION {SlotsOf(ss[p]) : p \in 1 .. n}
    BY <1>2, <1>3, FlatSlots
  <1>5. /\ TimeMerge(flat) \in Seq(SlotRange)
        /\ SlotsOf(TimeMerge(flat)) = SlotsOf(flat)
    BY <1>4, MergeMeans
  <1> QED
    BY <1>1, <1>2, <1>3, <1>4, <1>5 DEF BlockedTimes

\* The parts of a request.
LEMMA RequestMeans ==
    ASSUME NEW req \in Requests
    PROVE  /\ req.available \in Seq(SlotRange) /\ req.participants \in Seq(Seq(SlotRange))
           /\ req.duration \in Nat /\ req.duration >= 1 /\ req.duration <= MAX
  BY RequestsAssumption, MaxAssumption DEF Slot

-----------------------------------------------------------------------------
(* The iteration: what has been consumed, and what is left. *)

\* rest is what is left of all after k of its elements.
LeftOf(all, k, rest) ==
    /\ k \in 0 .. Len(all) /\ Len(rest) = Len(all) - k
    /\ \A i \in 1 .. Len(rest) : rest[i] = all[k + i]

\* Consuming the first of the rest.
LEMMA NextOfRest ==
    ASSUME NEW E, NEW all \in Seq(E), NEW k, NEW rest \in Seq(E), LeftOf(all, k, rest), rest # <<>>
    PROVE  /\ k \in Nat /\ k + 1 \in 1 .. Len(all) /\ Head(rest) = all[k + 1]
           /\ LeftOf(all, k + 1, Tail(rest)) /\ Tail(rest) \in Seq(E)
  <1>1. PICK n \in Nat, m \in Nat : n = Len(all) /\ m = Len(rest)
    OBVIOUS
  <1>2. m >= 1
    BY <1>1, EmptySeq
  <1>3. k \in 0 .. n /\ m = n - k /\ \A i \in 1 .. m : rest[i] = all[k + i]
    BY <1>1 DEF LeftOf
  <1>4. k \in Nat /\ k + 1 \in 1 .. n
    BY <1>2, <1>3
  <1>5. PICK tail : tail = Tail(rest)
    OBVIOUS
  <1>6. /\ tail \in Seq(E) /\ Head(rest) = rest[1] /\ Len(tail) = m - 1
        /\ \A i \in 1 .. m - 1 : tail[i] = rest[i + 1]
    BY <1>1, <1>5, HeadTailProperties
  <1>7. rest[1] = all[k + 1]
    BY <1>2, <1>3
  <1>8. ASSUME NEW i \in 1 .. m - 1 PROVE tail[i] = all[k + 1 + i]
    <2>1. i + 1 \in 1 .. m /\ k + (i + 1) = k + 1 + i
      BY <1>4
    <2> QED
      BY <1>3, <1>6, <2>1
  <1>9. k + 1 \in 0 .. n /\ m - 1 = n - (k + 1)
    BY <1>3, <1>4
  <1>10. LeftOf(all, k + 1, tail)
    BY <1>1, <1>6, <1>8, <1>9 DEF LeftOf
  <1> QED
    BY <1>1, <1>4, <1>5, <1>6, <1>7, <1>10
-----------------------------------------------------------------------------
(* The iterators of a request: the Blocker first. *)

\* The Blocker has consumed k of its events and yielded what is free up to there.
Consumed(available, blocking, rest, b) ==
    \E all, k, s, e, x, y :
        /\ all = BlockEvents(available, blocking)
        /\ LeftOf(all, k, rest)
        /\ Blocking(TimeMerge(available), TimeMerge(blocking), all, s, e, x, y)
        /\ Stands(TimeMerge(available), TimeMerge(blocking), all, s, e, x, y, k, b)
        /\ Yields(TimeMerge(available), TimeMerge(blocking), all, k, b.out)
        /\ b = BlockRun(Blocker(blocking), all)[k]

\* Nothing has been consumed yet.
LEMMA ConsumedNone ==
    ASSUME NEW available \in Seq(SlotRange), NEW blocking \in Seq(SlotRange)
    PROVE  /\ BlockEvents(available, blocking) \in Seq(Event)
           /\ Consumed(available, blocking, BlockEvents(available, blocking), Blocker(blocking))
  <1>1. PICK A, B, all : /\ A = TimeMerge(available) /\ B = TimeMerge(blocking)
                         /\ all = BlockEvents(available, blocking)
    OBVIOUS
  <1>2. PICK s, e, x, y : Blocking(A, B, all, s, e, x, y)
    BY <1>1, BlockEventsMean
  <1>3. BlocksAt(A, B, all, s, e, x, y)
    BY <1>2 DEF Blocking
  <1>4. all \in Seq(Event)
    BY <1>3 DEF BlocksAt
  <1>5. Stands(A, B, all, s, e, x, y, 0, Blocker(blocking)) /\ Yields(A, B, all, 0, Blocker(blocking).out)
    BY <1>1, <1>2, BlockerBegins
  <1>6. LeftOf(all, 0, all)
    <2>1. PICK n \in Nat : n = Len(all)
      BY <1>4
    <2>2. 0 \in 0 .. n /\ n = n - 0 /\ \A i \in 1 .. n : 0 + i = i
      OBVIOUS
    <2> QED
      BY <2>1, <2>2 DEF LeftOf
  <1>7. Blocker(blocking) = BlockRun(Blocker(blocking), all)[0]
    <2>1. Len(all) \in Nat
      BY <1>4
    <2> QED
      BY <2>1, BlockRunSteps
  <1> QED
    BY <1>1, <1>2, <1>4, <1>5, <1>6, <1>7 DEF Consumed

\* A sequence of one element, and that of none, has at most one.
LEMMA OneOrNone ==
    ASSUME NEW S, NEW v \in S
    PROVE  <<v>> \in BoundedSeq(S, 1) /\ <<>> \in BoundedSeq(S, 1)
  <1>1. <<v>> \in [1 .. 1 -> S] /\ 1 \in 0 .. 1
    OBVIOUS
  <1>2. <<>> \in [1 .. 0 -> S] /\ 0 \in 0 .. 1
    OBVIOUS
  <1> QED
    BY <1>1, <1>2 DEF BoundedSeq, SeqOf

LEMMA ConsumedOne ==
    ASSUME NEW available, NEW blocking, NEW rest \in Seq(Event), NEW b, rest # <<>>,
           Consumed(available, blocking, rest, b)
    PROVE  /\ Tail(rest) \in Seq(Event)
           /\ Consumed(available, blocking, Tail(rest), BlockStep(b, Head(rest)))
  <1>1. PICK all, k, s, e, x, y :
            /\ all = BlockEvents(available, blocking)
            /\ LeftOf(all, k, rest)
            /\ Blocking(TimeMerge(available), TimeMerge(blocking), all, s, e, x, y)
            /\ Stands(TimeMerge(available), TimeMerge(blocking), all, s, e, x, y, k, b)
            /\ Yields(TimeMerge(available), TimeMerge(blocking), all, k, b.out)
            /\ b = BlockRun(Blocker(blocking), all)[k]
    BY DEF Consumed
  <1>2. PICK A, B : A = TimeMerge(available) /\ B = TimeMerge(blocking)
    OBVIOUS
  <1>3. BlocksAt(A, B, all, s, e, x, y)
    BY <1>1, <1>2 DEF Blocking
  <1>4. all \in Seq(Event)
    BY <1>3 DEF BlocksAt
  <1>5. /\ k \in Nat /\ k + 1 \in 1 .. Len(all) /\ Head(rest) = all[k + 1]
        /\ LeftOf(all, k + 1, Tail(rest)) /\ Tail(rest) \in Seq(Event)
    BY <1>1, <1>4, NextOfRest
  <1>6. Stands(A, B, all, s, e, x, y, k + 1, BlockStep(b, Head(rest)))
    BY <1>1, <1>2, <1>5, StandsStep
  <1>7. Yields(A, B, all, k + 1, BlockStep(b, Head(rest)).out)
    BY <1>1, <1>2, <1>5, YieldsStep
  <1>8. BlockStep(b, Head(rest)) = BlockRun(Blocker(blocking), all)[k + 1]
    <2>1. PICK n \in Nat : n = Len(all)
      BY <1>4
    <2>2. k \in 0 .. n - 1
      BY <1>5, <2>1
    <2>3. BlockRun(Blocker(blocking), all)[k + 1]
             = BlockStep(BlockRun(Blocker(blocking), all)[k], all[k + 1])
      BY <2>1, <2>2, BlockRunSteps
    <2> QED
      BY <1>1, <1>5, <2>3
  <1> QED
    BY <1>1, <1>2, <1>5, <1>6, <1>7, <1>8 DEF Consumed

BlockerType == [count : Int, pending : BoundedSeq(Slot, 1), out : Seq(SlotRange), panicked : BOOLEAN]

UpToLast(free, out) == {z \in free : z <= Last(out).end}

\* What it says of the Blocker, on its way and at the end.
LEMMA ConsumedMeans ==
    ASSUME NEW available \in Seq(SlotRange), NEW blocking \in Seq(SlotRange), NEW rest, NEW b,
           Consumed(available, blocking, rest, b)
    PROVE  /\ b \in BlockerType
           /\ b.panicked = FALSE /\ b.count < 1 /\ Separated(b.out)
  <1>1. PICK all, k, s, e, x, y :
            /\ all = BlockEvents(available, blocking)
            /\ LeftOf(all, k, rest)
            /\ Blocking(TimeMerge(available), TimeMerge(blocking), all, s, e, x, y)
            /\ Stands(TimeMerge(available), TimeMerge(blocking), all, s, e, x, y, k, b)
            /\ Yields(TimeMerge(available), TimeMerge(blocking), all, k, b.out)
            /\ b = BlockRun(Blocker(blocking), all)[k]
    BY DEF Consumed
  <1>2. PICK A, B : A = TimeMerge(available) /\ B = TimeMerge(blocking)
    OBVIOUS
  <1>4. BlocksAt(A, B, all, s, e, x, y)
    BY <1>1, <1>2 DEF Blocking
  <1>5. all \in Seq(Event)
    BY <1>4 DEF BlocksAt
  <1>6. PICK open \in BOOLEAN, shut \in BOOLEAN :
            open = (Inside(Len(A), s, e, k) # {}) /\ shut = (Inside(Len(B), x, y, k) # {})
    OBVIOUS
  <1>7. /\ b = [count |-> b.count, pending |-> b.pending, out |-> b.out, panicked |-> FALSE]
        /\ open /\ ~shut => /\ b.count = 0 /\ b.pending = <<all[k].at>>
                            /\ k \in 1 .. Len(all) /\ all[k].kind = "Start"
        /\ ~(open /\ ~shut) => b.pending = <<>> /\ b.count = IF shut /\ ~open THEN -1 ELSE 0
    BY <1>1, <1>2, <1>6 DEF Stands
  <1>8. b.count \in Int /\ b.count < 1 /\ b.panicked = FALSE
    <2>1. b.count = 0 \/ b.count = -1
      BY <1>7
    <2> QED
      BY <1>7, <2>1
  <1>9. b.pending \in BoundedSeq(Slot, 1)
    <2>0. 0 \in Slot
      BY MaxAssumption DEF Slot
    <2>1. CASE open /\ ~shut
      <3>1. PICK v \in Slot : v = all[k].at
        <4>1. all[k] \in Event
          BY <1>5, <1>7, <2>1
        <4> QED
          BY <4>1 DEF Event
      <3>2. b.pending = <<v>>
        BY <1>7, <2>1, <3>1
      <3> QED
        BY <3>2, OneOrNone
    <2>2. CASE ~(open /\ ~shut)
      <3>1. b.pending = <<>>
        BY <1>7, <2>2
      <3> QED
        BY <2>0, <3>1, OneOrNone
    <2> QED
      BY <2>1, <2>2
  <1>10. b.out \in Seq(SlotRange) /\ Separated(b.out)
    BY <1>1 DEF Yields
  <1>13. b \in BlockerType
    BY <1>7, <1>8, <1>9, <1>10 DEF BlockerType
  <1> QED
    BY <1>8, <1>10, <1>13

\* The Blocker has yielded every free slot up to the end of its last range.
LEMMA ConsumedUpTo ==
    ASSUME NEW available \in Seq(SlotRange), NEW blocking \in Seq(SlotRange), NEW rest, NEW b,
           Consumed(available, blocking, rest, b), b.out # <<>>
    PROVE  SlotsOf(b.out) = UpToLast(Unblocked(available, blocking), b.out)
  <1>1. PICK all, k, s, e, x, y :
            /\ all = BlockEvents(available, blocking)
            /\ LeftOf(all, k, rest)
            /\ Blocking(TimeMerge(available), TimeMerge(blocking), all, s, e, x, y)
            /\ Stands(TimeMerge(available), TimeMerge(blocking), all, s, e, x, y, k, b)
            /\ Yields(TimeMerge(available), TimeMerge(blocking), all, k, b.out)
            /\ b = BlockRun(Blocker(blocking), all)[k]
    BY DEF Consumed
  <1>2. PICK A, B : A = TimeMerge(available) /\ B = TimeMerge(blocking)
    OBVIOUS
  <1>3. Unblocked(A, B) = Unblocked(available, blocking)
    BY <1>2, BlockEventsMean DEF Unblocked
  <1>4. SlotsOf(b.out) = {z \in Unblocked(A, B) : z <= Last(b.out).end}
    BY <1>1, <1>2, YieldsUpToLast
  <1> QED
    BY <1>3, <1>4 DEF UpToLast

\* When no event is left, everything has been yielded.
LEMMA ConsumedAll ==
    ASSUME NEW available \in Seq(SlotRange), NEW blocking \in Seq(SlotRange), NEW rest, NEW b,
           Consumed(available, blocking, rest, b), rest = <<>>
    PROVE  /\ SlotsOf(b.out) = Unblocked(available, blocking) /\ b.pending = <<>>
           /\ b = BlocksRun(available, blocking)
  <1>1. PICK all, k, s, e, x, y :
            /\ all = BlockEvents(available, blocking)
            /\ LeftOf(all, k, rest)
            /\ Blocking(TimeMerge(available), TimeMerge(blocking), all, s, e, x, y)
            /\ Stands(TimeMerge(available), TimeMerge(blocking), all, s, e, x, y, k, b)
            /\ Yields(TimeMerge(available), TimeMerge(blocking), all, k, b.out)
            /\ b = BlockRun(Blocker(blocking), all)[k]
    BY DEF Consumed
  <1>2. PICK A, B : A = TimeMerge(available) /\ B = TimeMerge(blocking)
    OBVIOUS
  <1>3. Unblocked(A, B) = Unblocked(available, blocking)
    BY <1>2, BlockEventsMean DEF Unblocked
  <1>4. BlocksAt(A, B, all, s, e, x, y)
    BY <1>1, <1>2 DEF Blocking
  <1>5. all \in Seq(Event)
    BY <1>4 DEF BlocksAt
  <1>6. PICK n \in Nat : n = Len(all)
    BY <1>5
  <1>7. Len(rest) = 0
    OBVIOUS
  <1>8. k \in 0 .. n /\ 0 = n - k
    BY <1>1, <1>6, <1>7 DEF LeftOf
  <1>9. k = Len(all)
    BY <1>6, <1>8
  <1>10. b = BlocksRun(available, blocking)
    BY <1>1, <1>9 DEF BlocksRun
  <1> QED
    BY <1>1, <1>2, <1>3, <1>9, <1>10, BlockerEnds

\* The Blocker has consumed the events that are gone, and stands accordingly.
BlockerInv ==
    /\ request \in Requests
    /\ blocked = BlockedTimes(request.participants)
    /\ times \in Seq(Event)
    /\ pc \in {"blocks", "windows", "done"}
    /\ pc # "blocks" => times = <<>>
    /\ request.available = <<>> => times = <<>> /\ blocker = Blocker(blocked)
    /\ request.available # <<>> => Consumed(request.available, blocked, times, blocker)

\* The Blocker starts before the first event.
LEMMA BlockerInvInit == Init => BlockerInv
  <1> SUFFICES ASSUME Init PROVE BlockerInv
    OBVIOUS
  <1>1. request \in Requests /\ blocked = BlockedTimes(request.participants) /\ pc = "blocks"
        /\ blocker = Blocker(blocked)
    BY DEF Init
  <1>2. blocked \in Seq(SlotRange) /\ request.available \in Seq(SlotRange)
    BY <1>1, RequestMeans, BlockedSlots
  <1>3. CASE request.available = <<>>
    <2>1. times = <<>> /\ times \in Seq(Event)
      BY <1>3 DEF Init
    <2> QED
      BY <1>1, <1>3, <2>1 DEF BlockerInv
  <1>4. CASE request.available # <<>>
    <2>1. times = BlockEvents(request.available, blocked)
      BY <1>4 DEF Init
    <2>2. times \in Seq(Event) /\ Consumed(request.available, blocked, times, blocker)
      BY <1>1, <1>2, <2>1, ConsumedNone
    <2> QED
      BY <1>1, <1>4, <2>2 DEF BlockerInv
  <1> QED
    BY <1>3, <1>4

\* Every step keeps what is said of the Blocker.
LEMMA BlockerInvStep == BlockerInv /\ [Next]_vars => BlockerInv'
  <1> SUFFICES ASSUME BlockerInv, [Next]_vars PROVE BlockerInv'
    OBVIOUS
  <1>1. CASE NextEvent
    <2>1. /\ request' = request /\ blocked' = blocked /\ pc' = pc /\ pc = "blocks" /\ times # <<>>
          /\ times' = Tail(times) /\ blocker' = BlockStep(blocker, Head(times))
      BY <1>1 DEF NextEvent
    <2>2. times \in Seq(Event) /\ request.available # <<>>
          /\ Consumed(request.available, blocked, times, blocker)
      BY <2>1 DEF BlockerInv
    <2>3. /\ Tail(times) \in Seq(Event)
          /\ Consumed(request.available, blocked, Tail(times), BlockStep(blocker, Head(times)))
      BY <2>1, <2>2, ConsumedOne
    <2>4. times' \in Seq(Event) /\ Consumed(request'.available, blocked', times', blocker')
      BY <2>1, <2>3
    <2> QED
      BY <2>1, <2>2, <2>4 DEF BlockerInv
  <1>2. ASSUME /\ request' = request /\ blocked' = blocked /\ times' = times /\ blocker' = blocker
               /\ pc' \in {"blocks", "windows", "done"} /\ (pc' # "blocks" => times = <<>>)
        PROVE  BlockerInv'
    <2>1. request.available # <<>> => Consumed(request'.available, blocked', times', blocker')
      BY <1>2 DEF BlockerInv
    <2> QED
      BY <1>2, <2>1 DEF BlockerInv
  <1>3. CASE KeepLongEnough
    BY <1>2, <1>3 DEF KeepLongEnough
  <1>4. CASE NextRange
    BY <1>2, <1>4 DEF NextRange, BlockerInv
  <1>5. CASE NoMoreWindows
    BY <1>2, <1>5 DEF NoMoreWindows, BlockerInv
  <1>6. CASE UNCHANGED vars
    BY <1>2, <1>6 DEF vars, BlockerInv
  <1> QED
    BY <1>1, <1>3, <1>4, <1>5, <1>6 DEF Next

\* What the Blocker has yielded, whether or not there was anything to do.
LEMMA BlockerMeans ==
    ASSUME BlockerInv
    PROVE  /\ blocked \in Seq(SlotRange)
           /\ blocker \in BlockerType
           /\ blocker.panicked = FALSE /\ blocker.count < 1 /\ Separated(blocker.out)
           /\ blocker.out # <<>> => SlotsOf(blocker.out) = UpToLast(FreeSlots, blocker.out)
           /\ pc # "blocks" => SlotsOf(blocker.out) = FreeSlots /\ blocker.pending = <<>>
  <1>1. /\ request \in Requests /\ blocked = BlockedTimes(request.participants)
        /\ pc # "blocks" => times = <<>>
    BY DEF BlockerInv
  <1>2. /\ blocked \in Seq(SlotRange) /\ request.available \in Seq(SlotRange)
        /\ FreeSlots = Unblocked(request.available, blocked)
    BY <1>1, RequestMeans, BlockedSlots DEF FreeSlots, Unblocked
  <1>3. CASE request.available = <<>>
    <2>1. PICK count : count = (IF \E r \in ToSet(TimeMerge(blocked)) : r.start = 0 THEN -1 ELSE 0)
      OBVIOUS
    <2>2. blocker = [count |-> count, pending |-> <<>>, out |-> <<>>, panicked |-> FALSE]
      BY <1>3, <2>1 DEF BlockerInv, Blocker
    <2>3. count \in Int /\ count < 1
      <3>1. count = -1 \/ count = 0
        BY <2>1
      <3> QED
        BY <3>1
    <2>4. <<>> \in BoundedSeq(Slot, 1)
      <3>1. 0 \in Slot
        BY MaxAssumption DEF Slot
      <3> QED
        BY <3>1, OneOrNone
    <2>5. SlotsOf(request.available) = {} /\ SlotsOf(<<>>) = {} /\ Separated(<<>>)
      <3>1. \A i \in 1 .. Len(<<>>) : FALSE
        OBVIOUS
      <3>2. ToSet(<<>>) = {}
        BY <3>1 DEF ToSet
      <3>3. Separated(<<>>)
        BY DEF Separated
      <3> QED
        BY <1>3, <3>2, <3>3 DEF SlotsOf
    <2>6. FreeSlots = {}
      BY <1>2, <2>5 DEF Unblocked
    <2>7. blocker \in BlockerType
      BY <2>2, <2>3, <2>4 DEF BlockerType
    <2>8. blocker.out = <<>> /\ blocker.pending = <<>> /\ blocker.panicked = FALSE /\ blocker.count < 1
      BY <2>2, <2>3
    <2> QED
      BY <1>2, <2>5, <2>6, <2>7, <2>8
  <1>4. CASE request.available # <<>>
    <2>1. Consumed(request.available, blocked, times, blocker)
      BY <1>4 DEF BlockerInv
    <2>2. PICK available, block, rest, b :
             available = request.available /\ block = blocked /\ rest = times /\ b = blocker
      OBVIOUS
    <2>3. /\ available \in Seq(SlotRange) /\ block \in Seq(SlotRange)
          /\ Consumed(available, block, rest, b)
      BY <1>2, <2>1, <2>2
    <2>4. b \in BlockerType /\ b.panicked = FALSE /\ b.count < 1 /\ Separated(b.out)
      BY <2>3, ConsumedMeans
    <2>5. ASSUME b.out # <<>> PROVE SlotsOf(b.out) = UpToLast(Unblocked(available, block), b.out)
      BY <2>3, <2>5, ConsumedUpTo
    <2>6. ASSUME rest = <<>> PROVE SlotsOf(b.out) = Unblocked(available, block) /\ b.pending = <<>>
      BY <2>3, <2>6, ConsumedAll
    <2> QED
      BY <1>1, <1>2, <2>2, <2>4, <2>5, <2>6
  <1> QED
    BY <1>3, <1>4
-----------------------------------------------------------------------------
(* The TimeWindow. *)

\* It has consumed k ranges and yielded their windows.
Walking(kept, d, rest, acc) ==
    \E k : LeftOf(kept, k, rest) /\ Walked(kept, d, k, acc)

NoWindows == [out |-> <<>>, stopped |-> FALSE]

\* No range has been walked yet.
LEMMA WalkingNone ==
    ASSUME NEW kept \in Seq(SlotRange), NEW d
    PROVE  Walking(kept, d, kept, NoWindows)
  <1>1. PICK n \in Nat : n = Len(kept)
    OBVIOUS
  <1>2. LeftOf(kept, 0, kept)
    <2>1. 0 \in 0 .. n /\ n = n - 0 /\ \A i \in 1 .. n : 0 + i = i
      OBVIOUS
    <2> QED
      BY <1>1, <2>1 DEF LeftOf
  <1>3. PICK acc : acc = NoWindows
    OBVIOUS
  <1>4. /\ acc = [out |-> acc.out, stopped |-> acc.stopped] /\ acc.stopped = FALSE /\ acc.out = <<>>
        /\ acc.out \in Seq(SlotRange)
    BY <1>3 DEF NoWindows
  <1>5. Len(acc.out) = 0 /\ \A i \in 1 .. 0 : FALSE
    BY <1>4
  <1>6. \A i \in 1 .. 0 - 1 : FALSE
    OBVIOUS
  <1>7. Walked(kept, d, 0, acc)
    BY <1>4, <1>5, <1>6 DEF Walked
  <1> QED
    BY <1>2, <1>3, <1>7 DEF Walking

\* A range is walked.
LEMMA WalkingOne ==
    ASSUME NEW d \in Nat, d >= 1, d <= MAX, NEW kept \in Seq(SlotRange), Separated(kept),
           \A h \in 1 .. Len(kept) : LongEnough(kept[h], d),
           NEW rest \in Seq(SlotRange), rest # <<>>, NEW acc, Walking(kept, d, rest, acc)
    PROVE  /\ Tail(rest) \in Seq(SlotRange)
           /\ Walking(kept, d, Tail(rest), WindowStep(acc, Head(rest), d))
  <1>1. PICK k : LeftOf(kept, k, rest) /\ Walked(kept, d, k, acc)
    BY DEF Walking
  <1>2. /\ k \in Nat /\ k + 1 \in 1 .. Len(kept) /\ Head(rest) = kept[k + 1]
        /\ LeftOf(kept, k + 1, Tail(rest)) /\ Tail(rest) \in Seq(SlotRange)
    BY <1>1, NextOfRest
  <1>3. LongEnough(kept[k + 1], d)
    BY <1>2
  <1>4. Walked(kept, d, k + 1, WindowStep(acc, kept[k + 1], d))
    BY <1>1, <1>2, <1>3, WalkedStep
  <1> QED
    BY <1>2, <1>4 DEF Walking

\* The windows that have been walked.
LEMMA WalkingMeans ==
    ASSUME NEW d, NEW kept, NEW rest, NEW acc, Walking(kept, d, rest, acc)
    PROVE  /\ acc = [out |-> acc.out, stopped |-> acc.stopped]
           /\ acc.stopped \in BOOLEAN /\ acc.out \in Seq(SlotRange)
           /\ \A i \in 1 .. Len(acc.out) - 1 : acc.out[i].start < acc.out[i + 1].start
           /\ \A i \in 1 .. Len(acc.out) : \E h \in 1 .. Len(kept) : Within(kept[h], d, acc.out[i])
  <1>1. PICK k : LeftOf(kept, k, rest) /\ Walked(kept, d, k, acc)
    BY DEF Walking
  <1>2. ASSUME NEW i \in 1 .. Len(acc.out)
        PROVE  \E h \in 1 .. Len(kept) : Within(kept[h], d, acc.out[i])
    <2>1. PICK h \in 1 .. k : Within(kept[h], d, acc.out[i])
      BY <1>1 DEF Walked
    <2>2. k \in 0 .. Len(kept)
      BY <1>1 DEF LeftOf
    <2>3. PICK n : n = Len(kept)
      OBVIOUS
    <2>4. h \in 1 .. n
      BY <2>2, <2>3
    <2> QED
      BY <2>1, <2>3, <2>4
  <1>3. /\ acc = [out |-> acc.out, stopped |-> acc.stopped]
        /\ acc.stopped \in BOOLEAN /\ acc.out \in Seq(SlotRange)
    BY <1>1 DEF Walked
  <1>4. \A i \in 1 .. Len(acc.out) - 1 : acc.out[i].start < acc.out[i + 1].start
    BY <1>1 DEF Walked
  <1> QED
    BY <1>2, <1>3, <1>4

\* All ranges have been walked.
LEMMA WalkingAll ==
    ASSUME NEW d, NEW kept \in Seq(SlotRange), NEW rest, NEW acc, Walking(kept, d, rest, acc), rest = <<>>,
           NEW w \in SlotRange, NEW h \in 1 .. Len(kept), Within(kept[h], d, w)
    PROVE  \E i \in 1 .. Len(acc.out) : acc.out[i] = w
  <1>1. PICK k : LeftOf(kept, k, rest) /\ Walked(kept, d, k, acc)
    BY DEF Walking
  <1>2. PICK n \in Nat : n = Len(kept)
    OBVIOUS
  <1>3. Len(rest) = 0
    OBVIOUS
  <1>4. k \in 0 .. n /\ 0 = n - k
    BY <1>1, <1>2, <1>3 DEF LeftOf
  <1>5. k = n /\ h \in 1 .. k
    BY <1>2, <1>4
  <1> QED
    BY <1>1, <1>5 DEF Walked

\* The ranges of the meeting.
KeptRanges == Holding(blocker.out, request.duration)

\* The ranges that get_availability keeps.
LEMMA KeptMeans ==
    ASSUME BlockerInv
    PROVE  /\ request.duration \in Nat /\ request.duration >= 1 /\ request.duration <= MAX
           /\ KeptRanges \in Seq(SlotRange) /\ Separated(KeptRanges)
           /\ \A h \in 1 .. Len(KeptRanges) :
                 /\ LongEnough(KeptRanges[h], request.duration)
                 /\ \E j \in 1 .. Len(blocker.out) : KeptRanges[h] = blocker.out[j]
           /\ \A j \in 1 .. Len(blocker.out) :
                 LongEnough(blocker.out[j], request.duration)
                    => \E h \in 1 .. Len(KeptRanges) : KeptRanges[h] = blocker.out[j]
  <1>1. PICK d, rs, kept : d = request.duration /\ rs = blocker.out /\ kept = KeptRanges
    OBVIOUS
  <1>2. rs \in Seq(SlotRange) /\ Separated(rs)
    <2>1. blocker.out \in Seq(SlotRange)
      BY BlockerMeans DEF BlockerType
    <2> QED
      BY <1>1, <2>1, BlockerMeans
  <1>3. d \in Nat /\ d >= 1 /\ d <= MAX
    <2>1. request \in Requests
      BY DEF BlockerInv
    <2> QED
      BY <1>1, <2>1, RequestMeans
  <1>4. Held(rs, d, Len(rs), kept)
    BY <1>1, <1>2, HoldingMeans DEF KeptRanges
  <1>5. kept \in Seq(SlotRange) /\ Separated(kept)
    BY <1>4 DEF Held
  <1>6. \A h \in 1 .. Len(kept) : LongEnough(kept[h], d) /\ \E j \in 1 .. Len(rs) : kept[h] = rs[j]
    BY <1>4 DEF Held
  <1>7. \A j \in 1 .. Len(rs) : LongEnough(rs[j], d) => \E h \in 1 .. Len(kept) : kept[h] = rs[j]
    BY <1>4 DEF Held
  <1> QED
    BY <1>1, <1>3, <1>5, <1>6, <1>7

\* TimeWindow has walked the ranges that are gone.
WindowInv ==
    /\ ranges \in Seq(SlotRange)
    /\ pc = "blocks" => ranges = <<>> /\ windowing = NoWindows
    /\ pc # "blocks" => Walking(KeptRanges, request.duration, ranges, windowing)
    /\ pc = "done" => ranges = <<>>

\* Every step keeps what is said of the TimeWindow.
LEMMA WindowInvStep == BlockerInv /\ WindowInv /\ [Next]_vars => WindowInv'
  <1> SUFFICES ASSUME BlockerInv, WindowInv, [Next]_vars PROVE WindowInv'
    OBVIOUS
  <1>1. CASE NextEvent
    BY <1>1 DEF NextEvent, WindowInv
  <1>2. CASE KeepLongEnough
    <2>1. /\ blocker' = blocker /\ request' = request /\ windowing' = windowing /\ pc' = "windows"
          /\ ranges' = KeptRanges
      BY <1>2 DEF KeepLongEnough, KeptRanges
    <2>2. windowing = NoWindows
      BY <1>2 DEF KeepLongEnough, WindowInv
    <2>3. KeptRanges' = KeptRanges
      BY <2>1 DEF KeptRanges
    <2>4. KeptRanges \in Seq(SlotRange)
      BY KeptMeans
    <2>5. Walking(KeptRanges, request.duration, KeptRanges, NoWindows)
      BY <2>4, WalkingNone
    <2>6. ranges' \in Seq(SlotRange) /\ Walking(KeptRanges', request'.duration, ranges', windowing')
      BY <2>1, <2>2, <2>3, <2>4, <2>5
    <2> QED
      BY <2>1, <2>6 DEF WindowInv
  <1>3. CASE NextRange
    <2>1. /\ blocker' = blocker /\ request' = request /\ pc' = pc /\ pc = "windows" /\ ranges # <<>>
          /\ ranges' = Tail(ranges)
          /\ windowing' = WindowStep(windowing, Head(ranges), request.duration)
      BY <1>3 DEF NextRange
    <2>2. KeptRanges' = KeptRanges
      BY <2>1 DEF KeptRanges
    <2>3. PICK d, kept, rest, acc :
             d = request.duration /\ kept = KeptRanges /\ rest = ranges /\ acc = windowing
      OBVIOUS
    <2>4. rest \in Seq(SlotRange) /\ rest # <<>> /\ Walking(kept, d, rest, acc)
      BY <2>1, <2>3 DEF WindowInv
    <2>5. /\ d \in Nat /\ d >= 1 /\ d <= MAX /\ kept \in Seq(SlotRange) /\ Separated(kept)
          /\ \A h \in 1 .. Len(kept) : LongEnough(kept[h], d)
      BY <2>3, KeptMeans
    <2>6. /\ Tail(rest) \in Seq(SlotRange)
          /\ Walking(kept, d, Tail(rest), WindowStep(acc, Head(rest), d))
      BY <2>4, <2>5, WalkingOne
    <2>7. ranges' \in Seq(SlotRange) /\ Walking(KeptRanges', request'.duration, ranges', windowing')
      BY <2>1, <2>2, <2>3, <2>6
    <2> QED
      BY <2>1, <2>7 DEF WindowInv
  <1>4. ASSUME /\ blocker' = blocker /\ request' = request /\ ranges' = ranges /\ windowing' = windowing
               /\ pc' = pc \/ (pc = "windows" /\ pc' = "done" /\ ranges = <<>>)
        PROVE  WindowInv'
    <2>1. KeptRanges' = KeptRanges
      BY <1>4 DEF KeptRanges
    <2>2. pc # "blocks" => Walking(KeptRanges', request'.duration, ranges', windowing')
      BY <1>4, <2>1 DEF WindowInv
    <2> QED
      BY <1>4, <2>2 DEF WindowInv
  <1>5. CASE NoMoreWindows
    BY <1>4, <1>5 DEF NoMoreWindows
  <1>6. CASE UNCHANGED vars
    BY <1>4, <1>6 DEF vars
  <1> QED
    BY <1>1, <1>2, <1>3, <1>5, <1>6 DEF Next

\* The windows that have been yielded are in ranges that the Blocker yielded.
LEMMA WindowsMean ==
    ASSUME BlockerInv, WindowInv
    PROVE  /\ windowing \in [out : Seq(SlotRange), stopped : BOOLEAN]
           /\ \A i \in 1 .. Len(windowing.out) - 1 : windowing.out[i].start < windowing.out[i + 1].start
           /\ \A i \in 1 .. Len(windowing.out) :
                 /\ windowing.out[i] \in SlotRange /\ windowing.out[i].start # MAX
                 /\ windowing.out[i].end = windowing.out[i].start + (request.duration - 1)
                 /\ windowing.out[i].start .. windowing.out[i].end \subseteq FreeSlots
  <1>1. PICK d, kept, rest, acc :
             d = request.duration /\ kept = KeptRanges /\ rest = ranges /\ acc = windowing
    OBVIOUS
  <1>2. CASE pc = "blocks"
    <2>1. acc = [out |-> <<>>, stopped |-> FALSE]
      BY <1>1, <1>2 DEF WindowInv, NoWindows
    <2>2. acc.out = <<>> /\ acc.stopped = FALSE /\ acc \in [out : Seq(SlotRange), stopped : BOOLEAN]
      BY <2>1
    <2>3. (\A i \in 1 .. Len(acc.out) : FALSE) /\ (\A i \in 1 .. Len(acc.out) - 1 : FALSE)
      BY <2>2
    <2> QED
      BY <1>1, <2>2, <2>3
  <1>3. CASE pc # "blocks"
    <2>1. Walking(kept, d, rest, acc)
      BY <1>1, <1>3 DEF WindowInv
    <2>2. /\ acc = [out |-> acc.out, stopped |-> acc.stopped]
          /\ acc.stopped \in BOOLEAN /\ acc.out \in Seq(SlotRange)
      BY <2>1, WalkingMeans
    <2>3. \A i \in 1 .. Len(acc.out) - 1 : acc.out[i].start < acc.out[i + 1].start
      BY <2>1, WalkingMeans
    <2>4. PICK rs : rs = blocker.out
      OBVIOUS
    <2>5. rs \in Seq(SlotRange) /\ SlotsOf(rs) = FreeSlots
      <3>1. blocker.out \in Seq(SlotRange)
        BY BlockerMeans DEF BlockerType
      <3> QED
        BY <1>3, <2>4, <3>1, BlockerMeans
    <2>6. ASSUME NEW i \in 1 .. Len(acc.out)
          PROVE  /\ acc.out[i] \in SlotRange /\ acc.out[i].start # MAX
                 /\ acc.out[i].end = acc.out[i].start + (d - 1)
                 /\ acc.out[i].start .. acc.out[i].end \subseteq SlotsOf(rs)
      <3>1. PICK w : w = acc.out[i]
        OBVIOUS
      <3>2. w \in SlotRange
        BY <2>2, <3>1
      <3>3. PICK h \in 1 .. Len(kept) : Within(kept[h], d, w)
        BY <2>1, <3>1, WalkingMeans
      <3>4. PICK j \in 1 .. Len(rs) : kept[h] = rs[j]
        BY <1>1, <2>4, <3>3, KeptMeans
      <3>5. w.end = w.start + (d - 1) /\ rs[j].start <= w.start /\ w.end <= rs[j].end /\ w.start # MAX
        BY <3>3, <3>4 DEF Within
      <3>6. ASSUME NEW z \in w.start .. w.end PROVE z \in SlotsOf(rs)
        <4>1. PICK a \in Nat, b \in Nat, p \in Nat, q \in Nat :
                 a = w.start /\ b = w.end /\ p = rs[j].start /\ q = rs[j].end
          <5>1. w.start \in Nat /\ w.end \in Nat
            BY <3>2, RangeMeans
          <5>2. rs[j] \in SlotRange
            BY <2>5, <3>4
          <5>3. rs[j].start \in Nat /\ rs[j].end \in Nat
            BY <5>2, RangeMeans
          <5> QED
            BY <5>1, <5>3
        <4>2. z \in Nat /\ a <= z /\ z <= b
          BY <3>6, <4>1
        <4>3. p <= z /\ z <= q
          BY <3>5, <4>1, <4>2
        <4> QED
          BY <2>5, <3>4, <4>1, <4>2, <4>3, SlotsMeans
      <3> QED
        BY <3>1, <3>2, <3>5, <3>6
    <2> QED
      BY <1>1, <2>2, <2>3, <2>5, <2>6
  <1> QED
    BY <1>2, <1>3
-----------------------------------------------------------------------------
(* The theorems. *)

AvailabilityInv == BlockerInv /\ WindowInv

\* The inductive invariant holds in every state.
LEMMA AvailabilityInvariant == Spec => []AvailabilityInv
  <1>1. Init => AvailabilityInv
    <2> SUFFICES ASSUME Init PROVE WindowInv
      BY BlockerInvInit DEF AvailabilityInv
    <2>1. ranges = <<>> /\ windowing = NoWindows /\ pc = "blocks"
      BY DEF Init, NoWindows
    <2>2. ranges \in Seq(SlotRange)
      BY <2>1
    <2> QED
      BY <2>1, <2>2 DEF WindowInv
  <1>2. AvailabilityInv /\ [Next]_vars => AvailabilityInv'
    BY BlockerInvStep, WindowInvStep DEF AvailabilityInv
  <1> QED
    BY <1>1, <1>2, PTL DEF Spec

\* Blocker::next never meets the start that the code calls unreachable!(), and
\* at every point what it has yielded are the free slots up to there: when it
\* is exhausted, all of them.
THEOREM BlockerYieldsFreeSlots == Spec => []YieldsFreeSlots
  <1>1. AvailabilityInv => YieldsFreeSlots
    <2> SUFFICES ASSUME AvailabilityInv PROVE YieldsFreeSlots
      OBVIOUS
    <2>1. BlockerInv /\ WindowInv
      BY DEF AvailabilityInv
    <2>2. request \in Requests /\ pc \in {"blocks", "windows", "done"}
          /\ times \in Seq([kind : {"Start", "End"}, at : Slot])
      BY <2>1 DEF BlockerInv, Event
    <2>3. ranges \in Seq(SlotRange)
      BY <2>1 DEF WindowInv
    <2>4. blocked \in Seq(SlotRange)
      BY <2>1, BlockerMeans
    <2>5. blocker \in [count : Int, pending : BoundedSeq(Slot, 1),
                       out : Seq(SlotRange), panicked : BOOLEAN]
      BY <2>1, BlockerMeans DEF BlockerType
    <2>6. windowing \in [out : Seq(SlotRange), stopped : BOOLEAN]
      BY <2>1, WindowsMean
    <2>7. TypeOK
      BY <2>2, <2>3, <2>4, <2>5, <2>6 DEF TypeOK
    <2>8. ~blocker.panicked /\ blocker.count < 1 /\ Separated(blocker.out)
      BY <2>1, BlockerMeans
    <2>9. ASSUME blocker.out # <<>>
          PROVE  SlotsOf(blocker.out) = {s \in FreeSlots : s <= Last(blocker.out).end}
      <3>1. SlotsOf(blocker.out) = UpToLast(FreeSlots, blocker.out)
        BY <2>1, <2>9, BlockerMeans
      <3> QED
        BY <3>1 DEF UpToLast
    <2>10. pc # "blocks" => SlotsOf(blocker.out) = FreeSlots /\ blocker.pending = <<>>
      BY <2>1, BlockerMeans
    <2> QED
      BY <2>7, <2>8, <2>9, <2>10 DEF YieldsFreeSlots
  <1> QED
    BY <1>1, AvailabilityInvariant, PTL

\* Every window of a meeting, that Schedule tries it in, lies in the times that
\* Participant::get_availability gives each of its participants.
THEOREM WindowsSuitEveryone == Spec => []EveryoneCanCome
  <1>1. AvailabilityInv => EveryoneCanCome
    <2> SUFFICES ASSUME AvailabilityInv,
                        NEW w \in ToSet(windowing.out), NEW p \in DOMAIN request.participants
                 PROVE  w.start .. w.end \subseteq
                           SlotsOf(ParticipantAvailability(request.available, request.participants[p]))
      BY DEF EveryoneCanCome
    <2>1. BlockerInv /\ WindowInv
      BY DEF AvailabilityInv
    <2>2. request \in Requests
      BY <2>1 DEF BlockerInv
    <2>3. PICK available, busy : available = request.available /\ busy = request.participants[p]
      OBVIOUS
    <2>4. available \in Seq(SlotRange) /\ busy \in Seq(SlotRange)
      <3>1. request.available \in Seq(SlotRange) /\ request.participants \in Seq(Seq(SlotRange))
        BY <2>2, RequestMeans
      <3> QED
        BY <2>3, <3>1
    <2>5. PICK i \in 1 .. Len(windowing.out) : w = windowing.out[i]
      <3>1. windowing.out \in Seq(SlotRange)
        BY <2>1, WindowsMean
      <3> QED
        BY <3>1 DEF ToSet
    <2>6. w \in SlotRange /\ w.start .. w.end \subseteq FreeSlots
      BY <2>1, <2>5, WindowsMean
    <2>7. FreeSlots \subseteq SlotsOf(available) \ SlotsOf(busy)
      BY <2>3 DEF FreeSlots
    <2>8. w.start \in w.start .. w.end
      <3>1. w.start \in Nat /\ w.end \in Nat /\ w.start <= w.end
        BY <2>6, RangeMeans
      <3> QED
        BY <3>1
    <2>9. available # <<>>
      <3>1. SlotsOf(available) # {}
        BY <2>6, <2>7, <2>8
      <3> QED
        BY <2>4, <3>1, SlotsMeans
    <2>10. CASE busy = <<>>
      <3>1. ParticipantAvailability(available, busy) = available
        BY <2>9, <2>10 DEF ParticipantAvailability
      <3> QED
        BY <2>3, <2>6, <2>7, <3>1
    <2>11. CASE busy # <<>>
      <3>1. ParticipantAvailability(available, busy) = BlocksRun(available, busy).out
        BY <2>9, <2>11 DEF ParticipantAvailability
      <3>2. SlotsOf(BlocksRun(available, busy).out) = SlotsOf(available) \ SlotsOf(busy)
        BY <2>4, BlocksMean
      <3> QED
        BY <2>3, <2>6, <2>7, <3>1, <3>2
    <2> QED
      BY <2>10, <2>11
  <1> QED
    BY <1>1, AvailabilityInvariant, PTL

\* TimeWindow yields each position of the meeting in the free slots once, in
\* ascending order, but for the one that starts at N::max_value().
THEOREM WindowsAreThePositions == Spec => []WindowsInOrder
  <1>1. AvailabilityInv => WindowsInOrder
    <2> SUFFICES ASSUME AvailabilityInv, pc = "done" PROVE WindowsInOrder
      BY DEF WindowsInOrder
    <2>1. BlockerInv /\ WindowInv
      BY DEF AvailabilityInv
    <2>2. PICK d, kept, rs, acc :
             d = request.duration /\ kept = KeptRanges /\ rs = blocker.out /\ acc = windowing
      OBVIOUS
    <2>3. d \in Nat /\ d >= 1 /\ d <= MAX /\ kept \in Seq(SlotRange)
      BY <2>1, <2>2, KeptMeans
    <2>4. rs \in Seq(SlotRange) /\ Separated(rs) /\ SlotsOf(rs) = FreeSlots
      <3>1. blocker.out \in Seq(SlotRange)
        BY <2>1, BlockerMeans DEF BlockerType
      <3> QED
        BY <2>1, <2>2, <3>1, BlockerMeans
    <2>5. acc.out \in Seq(SlotRange)
      BY <2>1, <2>2, WindowsMean
    <2>6. PICK last : last = [start |-> MAX, end |-> MAX]
      OBVIOUS
    <2>7. last.start = MAX
      BY <2>6
    <2>8. ASSUME NEW i \in 1 .. Len(acc.out) PROVE acc.out[i] \in Positions \ {last}
      <3>1. PICK w : w = acc.out[i]
        OBVIOUS
      <3>2. /\ w \in SlotRange /\ w.start # MAX /\ w.end = w.start + (d - 1)
            /\ w.start .. w.end \subseteq FreeSlots
        BY <2>1, <2>2, <3>1, WindowsMean
      <3>3. w.start \in Nat
        BY <3>2, RangeMeans
      <3>4. w.end - w.start + 1 = d
        BY <2>3, <3>2, <3>3
      <3> QED
        BY <2>2, <2>7, <3>1, <3>2, <3>4 DEF Positions
    <2>9. ASSUME NEW w \in Positions, w # last PROVE \E i \in 1 .. Len(acc.out) : acc.out[i] = w
      <3>1. w \in SlotRange /\ w.end - w.start + 1 = d /\ w.start .. w.end \subseteq SlotsOf(rs)
        BY <2>2, <2>4 DEF Positions
      <3>2. PICK a \in Nat, b \in Nat : a = w.start /\ b = w.end
        BY <3>1, RangeMeans
      <3>3. a <= b /\ b <= MAX /\ w = [start |-> a, end |-> b]
        BY <3>1, <3>2, RangeMeans
      <3>4. b = a + (d - 1)
        BY <2>3, <3>1, <3>2
      <3>5. a # MAX
        <4> SUFFICES ASSUME a = MAX PROVE FALSE
          OBVIOUS
        <4>1. b = MAX
          BY <3>3, MaxAssumption
        <4> QED
          BY <2>6, <2>9, <3>3, <4>1
      <3>6. a .. b \subseteq SlotsOf(rs)
        BY <3>1, <3>2
      <3>7. PICK j \in 1 .. Len(rs) : rs[j].start <= a /\ b <= rs[j].end
        BY <2>4, <3>3, <3>6, UnbrokenRange
      <3>8. LongEnough(rs[j], d)
        <4>1. PICK p \in Nat, q \in Nat : p = rs[j].start /\ q = rs[j].end
          BY <2>4, <3>7, RangeMeans
        <4>2. p <= a /\ b <= q
          BY <3>7, <4>1
        <4>3. q - p + 1 >= d
          BY <2>3, <3>4, <4>1, <4>2
        <4> QED
          BY <4>1, <4>3 DEF LongEnough
      <3>9. PICK h \in 1 .. Len(kept) : kept[h] = rs[j]
        BY <2>1, <2>2, <3>7, <3>8, KeptMeans
      <3>10. Within(kept[h], d, w)
        BY <3>2, <3>4, <3>5, <3>7, <3>9 DEF Within
      <3>11. Walking(kept, d, ranges, acc) /\ ranges = <<>>
        BY <2>1, <2>2 DEF WindowInv
      <3> QED
        BY <2>3, <3>1, <3>9, <3>10, <3>11, WalkingAll
    <2>10. ToSet(acc.out) = Positions \ {last}
      <3>1. \A w : w \in ToSet(acc.out) <=> \E i \in 1 .. Len(acc.out) : acc.out[i] = w
        BY <2>5 DEF ToSet
      <3>2. ASSUME NEW w PROVE w \in ToSet(acc.out) <=> w \in Positions \ {last}
        BY <2>8, <2>9, <3>1
      <3> QED
        BY <3>2
    <2>11. \A i \in 1 .. Len(acc.out) - 1 : acc.out[i].start < acc.out[i + 1].start
      BY <2>1, <2>2, WindowsMean
    <2> QED
      BY <2>2, <2>6, <2>10, <2>11 DEF WindowsInOrder
  <1> QED
    BY <1>1, AvailabilityInvariant, PTL

\* The key by which meetings are sorted, with one for each of the ranges of the
\* meeting, is the number of its positions.
THEOREM SlackIsPositions == Spec => []SlackCountsWindows
  <1>1. AvailabilityInv => SlackCountsWindows
    <2> SUFFICES ASSUME AvailabilityInv, pc = "done" PROVE SlackCountsWindows
      BY DEF SlackCountsWindows
    <2>1. BlockerInv /\ WindowInv
      BY DEF AvailabilityInv
    <2>2. PICK d, kept, rs, positions :
             /\ d = request.duration /\ kept = KeptRanges /\ rs = blocker.out
             /\ positions = Positions
      OBVIOUS
    <2>3. /\ d \in Nat /\ d >= 1 /\ d <= MAX /\ kept \in Seq(SlotRange) /\ Separated(kept)
          /\ \A h \in 1 .. Len(kept) : LongEnough(kept[h], d)
      BY <2>1, <2>2, KeptMeans
    <2>4. rs \in Seq(SlotRange) /\ Separated(rs) /\ SlotsOf(rs) = FreeSlots
      <3>1. blocker.out \in Seq(SlotRange)
        BY <2>1, BlockerMeans DEF BlockerType
      <3> QED
        BY <2>1, <2>2, <3>1, BlockerMeans
    <2>5. ASSUME NEW w \in SlotRange
          PROVE  w \in positions <=> \E h \in 1 .. Len(kept) : Fits(kept[h], d, w)
      <3>1. PICK a \in Nat, b \in Nat : a = w.start /\ b = w.end /\ a <= b
        BY RangeMeans
      <3>2. w \in positions <=> b - a + 1 = d /\ a .. b \subseteq SlotsOf(rs)
        BY <2>2, <2>4, <3>1 DEF Positions
      <3>3. ASSUME b - a + 1 = d, a .. b \subseteq SlotsOf(rs)
            PROVE  \E h \in 1 .. Len(kept) : Fits(kept[h], d, w)
        <4>1. PICK j \in 1 .. Len(rs) : rs[j].start <= a /\ b <= rs[j].end
          BY <2>4, <3>1, <3>3, UnbrokenRange
        <4>2. PICK p \in Nat, q \in Nat : p = rs[j].start /\ q = rs[j].end
          BY <2>4, <4>1, RangeMeans
        <4>3. q - p + 1 >= d /\ b = a + (d - 1)
          <5>1. p <= a /\ b <= q
            BY <4>1, <4>2
          <5>2. b = a + (d - 1)
            BY <2>3, <3>3
          <5> QED
            BY <2>3, <5>1, <5>2
        <4>4. LongEnough(rs[j], d)
          BY <4>2, <4>3 DEF LongEnough
        <4>5. PICK h \in 1 .. Len(kept) : kept[h] = rs[j]
          BY <2>1, <2>2, <4>1, <4>4, KeptMeans
        <4>6. Fits(kept[h], d, w)
          BY <3>1, <4>1, <4>3, <4>5 DEF Fits
        <4> QED
          BY <4>6
      <3>4. ASSUME NEW h \in 1 .. Len(kept), Fits(kept[h], d, w)
            PROVE  b - a + 1 = d /\ a .. b \subseteq SlotsOf(rs)
        <4>1. PICK j \in 1 .. Len(rs) : kept[h] = rs[j]
          BY <2>1, <2>2, KeptMeans
        <4>2. b = a + (d - 1) /\ rs[j].start <= a /\ b <= rs[j].end
          BY <3>1, <3>4, <4>1 DEF Fits
        <4>3. PICK p \in Nat, q \in Nat : p = rs[j].start /\ q = rs[j].end
          BY <2>4, <4>1, RangeMeans
        <4>4. ASSUME NEW z \in a .. b PROVE z \in SlotsOf(rs)
          <5>1. z \in Nat /\ p <= z /\ z <= q
            BY <4>2, <4>3
          <5> QED
            BY <2>4, <4>1, <4>3, <5>1, SlotsMeans
        <4>5. b - a + 1 = d
          BY <2>3, <4>2
        <4> QED
          BY <4>4, <4>5
      <3> QED
        BY <3>2, <3>3, <3>4
    <2>6. positions = {w \in SlotRange : \E h \in 1 .. Len(kept) : Fits(kept[h], d, w)}
      <3>1. \A w \in positions : w \in SlotRange
        BY <2>2 DEF Positions
      <3> QED
        BY <2>5, <3>1
    <2>7. Cardinality(positions) = Slack(kept, d) + Len(kept)
      BY <2>3, <2>6, SlackCounts
    <2>8. MeetingAvailability(request.available, blocked, request.duration) = kept
      <3>1. times = <<>> /\ request \in Requests
        BY <2>1 DEF BlockerInv
      <3>2. request.available \in Seq(SlotRange) /\ blocked \in Seq(SlotRange)
        BY <2>1, <3>1, RequestMeans, BlockerMeans
      <3>3. CASE request.available # <<>>
        <4>1. Consumed(request.available, blocked, times, blocker)
          BY <2>1, <3>3 DEF BlockerInv
        <4>2. blocker = BlocksRun(request.available, blocked)
          BY <3>1, <3>2, <4>1, ConsumedAll
        <4> QED
          BY <2>2, <3>3, <4>2 DEF MeetingAvailability, KeptRanges
      <3>4. CASE request.available = <<>>
        <4>1. rs = <<>>
          <5>1. blocker = Blocker(blocked)
            BY <2>1, <3>4 DEF BlockerInv
          <5> QED
            BY <2>2, <5>1 DEF Blocker
        <4>2. kept = <<>>
          <5> SUFFICES ASSUME kept # <<>> PROVE FALSE
            OBVIOUS
          <5>1. 1 \in 1 .. Len(kept)
            BY <2>3, LastMeans
          <5>2. PICK j \in 1 .. Len(rs) : kept[1] = rs[j]
            BY <2>1, <2>2, <5>1, KeptMeans
          <5> QED
            BY <4>1, <5>2
        <4> QED
          BY <3>4, <4>2 DEF MeetingAvailability
      <3> QED
        BY <3>3, <3>4
    <2> QED
      BY <2>2, <2>7, <2>8 DEF SlackCountsWindows
  <1> QED
    BY <1>1, AvailabilityInvariant, PTL

-----------------------------------------------------------------------------
(* The page's arithmetic. *)

\* The least and the greatest of some slots.
LEMMA MinMeans ==
    ASSUME NEW T, T \subseteq Slot, T # {}
    PROVE  Min(T) \in T /\ \A y \in T : Min(T) <= y
  <1>1. T \subseteq Nat
    BY MaxAssumption DEF Slot
  <1>2. \E x \in T : \A y \in T : x <= y
    BY <1>1, LeastOfNat
  <1> QED
    BY <1>2 DEF Min

\* The greatest of some slots.
LEMMA MaxMeans ==
    ASSUME NEW T, T \subseteq Slot, T # {}
    PROVE  Max(T) \in T /\ \A y \in T : y <= Max(T)
  <1>1. \A y \in T : y \in Nat /\ y <= MAX /\ MAX - y \in Nat
    BY MaxAssumption DEF Slot
  <1> DEFINE U == {MAX - y : y \in T}
  <1>2. U \subseteq Nat /\ U # {}
    BY <1>1
  <1>3. PICK u \in U : \A v \in U : u <= v
    <2> HIDE DEF U
    <2> QED
      BY <1>2, LeastOfNat
  <1>4. PICK x \in T : u = MAX - x
    OBVIOUS
  <1>5. ASSUME NEW y \in T PROVE y <= x
    <2>1. MAX - y \in U
      OBVIOUS
    <2>2. MAX - x <= MAX - y
      BY <1>3, <1>4, <2>1
    <2> QED
      BY <1>1, <2>2, MaxAssumption
  <1>6. \E z \in T : \A y \in T : y <= z
    BY <1>5
  <1> QED
    BY <1>6 DEF Max

\* What sequences that are put together have in them.
LEMMA FlatMembers ==
    ASSUME NEW E, NEW n \in Nat, NEW ss \in [1 .. n -> Seq(E)]
    PROVE  /\ FlattenSeq(ss) \in Seq(E)
           /\ \A x : x \in ToSet(FlattenSeq(ss)) <=> \E i \in 1 .. n : x \in ToSet(ss[i])
  <1>1. PICK flat : flat = FlattenSeq(ss)
    OBVIOUS
  <1>2. flat \in Seq(E) /\ \E offset \in [1 .. n -> Nat] : Placed(n, ss, flat, offset)
    BY <1>1, FlattenPlaces
  <1>3. PICK offset : Placed(n, ss, flat, offset)
    BY <1>2
  <1>4. \A s \in Seq(E) : ToSet(s) = {s[j] : j \in 1 .. Len(s)}
    BY DEF ToSet
  <1>5. ASSUME NEW x, x \in ToSet(flat) PROVE \E i \in 1 .. n : x \in ToSet(ss[i])
    <2>1. PICK q \in 1 .. Len(flat) : x = flat[q]
      BY <1>2, <1>4, <1>5
    <2>2. PICK i \in 1 .. n : \E j \in 1 .. Len(ss[i]) : q = offset[i] + j
      BY <1>3, <2>1 DEF Placed
    <2>3. PICK j \in 1 .. Len(ss[i]) : q = offset[i] + j
      BY <2>2
    <2>4. flat[offset[i] + j] = ss[i][j]
      BY <1>3, <2>2, <2>3 DEF Placed
    <2>5. ss[i] \in Seq(E)
      OBVIOUS
    <2>6. ss[i][j] \in ToSet(ss[i])
      BY <1>4, <2>3, <2>5
    <2> QED
      BY <2>1, <2>3, <2>4, <2>6
  <1>6. ASSUME NEW i \in 1 .. n, NEW x, x \in ToSet(ss[i]) PROVE x \in ToSet(flat)
    <2>1. ss[i] \in Seq(E)
      OBVIOUS
    <2>2. PICK j \in 1 .. Len(ss[i]) : x = ss[i][j]
      BY <1>4, <1>6, <2>1
    <2>3. offset[i] + j \in 1 .. Len(flat) /\ flat[offset[i] + j] = ss[i][j]
      BY <1>3, <2>2 DEF Placed
    <2> QED
      BY <1>2, <1>4, <2>2, <2>3
  <1> QED
    BY <1>1, <1>2, <1>5, <1>6

\* The slots of ranges, as a set of them has them.
Holds(r, x) == r.start <= x /\ x <= r.end

\* The slots of some ranges are those that one of them holds.
LEMMA SlotsHeld ==
    ASSUME NEW rs \in Seq(SlotRange)
    PROVE  /\ \A r \in ToSet(rs) : /\ r \in SlotRange /\ r.start \in Nat /\ r.end \in Nat
                                   /\ r.start <= r.end /\ r.end <= MAX
           /\ \A x : x \in SlotsOf(rs) <=> x \in Nat /\ \E r \in ToSet(rs) : Holds(r, x)
  <1>1. ToSet(rs) = {rs[i] : i \in 1 .. Len(rs)}
    BY DEF ToSet
  <1>2. \A i \in 1 .. Len(rs) : rs[i] \in SlotRange
    OBVIOUS
  <1>3. ASSUME NEW r \in ToSet(rs)
        PROVE  /\ r \in SlotRange /\ r.start \in Nat /\ r.end \in Nat
               /\ r.start <= r.end /\ r.end <= MAX
    BY <1>1, <1>2, RangeMeans
  <1>4. ASSUME NEW x
        PROVE  x \in SlotsOf(rs) <=> x \in Nat /\ \E r \in ToSet(rs) : Holds(r, x)
    BY <1>1, SlotsMeans DEF Holds
  <1> QED
    BY <1>3, <1>4

\* List.partition sets aside what is clear of the event.
LEMMA UntouchedMeans ==
    ASSUME NEW list \in Seq(SlotRange), NEW event
    PROVE  /\ Untouched(list, event) \in Seq(SlotRange)
           /\ ToSet(Untouched(list, event)) = {ev \in ToSet(list) : Clear(ev, event)}
  <1>1. PICK n \in Nat : n = Len(list) /\ DOMAIN list = 1 .. n
    OBVIOUS
  <1>2. PICK ss : ss = [i \in DOMAIN list |-> IF Clear(list[i], event) THEN <<list[i]>> ELSE <<>>]
    OBVIOUS
  <1>3. ASSUME NEW i \in 1 .. n
        PROVE  /\ ss[i] \in Seq(SlotRange)
               /\ ToSet(ss[i]) = IF Clear(list[i], event) THEN {list[i]} ELSE {}
    <2>1. PICK r \in SlotRange : r = list[i]
      BY <1>1
    <2>2. <<r>> \in Seq(SlotRange) /\ ToSet(<<r>>) = {r}
      BY DEF ToSet
    <2>3. <<>> \in Seq(SlotRange) /\ ToSet(<<>>) = {}
      BY DEF ToSet
    <2>4. ss[i] = IF Clear(r, event) THEN <<r>> ELSE <<>>
      BY <1>1, <1>2, <2>1
    <2> QED
      BY <2>1, <2>2, <2>3, <2>4
  <1>4. ss \in [1 .. n -> Seq(SlotRange)]
    BY <1>1, <1>2, <1>3
  <1>5. /\ FlattenSeq(ss) \in Seq(SlotRange)
        /\ \A x : x \in ToSet(FlattenSeq(ss)) <=> \E i \in 1 .. n : x \in ToSet(ss[i])
    BY <1>4, FlatMembers
  <1>6. ToSet(list) = {list[i] : i \in 1 .. n}
    BY <1>1 DEF ToSet
  <1>7. \A x : x \in ToSet(FlattenSeq(ss)) <=> x \in ToSet(list) /\ Clear(x, event)
    <2>1. ASSUME NEW i \in 1 .. n, NEW x
          PROVE  x \in ToSet(ss[i]) <=> x = list[i] /\ Clear(x, event)
      BY <1>3
    <2>2. \A x : x \in ToSet(list) <=> \E i \in 1 .. n : x = list[i]
      BY <1>6
    <2> QED
      BY <1>5, <2>1, <2>2
  <1>8. ToSet(FlattenSeq(ss)) = {ev \in ToSet(list) : Clear(ev, event)}
    BY <1>7
  <1> QED
    BY <1>2, <1>5, <1>8 DEF Untouched

\* What two sequences, one after the other, have in them.
LEMMA ConcatMembers ==
    ASSUME NEW a \in Seq(SlotRange), NEW b \in Seq(SlotRange), NEW c \in SlotRange
    PROVE  /\ a \o b \in Seq(SlotRange)
           /\ \A x : x \in ToSet(a \o b) <=> x \in ToSet(a) \/ x \in ToSet(b)
           /\ <<c>> \o b \in Seq(SlotRange)
           /\ \A x : x \in ToSet(<<c>> \o b) <=> x = c \/ x \in ToSet(b)
  <1>1. ASSUME NEW s \in Seq(SlotRange), NEW t \in Seq(SlotRange)
        PROVE  /\ s \o t \in Seq(SlotRange)
               /\ \A x : x \in ToSet(s \o t) <=> x \in ToSet(s) \/ x \in ToSet(t)
    <2>1. PICK m \in Nat, n \in Nat : m = Len(s) /\ n = Len(t)
      OBVIOUS
    <2>2. /\ s \o t \in Seq(SlotRange) /\ Len(s \o t) = m + n
          /\ \A i \in 1 .. m + n : (s \o t)[i] = IF i <= m THEN s[i] ELSE t[i - m]
      BY <2>1, ConcatProperties
    <2>3. PICK u : u = s \o t
      OBVIOUS
    <2>0. \A q \in Seq(SlotRange) : \A x : x \in ToSet(q) <=> \E i \in 1 .. Len(q) : x = q[i]
      BY DEF ToSet
    <2>11. u \in Seq(SlotRange) /\ Len(u) = m + n
      BY <2>2, <2>3
    <2>4. \A x : x \in ToSet(u) <=> \E i \in 1 .. m + n : x = u[i]
      BY <2>0, <2>11
    <2>5. \A x : x \in ToSet(s) <=> \E i \in 1 .. m : x = s[i]
      BY <2>0, <2>1
    <2>6. \A x : x \in ToSet(t) <=> \E i \in 1 .. n : x = t[i]
      BY <2>0, <2>1
    <2>7. \A i \in 1 .. m : i \in 1 .. m + n /\ u[i] = s[i]
      BY <2>2, <2>3
    <2>8. \A i \in 1 .. n : m + i \in 1 .. m + n /\ u[m + i] = t[i]
      <3> SUFFICES ASSUME NEW i \in 1 .. n PROVE m + i \in 1 .. m + n /\ u[m + i] = t[i]
        OBVIOUS
      <3>1. m + i \in 1 .. m + n /\ ~(m + i <= m) /\ m + i - m = i
        OBVIOUS
      <3> QED
        BY <2>2, <2>3, <3>1
    <2>9. ASSUME NEW i \in 1 .. m + n
          PROVE  (i \in 1 .. m /\ u[i] = s[i]) \/ \E j \in 1 .. n : u[i] = t[j]
      <3>1. CASE i <= m
        BY <2>7, <3>1
      <3>2. CASE ~(i <= m)
        <4>1. i - m \in 1 .. n /\ u[i] = t[i - m]
          BY <2>2, <2>3, <3>2
        <4> QED
          BY <4>1
      <3> QED
        BY <3>1, <3>2
    <2>10. ASSUME NEW x PROVE x \in ToSet(u) <=> x \in ToSet(s) \/ x \in ToSet(t)
      <3>1. ASSUME x \in ToSet(u) PROVE x \in ToSet(s) \/ x \in ToSet(t)
        BY <2>4, <2>5, <2>6, <2>9, <3>1
      <3>2. ASSUME x \in ToSet(s) PROVE x \in ToSet(u)
        BY <2>4, <2>5, <2>7, <3>2
      <3>3. ASSUME x \in ToSet(t) PROVE x \in ToSet(u)
        BY <2>4, <2>6, <2>8, <3>3
      <3> QED
        BY <3>1, <3>2, <3>3
    <2> QED
      BY <2>2, <2>3, <2>10
  <1>2. PICK one : one = <<c>>
    OBVIOUS
  <1>3. one \in Seq(SlotRange) /\ ToSet(one) = {c}
    BY <1>2 DEF ToSet
  <1>4. one \o b \in Seq(SlotRange) /\ \A x : x \in ToSet(one \o b) <=> x \in ToSet(one) \/ x \in ToSet(b)
    BY <1>1, <1>3
  <1>5. a \o b \in Seq(SlotRange) /\ \A x : x \in ToSet(a \o b) <=> x \in ToSet(a) \/ x \in ToSet(b)
    BY <1>1
  <1> QED
    BY <1>2, <1>3, <1>4, <1>5

\* An event and what it touches become one, which has their slots and no other.
LEMMA AddEventMeans ==
    ASSUME NEW list \in Seq(SlotRange), NEW event \in SlotRange
    PROVE  /\ AddEvent(list, event) \in Seq(SlotRange)
           /\ \A x \in Nat : x \in SlotsOf(AddEvent(list, event))
                                <=> x \in SlotsOf(list) \/ Holds(event, x)
           /\ \A ev \in ToSet(AddEvent(list, event)) :
                 ev \in ToSet(list) \/ (ev.start <= event.start /\ event.end <= ev.end)
  <1>1. PICK touching : touching = {event} \cup {ev \in ToSet(list) : ~Clear(ev, event)}
    OBVIOUS
  <1>2. /\ event.start \in Nat /\ event.end \in Nat /\ event.start <= event.end /\ event.end <= MAX
        /\ \A ev \in ToSet(list) : /\ ev \in SlotRange /\ ev.start \in Nat /\ ev.end \in Nat
                                   /\ ev.start <= ev.end /\ ev.end <= MAX
    BY RangeMeans, SlotsHeld
  <1>3. \A ev \in touching :
           /\ ev.start \in Nat /\ ev.end \in Nat /\ ev.start <= ev.end /\ ev.end <= MAX
           /\ ev = event \/ ev \in ToSet(list)
           /\ event.start <= ev.end + 1 /\ ev.start <= event.end + 1
    BY <1>1, <1>2 DEF Clear
  <1>4. event \in touching
    BY <1>1
  <1>5. PICK starts, ends : /\ starts = {ev.start : ev \in touching}
                            /\ ends = {ev.end : ev \in touching}
    OBVIOUS
  <1>6. starts \subseteq Slot /\ ends \subseteq Slot /\ starts # {} /\ ends # {}
    BY <1>3, <1>4, <1>5, MaxAssumption DEF Slot
  <1>7. Min(starts) \in starts /\ \A y \in starts : Min(starts) <= y
    BY <1>6, MinMeans
  <1>8. Max(ends) \in ends /\ \A y \in ends : y <= Max(ends)
    BY <1>6, MaxMeans
  <1>9. PICK a \in Nat, b \in Nat : a = Min(starts) /\ b = Max(ends)
    <2>1. Min(starts) \in Slot /\ Max(ends) \in Slot
      BY <1>6, <1>7, <1>8
    <2>2. Slot \subseteq Nat
      BY MaxAssumption DEF Slot
    <2> QED
      BY <2>1, <2>2
  <1>10. PICK first \in touching : first.start = a
    BY <1>5, <1>7, <1>9
  <1>11. PICK last \in touching : last.end = b
    BY <1>5, <1>8, <1>9
  <1>12. \A ev \in touching : a <= ev.start /\ ev.end <= b
    BY <1>5, <1>7, <1>8, <1>9
  <1>13. a <= b /\ b <= MAX /\ a <= event.start /\ event.end <= b
    BY <1>2, <1>3, <1>4, <1>11, <1>12
  <1>14. PICK whole : whole = [start |-> a, end |-> b]
    OBVIOUS
  <1>15. whole \in SlotRange /\ whole.start = a /\ whole.end = b
    BY <1>13, <1>14, MaxAssumption DEF SlotRange, Slot
  <1>16. PICK rest : rest = Untouched(list, event)
    OBVIOUS
  <1>17. rest \in Seq(SlotRange) /\ ToSet(rest) = {ev \in ToSet(list) : Clear(ev, event)}
    BY <1>16, UntouchedMeans
  <1>18. PICK added : added = <<whole>> \o rest
    OBVIOUS
  <1>19. AddEvent(list, event) = added
    BY <1>1, <1>5, <1>9, <1>14, <1>16, <1>18 DEF AddEvent
  <1>20. added \in Seq(SlotRange) /\ \A ev : ev \in ToSet(added) <=> ev = whole \/ ev \in ToSet(rest)
    BY <1>15, <1>17, <1>18, ConcatMembers
  <1>21. ASSUME NEW x \in Nat
         PROVE  a <= x /\ x <= b <=> \E ev \in touching : Holds(ev, x)
    <2>1. ASSUME a <= x, x <= b PROVE \E ev \in touching : Holds(ev, x)
      <3>1. CASE x < event.start
        BY <1>2, <1>3, <1>10, <2>1, <3>1 DEF Holds
      <3>2. CASE event.end < x
        BY <1>2, <1>3, <1>11, <2>1, <3>2 DEF Holds
      <3>3. CASE ~(x < event.start) /\ ~(event.end < x)
        BY <1>2, <1>4, <3>3 DEF Holds
      <3> QED
        BY <3>1, <3>2, <3>3
    <2>2. ASSUME NEW ev \in touching, Holds(ev, x) PROVE a <= x /\ x <= b
      BY <1>3, <1>12, <2>2 DEF Holds
    <2> QED
      BY <2>1, <2>2
  <1>22. \A ev : ev \in touching \/ ev \in ToSet(rest) <=> ev = event \/ ev \in ToSet(list)
    BY <1>1, <1>17
  <1>23. ASSUME NEW x \in Nat
         PROVE  x \in SlotsOf(added) <=> x \in SlotsOf(list) \/ Holds(event, x)
    <2>1. x \in SlotsOf(added) <=> \E r \in ToSet(added) : Holds(r, x)
      BY <1>20, SlotsHeld
    <2>2. x \in SlotsOf(list) <=> \E r \in ToSet(list) : Holds(r, x)
      BY SlotsHeld
    <2>3. Holds(whole, x) <=> a <= x /\ x <= b
      BY <1>15 DEF Holds
    <2>4. x \in SlotsOf(added) <=> (\E ev \in touching : Holds(ev, x)) \/ \E r \in ToSet(rest) : Holds(r, x)
      BY <1>20, <1>21, <2>1, <2>3
    <2> QED
      BY <1>22, <2>2, <2>4
  <1>24. \A ev \in ToSet(added) :
            ev \in ToSet(list) \/ (ev.start <= event.start /\ event.end <= ev.end)
    BY <1>13, <1>15, <1>17, <1>20
  <1> QED
    BY <1>19, <1>20, <1>23, <1>24

\* What has become of the first n events.
Merged(events, n, list) ==
    /\ list \in Seq(SlotRange)
    /\ \A x \in Nat : x \in SlotsOf(list) <=> \E i \in 1 .. n : Holds(events[i], x)
    /\ \A ev \in ToSet(list) : \E i \in 1 .. n : ev.start <= events[i].start /\ events[i].end <= ev.end

\* Each event that is added is merged with what it touches.
LEMMA MergedStep ==
    ASSUME NEW events \in Seq(SlotRange), NEW n \in Nat, n + 1 \in 1 .. Len(events),
           NEW list, Merged(events, n, list)
    PROVE  Merged(events, n + 1, AddEvent(list, events[n + 1]))
  <1>1. PICK event \in SlotRange : event = events[n + 1]
    OBVIOUS
  <1>2. PICK added : added = AddEvent(list, event)
    OBVIOUS
  <1>3. list \in Seq(SlotRange)
    BY DEF Merged
  <1>4. /\ added \in Seq(SlotRange)
        /\ \A x \in Nat : x \in SlotsOf(added) <=> x \in SlotsOf(list) \/ Holds(event, x)
        /\ \A ev \in ToSet(added) :
              ev \in ToSet(list) \/ (ev.start <= event.start /\ event.end <= ev.end)
    BY <1>2, <1>3, AddEventMeans
  <1>5. \A i : i \in 1 .. n + 1 <=> i \in 1 .. n \/ i = n + 1
    OBVIOUS
  <1>6. \A x \in Nat : x \in SlotsOf(added) <=> \E i \in 1 .. n + 1 : Holds(events[i], x)
    BY <1>1, <1>4, <1>5 DEF Merged
  <1>7. \A ev \in ToSet(added) :
           \E i \in 1 .. n + 1 : ev.start <= events[i].start /\ events[i].end <= ev.end
    BY <1>1, <1>4, <1>5 DEF Merged
  <1> QED
    BY <1>1, <1>2, <1>4, <1>6, <1>7 DEF Merged

\* The run of MergeTimes over its events.
LEMMA MergeTimesSteps ==
    ASSUME NEW events \in Seq(SlotRange)
    PROVE  \E run : /\ run[0] = <<>>
                    /\ \A k \in 0 .. Len(events) - 1 : run[k + 1] = AddEvent(run[k], events[k + 1])
                    /\ MergeTimes(events) = run[Len(events)]
  <1>0. PICK n \in Nat : n = Len(events)
    OBVIOUS
  <1>1. PICK first : n = Len(events) /\ first = <<>>
    BY <1>0
  <1> DEFINE Runs(f, k) == f = [i \in 0 .. k |-> IF i = 0 THEN first ELSE AddEvent(f[i - 1], events[i])]
             T == {k \in 0 .. n : \E f : Runs(f, k)}
  <1>2. 0 \in T
    <2>1. PICK f : f = [i \in 0 .. 0 |-> first]
      OBVIOUS
    <2>2. \A i \in 0 .. 0 : i = 0
      OBVIOUS
    <2>3. Runs(f, 0)
      BY <2>1, <2>2
    <2>4. 0 \in 0 .. n
      OBVIOUS
    <2> QED
      BY <2>3, <2>4
  <1>3. ASSUME NEW k \in 0 .. n - 1, k \in T PROVE k + 1 \in T
    <2>1. PICK f : Runs(f, k)
      BY <1>3
    <2> DEFINE g == [i \in 0 .. k + 1 |-> IF i = k + 1 THEN AddEvent(f[k], events[k + 1]) ELSE f[i]]
    <2>4. ASSUME NEW i \in 0 .. k + 1
          PROVE  g[i] = IF i = 0 THEN first ELSE AddEvent(g[i - 1], events[i])
      <3>1. CASE i = k + 1
        <4>1. g[i] = AddEvent(f[k], events[k + 1]) /\ i # 0 /\ g[i - 1] = f[k]
          BY <3>1
        <4> QED
          BY <3>1, <4>1
      <3>2. CASE i # k + 1
        <4>1. i \in 0 .. k /\ g[i] = f[i] /\ (i # 0 => g[i - 1] = f[i - 1])
          BY <3>2
        <4>2. f[i] = IF i = 0 THEN first ELSE AddEvent(f[i - 1], events[i])
          BY <2>1, <4>1
        <4> QED
          BY <4>1, <4>2
      <3> QED
        BY <3>1, <3>2
    <2>5. g = [i \in 0 .. k + 1 |-> g[i]]
      OBVIOUS
    <2> HIDE DEF g
    <2>6. [i \in 0 .. k + 1 |-> g[i]] =
             [i \in 0 .. k + 1 |-> IF i = 0 THEN first ELSE AddEvent(g[i - 1], events[i])]
      BY <2>4, Zenon
    <2>7. Runs(g, k + 1)
      BY <2>5, <2>6, Zenon
    <2>8. k + 1 \in 0 .. n
      OBVIOUS
    <2> QED
      BY <2>7, <2>8
  <1>4. n \in T
    <2> HIDE DEF T
    <2>1. 0 .. n \subseteq T
      BY <1>2, <1>3, UpToN
    <2> QED
      BY <2>1
  <1> DEFINE Means(h) ==
                h = [i \in 0 .. Len(events) |-> IF i = 0 THEN <<>> ELSE AddEvent(h[i - 1], events[i])]
             run == CHOOSE h : Means(h)
  <1>5. PICK f : Means(f)
    BY <1>1, <1>4
  <1>6. Means(run)
    BY <1>5
  <1>7. MergeTimes(events) = run[Len(events)]
    BY DEF MergeTimes
  <1> HIDE DEF run
  <1>8. 0 \in 0 .. n /\ run[0] = first
    BY <1>1, <1>6
  <1>9. ASSUME NEW k \in 0 .. n - 1 PROVE run[k + 1] = AddEvent(run[k], events[k + 1])
    <2>1. k + 1 \in 0 .. n /\ k + 1 # 0 /\ k + 1 - 1 = k
      OBVIOUS
    <2>2. \A i \in 0 .. n : run[i] = IF i = 0 THEN <<>> ELSE AddEvent(run[i - 1], events[i])
      BY <1>1, <1>6
    <2>3. run[k + 1] = IF k + 1 = 0 THEN <<>> ELSE AddEvent(run[k + 1 - 1], events[k + 1])
      BY <2>1, <2>2
    <2> QED
      BY <2>1, <2>3
  <1> HIDE DEF Means
  <1> QED
    BY <1>1, <1>7, <1>8, <1>9

\* The run of SubtractTimes, the last range first.
LEMMA SubtractTimesSteps ==
    ASSUME NEW events, NEW subtract \in Seq(SlotRange)
    PROVE  \E run : /\ run[0] = events
                    /\ \A k \in 0 .. Len(subtract) - 1 : run[k + 1] = Subtract(subtract[Len(subtract) - k], run[k])
                    /\ SubtractTimes(events, subtract) = run[Len(subtract)]
  <1>0. PICK n \in Nat : n = Len(subtract)
    OBVIOUS
  <1>1. PICK first : n = Len(subtract) /\ first = events
    BY <1>0
  <1> DEFINE Runs(f, k) == f = [i \in 0 .. k |-> IF i = 0 THEN first ELSE Subtract(subtract[Len(subtract) - i + 1], f[i - 1])]
             T == {k \in 0 .. n : \E f : Runs(f, k)}
  <1>2. 0 \in T
    <2>1. PICK f : f = [i \in 0 .. 0 |-> first]
      OBVIOUS
    <2>2. \A i \in 0 .. 0 : i = 0
      OBVIOUS
    <2>3. Runs(f, 0)
      BY <2>1, <2>2
    <2>4. 0 \in 0 .. n
      OBVIOUS
    <2> QED
      BY <2>3, <2>4
  <1>3. ASSUME NEW k \in 0 .. n - 1, k \in T PROVE k + 1 \in T
    <2>1. PICK f : Runs(f, k)
      BY <1>3
    <2> DEFINE g == [i \in 0 .. k + 1 |-> IF i = k + 1 THEN Subtract(subtract[Len(subtract) - k], f[k]) ELSE f[i]]
    <2>4. ASSUME NEW i \in 0 .. k + 1
          PROVE  g[i] = IF i = 0 THEN first ELSE Subtract(subtract[Len(subtract) - i + 1], g[i - 1])
      <3>1. CASE i = k + 1
        <4>1. g[i] = Subtract(subtract[Len(subtract) - k], f[k]) /\ i # 0 /\ g[i - 1] = f[k]
          BY <3>1
        <4> QED
          BY <3>1, <4>1
      <3>2. CASE i # k + 1
        <4>1. i \in 0 .. k /\ g[i] = f[i] /\ (i # 0 => g[i - 1] = f[i - 1])
          BY <3>2
        <4>2. f[i] = IF i = 0 THEN first ELSE Subtract(subtract[Len(subtract) - i + 1], f[i - 1])
          BY <2>1, <4>1
        <4> QED
          BY <4>1, <4>2
      <3> QED
        BY <3>1, <3>2
    <2>5. g = [i \in 0 .. k + 1 |-> g[i]]
      OBVIOUS
    <2> HIDE DEF g
    <2>6. [i \in 0 .. k + 1 |-> g[i]] =
             [i \in 0 .. k + 1 |-> IF i = 0 THEN first ELSE Subtract(subtract[Len(subtract) - i + 1], g[i - 1])]
      BY <2>4, Zenon
    <2>7. Runs(g, k + 1)
      BY <2>5, <2>6, Zenon
    <2>8. k + 1 \in 0 .. n
      OBVIOUS
    <2> QED
      BY <2>7, <2>8
  <1>4. n \in T
    <2> HIDE DEF T
    <2>1. 0 .. n \subseteq T
      BY <1>2, <1>3, UpToN
    <2> QED
      BY <2>1
  <1> DEFINE Means(h) ==
                h = [i \in 0 .. Len(subtract) |-> IF i = 0 THEN events ELSE Subtract(subtract[Len(subtract) - i + 1], h[i - 1])]
             run == CHOOSE h : Means(h)
  <1>5. PICK f : Means(f)
    BY <1>1, <1>4
  <1>6. Means(run)
    BY <1>5
  <1>7. SubtractTimes(events, subtract) = run[Len(subtract)]
    BY DEF SubtractTimes
  <1> HIDE DEF run
  <1>8. 0 \in 0 .. n /\ run[0] = first
    BY <1>1, <1>6
  <1>9. ASSUME NEW k \in 0 .. n - 1 PROVE run[k + 1] = Subtract(subtract[Len(subtract) - k], run[k])
    <2>1. k + 1 \in 0 .. n /\ k + 1 # 0 /\ k + 1 - 1 = k
      OBVIOUS
    <2>2. \A i \in 0 .. n : run[i] = IF i = 0 THEN events ELSE Subtract(subtract[Len(subtract) - i + 1], run[i - 1])
      BY <1>1, <1>6
    <2>3. run[k + 1] = IF k + 1 = 0 THEN events ELSE Subtract(subtract[Len(subtract) - k], run[k + 1 - 1])
      BY <2>1, <2>2
    <2> QED
      BY <2>1, <2>3
  <1> HIDE DEF Means
  <1> QED
    BY <1>1, <1>7, <1>8, <1>9

\* mergeTimes keeps the slots of its events, whatever order they come in.
LEMMA MergeTimesMeans ==
    ASSUME NEW events \in Seq(SlotRange)
    PROVE  Merged(events, Len(events), MergeTimes(events))
  <1>1. PICK n \in Nat : n = Len(events)
    OBVIOUS
  <1>2. PICK run : /\ run[0] = <<>>
                   /\ \A k \in 0 .. n - 1 : run[k + 1] = AddEvent(run[k], events[k + 1])
                   /\ MergeTimes(events) = run[n]
    BY <1>1, MergeTimesSteps
  <1> DEFINE T == {k \in 0 .. n : Merged(events, k, run[k])}
  <1>3. 0 \in T
    <2>1. PICK none : none = <<>>
      OBVIOUS
    <2>2. none \in Seq(SlotRange) /\ ToSet(none) = {}
      BY <2>1 DEF ToSet
    <2>3. \A x \in Nat : ~(x \in SlotsOf(none))
      BY <2>2, SlotsHeld
    <2>4. \A i \in 1 .. 0 : FALSE
      OBVIOUS
    <2>5. Merged(events, 0, none)
      BY <2>2, <2>3, <2>4 DEF Merged
    <2>6. 0 \in 0 .. n
      OBVIOUS
    <2> QED
      BY <1>2, <2>1, <2>5, <2>6
  <1>4. ASSUME NEW k \in 0 .. n - 1, k \in T PROVE k + 1 \in T
    <2>1. k + 1 \in 0 .. n /\ k \in Nat /\ k + 1 \in 1 .. n
      OBVIOUS
    <2>2. PICK before, after : before = run[k] /\ after = run[k + 1]
      OBVIOUS
    <2>3. after = AddEvent(before, events[k + 1])
      BY <1>2, <2>2
    <2>4. Merged(events, k, before)
      BY <1>4, <2>2
    <2>5. Merged(events, k + 1, after)
      BY <1>1, <2>1, <2>3, <2>4, MergedStep
    <2> QED
      BY <2>1, <2>2, <2>5
  <1>5. n \in T
    <2> HIDE DEF T
    <2>1. 0 .. n \subseteq T
      BY <1>3, <1>4, UpToN
    <2> QED
      BY <2>1
  <1> QED
    BY <1>1, <1>2, <1>5

\* What is left of an event that is not clear of what is removed.
LEMMA RemainderMeans ==
    ASSUME NEW ev \in SlotRange, NEW remove \in SlotRange, ~Clear(ev, remove)
    PROVE  /\ Remainder(ev, remove) \in Seq(SlotRange)
           /\ \A piece \in ToSet(Remainder(ev, remove)) :
                 /\ ev.start <= piece.start /\ piece.end <= ev.end
                 /\ piece.end < remove.start \/ remove.end < piece.start
           /\ \A piece, other \in ToSet(Remainder(ev, remove)) : piece = other
           /\ \A x \in Nat : Holds(ev, x) =>
                 \/ Holds(remove, x)
                 \/ \E piece \in ToSet(Remainder(ev, remove)) : Holds(piece, x)
                 \/ ev.start < remove.start /\ remove.end < x
  <1>1. PICK a \in Nat, b \in Nat, c \in Nat, d \in Nat :
           a = ev.start /\ b = ev.end /\ c = remove.start /\ d = remove.end
    BY RangeMeans
  <1>2. a <= b /\ c <= d /\ b <= MAX /\ d <= MAX
    BY <1>1, RangeMeans
  <1>3. c <= b + 1 /\ a <= d + 1
    BY <1>1, <1>2 DEF Clear
  <1>4. PICK left : left = Remainder(ev, remove)
    OBVIOUS
  <1>5. CASE a >= c /\ b <= d
    <2>1. left = <<>>
      BY <1>1, <1>4, <1>5 DEF Remainder
    <2>2. left \in Seq(SlotRange) /\ ToSet(left) = {}
      BY <2>1 DEF ToSet
    <2>3. \A x \in Nat : a <= x /\ x <= b => c <= x /\ x <= d
      BY <1>5
    <2>4. \A x \in Nat : Holds(ev, x) => Holds(remove, x)
      BY <1>1, <2>3 DEF Holds
    <2> QED
      BY <1>4, <2>2, <2>4
  <1>6. CASE ~(a >= c /\ b <= d) /\ a < c
    <2>1. PICK piece : piece = [ev EXCEPT !.end = c - 1]
      OBVIOUS
    <2>2. ev = [start |-> a, end |-> b]
      BY <1>1, RangeMeans
    <2>3. piece = [start |-> a, end |-> c - 1]
      BY <2>1, <2>2
    <2>4. c - 1 \in Nat /\ a <= c - 1 /\ c - 1 <= b /\ c - 1 <= MAX
      BY <1>2, <1>3, <1>6, MaxAssumption
    <2>5. piece \in SlotRange /\ piece.start = a /\ piece.end = c - 1
      BY <1>2, <1>6, <2>3, <2>4, MaxAssumption DEF SlotRange, Slot
    <2>6. left = <<piece>>
      BY <1>1, <1>4, <1>6, <2>1 DEF Remainder
    <2>7. left \in Seq(SlotRange) /\ ToSet(left) = {piece}
      BY <2>5, <2>6 DEF ToSet
    <2>8. ev.start <= piece.start /\ piece.end <= ev.end /\ piece.end < remove.start
      BY <1>1, <2>4, <2>5
    <2>9. ASSUME NEW x \in Nat, a <= x, x <= b
          PROVE  (c <= x /\ x <= d) \/ (a <= x /\ x <= c - 1) \/ d < x
      BY <2>9
    <2>10. \A x \in Nat : Holds(ev, x) =>
              Holds(remove, x) \/ Holds(piece, x) \/ (ev.start < remove.start /\ remove.end < x)
      BY <1>1, <1>6, <2>5, <2>9 DEF Holds
    <2> QED
      BY <1>4, <2>7, <2>8, <2>10
  <1>7. CASE ~(a >= c /\ b <= d) /\ ~(a < c)
    <2>1. PICK piece : piece = [ev EXCEPT !.start = d + 1]
      OBVIOUS
    <2>2. ev = [start |-> a, end |-> b]
      BY <1>1, RangeMeans
    <2>3. piece = [start |-> d + 1, end |-> b]
      BY <2>1, <2>2
    <2>4. d + 1 \in Nat /\ d + 1 <= b /\ a <= d + 1
      BY <1>2, <1>3, <1>7
    <2>5. piece \in SlotRange /\ piece.start = d + 1 /\ piece.end = b
      BY <1>2, <2>3, <2>4, MaxAssumption DEF SlotRange, Slot
    <2>6. left = <<piece>>
      BY <1>1, <1>4, <1>7, <2>1 DEF Remainder
    <2>7. left \in Seq(SlotRange) /\ ToSet(left) = {piece}
      BY <2>5, <2>6 DEF ToSet
    <2>8. ev.start <= piece.start /\ piece.end <= ev.end /\ remove.end < piece.start
      BY <1>1, <2>4, <2>5
    <2>9. ASSUME NEW x \in Nat, a <= x, x <= b
          PROVE  (c <= x /\ x <= d) \/ (d + 1 <= x /\ x <= b)
      BY <1>7, <2>9
    <2>10. \A x \in Nat : Holds(ev, x) => Holds(remove, x) \/ Holds(piece, x)
      BY <1>1, <2>5, <2>9 DEF Holds
    <2> QED
      BY <1>4, <2>7, <2>8, <2>10
  <1> QED
    BY <1>5, <1>6, <1>7

\* Every event that is not clear of what is removed goes, and what is left of it
\* comes, at most one.
LEMMA SubtractMeans ==
    ASSUME NEW list \in Seq(SlotRange), NEW remove \in SlotRange
    PROVE  /\ Subtract(remove, list) \in Seq(SlotRange)
           /\ \A piece : piece \in ToSet(Subtract(remove, list)) <=>
                 \E ev \in ToSet(list) :
                    IF Clear(ev, remove) THEN piece = ev ELSE piece \in ToSet(Remainder(ev, remove))
  <1>1. PICK n \in Nat : n = Len(list) /\ DOMAIN list = 1 .. n
    OBVIOUS
  <1>2. PICK ss : ss = [i \in DOMAIN list |->
                           IF Clear(list[i], remove) THEN <<>> ELSE Remainder(list[i], remove)]
    OBVIOUS
  <1>3. PICK none : none = <<>>
    OBVIOUS
  <1>4. none \in Seq(SlotRange) /\ ToSet(none) = {}
    BY <1>3 DEF ToSet
  <1>5. \A i \in 1 .. n : ss[i] = IF Clear(list[i], remove) THEN none ELSE Remainder(list[i], remove)
    BY <1>1, <1>2, <1>3
  <1>6. ASSUME NEW i \in 1 .. n PROVE ss[i] \in Seq(SlotRange)
    <2>1. list[i] \in SlotRange
      BY <1>1
    <2>2. ~Clear(list[i], remove) => Remainder(list[i], remove) \in Seq(SlotRange)
      BY <2>1, RemainderMeans
    <2> QED
      BY <1>4, <1>5, <2>2
  <1>7. DOMAIN ss = 1 .. n /\ ss = [i \in 1 .. n |-> ss[i]]
    BY <1>1, <1>2
  <1>8. ss \in [1 .. n -> Seq(SlotRange)]
    BY <1>6, <1>7
  <1>9. PICK changed : changed = FlattenSeq(ss)
    OBVIOUS
  <1>10. /\ changed \in Seq(SlotRange)
         /\ \A x : x \in ToSet(changed) <=> \E i \in 1 .. n : x \in ToSet(ss[i])
    BY <1>8, <1>9, FlatMembers
  <1>11. PICK kept : kept = Untouched(list, remove)
    OBVIOUS
  <1>12. kept \in Seq(SlotRange) /\ ToSet(kept) = {ev \in ToSet(list) : Clear(ev, remove)}
    BY <1>11, UntouchedMeans
  <1>13. Subtract(remove, list) = changed \o kept
    BY <1>2, <1>9, <1>11 DEF Subtract
  <1>14. /\ changed \o kept \in Seq(SlotRange)
         /\ \A x : x \in ToSet(changed \o kept) <=> x \in ToSet(changed) \/ x \in ToSet(kept)
    <2>1. remove \in SlotRange
      OBVIOUS
    <2> QED
      BY <1>10, <1>12, <2>1, ConcatMembers
  <1>15. \A ev : ev \in ToSet(list) <=> \E i \in 1 .. n : ev = list[i]
    BY <1>1 DEF ToSet
  <1>16. ASSUME NEW piece
         PROVE  piece \in ToSet(changed) <=>
                   \E ev \in ToSet(list) : ~Clear(ev, remove) /\ piece \in ToSet(Remainder(ev, remove))
    <2>1. \A i \in 1 .. n :
             piece \in ToSet(ss[i]) <=> ~Clear(list[i], remove) /\ piece \in ToSet(Remainder(list[i], remove))
      BY <1>4, <1>5
    <2> QED
      BY <1>10, <1>15, <2>1
  <1>17. ASSUME NEW piece
         PROVE  piece \in ToSet(changed \o kept) <=>
                   \E ev \in ToSet(list) :
                      IF Clear(ev, remove) THEN piece = ev ELSE piece \in ToSet(Remainder(ev, remove))
    BY <1>12, <1>14, <1>16
  <1> QED
    BY <1>13, <1>14, <1>17

\* What is left of the available times when some ranges have been removed.  A slot
\* can be lost: behind a range that was removed from the same available time.
Lost(opens, gone, x) ==
    \E remove \in gone, open \in ToSet(opens) :
       Holds(open, x) /\ open.start < remove.start /\ remove.end < x

Left(opens, gone, list) ==
    /\ gone \subseteq SlotRange /\ list \in Seq(SlotRange)
    /\ \A ev \in ToSet(list) : \E open \in ToSet(opens) : open.start <= ev.start /\ ev.end <= open.end
    /\ \A ev \in ToSet(list), remove \in gone : ev.end < remove.start \/ remove.end < ev.start
    /\ \A ev, other \in ToSet(list) : ev = other \/ Clear(ev, other)
    /\ \A x \in Nat : (\E open \in ToSet(opens) : Holds(open, x)) =>
          \/ \E remove \in gone : Holds(remove, x)
          \/ \E ev \in ToSet(list) : Holds(ev, x)
          \/ Lost(opens, gone, x)

\* Removing one more range keeps what is said of the rest.
LEMMA LeftStep ==
    ASSUME NEW opens \in Seq(SlotRange), NEW gone, NEW list, Left(opens, gone, list),
           NEW remove \in SlotRange
    PROVE  Left(opens, gone \cup {remove}, Subtract(remove, list))
  <1>1. PICK next : next = Subtract(remove, list)
    OBVIOUS
  <1>2. list \in Seq(SlotRange)
    BY DEF Left
  <1>3. next \in Seq(SlotRange)
    BY <1>1, <1>2, SubtractMeans
  <1>4. \A piece : piece \in ToSet(next) <=>
           \E ev \in ToSet(list) :
              IF Clear(ev, remove) THEN piece = ev ELSE piece \in ToSet(Remainder(ev, remove))
    BY <1>1, <1>2, SubtractMeans
  <1>5. \A ev \in ToSet(list) : /\ ev \in SlotRange /\ ev.start \in Nat /\ ev.end \in Nat
                                /\ ev.start <= ev.end
    BY <1>2, SlotsHeld
  <1>6. \A ev \in ToSet(next) : /\ ev \in SlotRange /\ ev.start \in Nat /\ ev.end \in Nat
                                /\ ev.start <= ev.end
    BY <1>3, SlotsHeld
  <1>7. \A ev \in ToSet(opens) : /\ ev \in SlotRange /\ ev.start \in Nat /\ ev.end \in Nat
                                 /\ ev.start <= ev.end
    BY SlotsHeld
  <1>8. remove.start \in Nat /\ remove.end \in Nat /\ remove.start <= remove.end
    BY RangeMeans
  <1>9. ASSUME NEW ev \in ToSet(list)
        PROVE  /\ ~Clear(ev, remove) =>
                     /\ \A piece \in ToSet(Remainder(ev, remove)) :
                           /\ ev.start <= piece.start /\ piece.end <= ev.end
                           /\ piece.end < remove.start \/ remove.end < piece.start
                     /\ \A piece, other \in ToSet(Remainder(ev, remove)) : piece = other
                     /\ \A x \in Nat : Holds(ev, x) =>
                           \/ Holds(remove, x)
                           \/ \E piece \in ToSet(Remainder(ev, remove)) : Holds(piece, x)
                           \/ ev.start < remove.start /\ remove.end < x
               /\ Clear(ev, remove) => ev.end < remove.start \/ remove.end < ev.start
    <2>1. ev \in SlotRange /\ ev.start \in Nat /\ ev.end \in Nat
      BY <1>5
    <2>2. Clear(ev, remove) => ev.end < remove.start \/ remove.end < ev.start
      BY <1>8, <2>1 DEF Clear
    <2> QED
      BY <2>1, <2>2, RemainderMeans
  <1>10. \A piece \in ToSet(next) :
            /\ \E ev \in ToSet(list) : ev.start <= piece.start /\ piece.end <= ev.end
            /\ piece.end < remove.start \/ remove.end < piece.start
    <2> SUFFICES ASSUME NEW piece \in ToSet(next)
                 PROVE  /\ \E ev \in ToSet(list) : ev.start <= piece.start /\ piece.end <= ev.end
                        /\ piece.end < remove.start \/ remove.end < piece.start
      OBVIOUS
    <2>1. PICK ev \in ToSet(list) :
             IF Clear(ev, remove) THEN piece = ev ELSE piece \in ToSet(Remainder(ev, remove))
      BY <1>4
    <2>2. CASE Clear(ev, remove)
      <3>1. piece = ev /\ ev.start <= ev.start /\ ev.end <= ev.end
        BY <1>5, <2>1, <2>2
      <3> QED
        BY <1>9, <2>2, <3>1
    <2>3. CASE ~Clear(ev, remove)
      BY <1>9, <2>1, <2>3
    <2> QED
      BY <2>2, <2>3
  <1>11. ASSUME NEW piece \in ToSet(next)
         PROVE  \E open \in ToSet(opens) : open.start <= piece.start /\ piece.end <= open.end
    <2>1. PICK ev \in ToSet(list) : ev.start <= piece.start /\ piece.end <= ev.end
      BY <1>10
    <2>2. PICK open \in ToSet(opens) : open.start <= ev.start /\ ev.end <= open.end
      BY DEF Left
    <2>3. open.start <= piece.start /\ piece.end <= open.end
      BY <1>5, <1>6, <1>7, <2>1, <2>2
    <2> QED
      BY <2>3
  <1>12. ASSUME NEW piece \in ToSet(next), NEW old \in gone \cup {remove}
         PROVE  piece.end < old.start \/ old.end < piece.start
    <2>1. CASE old = remove
      BY <1>10, <2>1
    <2>2. CASE old \in gone
      <3>1. PICK ev \in ToSet(list) : ev.start <= piece.start /\ piece.end <= ev.end
        BY <1>10
      <3>2. ev.end < old.start \/ old.end < ev.start
        BY <2>2 DEF Left
      <3>3. old.start \in Nat /\ old.end \in Nat
        <4>1. old \in SlotRange
          BY <2>2 DEF Left
        <4> QED
          BY <4>1, RangeMeans
      <3> QED
        BY <1>5, <1>6, <3>1, <3>2, <3>3
    <2> QED
      BY <2>1, <2>2
  <1>13. ASSUME NEW piece \in ToSet(next), NEW other \in ToSet(next)
         PROVE  piece = other \/ Clear(piece, other)
    <2>1. PICK ev \in ToSet(list) :
             /\ IF Clear(ev, remove) THEN piece = ev ELSE piece \in ToSet(Remainder(ev, remove))
             /\ ev.start <= piece.start /\ piece.end <= ev.end
      <3>1. PICK ev \in ToSet(list) :
               IF Clear(ev, remove) THEN piece = ev ELSE piece \in ToSet(Remainder(ev, remove))
        BY <1>4
      <3>2. CASE Clear(ev, remove)
        BY <1>5, <3>1, <3>2
      <3>3. CASE ~Clear(ev, remove)
        BY <1>9, <3>1, <3>3
      <3> QED
        BY <3>2, <3>3
    <2>2. PICK source \in ToSet(list) :
             /\ IF Clear(source, remove) THEN other = source ELSE other \in ToSet(Remainder(source, remove))
             /\ source.start <= other.start /\ other.end <= source.end
      <3>1. PICK source \in ToSet(list) :
               IF Clear(source, remove) THEN other = source ELSE other \in ToSet(Remainder(source, remove))
        BY <1>4
      <3>2. CASE Clear(source, remove)
        BY <1>5, <3>1, <3>2
      <3>3. CASE ~Clear(source, remove)
        BY <1>9, <3>1, <3>3
      <3> QED
        BY <3>2, <3>3
    <2>3. CASE ev = source
      BY <1>9, <2>1, <2>2, <2>3
    <2>4. CASE ev # source
      <3>1. Clear(ev, source)
        BY <2>4 DEF Left
      <3> QED
        BY <1>5, <1>6, <2>1, <2>2, <3>1 DEF Clear
    <2> QED
      BY <2>3, <2>4
  <1>14. ASSUME NEW x \in Nat, NEW open \in ToSet(opens), Holds(open, x)
         PROVE  \/ \E old \in gone \cup {remove} : Holds(old, x)
                \/ \E piece \in ToSet(next) : Holds(piece, x)
                \/ Lost(opens, gone \cup {remove}, x)
    <2>1. \/ \E old \in gone : Holds(old, x)
          \/ \E ev \in ToSet(list) : Holds(ev, x)
          \/ Lost(opens, gone, x)
      BY <1>14 DEF Left
    <2>2. CASE \E old \in gone : Holds(old, x)
      BY <2>2
    <2>3. CASE Lost(opens, gone, x)
      BY <2>3 DEF Lost
    <2>4. CASE \E ev \in ToSet(list) : Holds(ev, x)
      <3>1. PICK ev \in ToSet(list) : Holds(ev, x)
        BY <2>4
      <3>2. CASE Clear(ev, remove)
        <4>1. ev \in ToSet(next)
          BY <1>4, <3>2
        <4> QED
          BY <3>1, <4>1
      <3>3. CASE ~Clear(ev, remove)
        <4>1. \/ Holds(remove, x)
              \/ \E piece \in ToSet(Remainder(ev, remove)) : Holds(piece, x)
              \/ ev.start < remove.start /\ remove.end < x
          BY <1>9, <3>1, <3>3
        <4>2. CASE Holds(remove, x)
          BY <4>2
        <4>3. CASE \E piece \in ToSet(Remainder(ev, remove)) : Holds(piece, x)
          BY <1>4, <3>3, <4>3
        <4>4. CASE ev.start < remove.start /\ remove.end < x
          <5>1. PICK within \in ToSet(opens) : within.start <= ev.start /\ ev.end <= within.end
            BY DEF Left
          <5>2. Holds(within, x) /\ within.start < remove.start
            BY <1>5, <1>7, <1>8, <3>1, <4>4, <5>1 DEF Holds
          <5> QED
            BY <4>4, <5>2 DEF Lost
        <4> QED
          BY <4>1, <4>2, <4>3, <4>4
      <3> QED
        BY <3>2, <3>3
    <2> QED
      BY <2>1, <2>2, <2>3, <2>4
  <1>15. gone \cup {remove} \subseteq SlotRange
    BY DEF Left
  <1>16. Left(opens, gone \cup {remove}, next)
    BY <1>3, <1>11, <1>12, <1>13, <1>14, <1>15 DEF Left
  <1> QED
    BY <1>1, <1>16

\* subtractTimes removes all of the ranges, and loses what is behind them.
LEMMA SubtractTimesMeans ==
    ASSUME NEW opens \in Seq(SlotRange), NEW subtract \in Seq(SlotRange),
           \A ev, other \in ToSet(opens) : ev = other \/ Clear(ev, other)
    PROVE  Left(opens, ToSet(subtract), SubtractTimes(opens, subtract))
  <1>1. PICK n \in Nat : n = Len(subtract)
    OBVIOUS
  <1>2. PICK run : /\ run[0] = opens
                   /\ \A k \in 0 .. n - 1 : run[k + 1] = Subtract(subtract[n - k], run[k])
                   /\ SubtractTimes(opens, subtract) = run[n]
    <2>1. PICK run : /\ run[0] = opens
                     /\ \A k \in 0 .. Len(subtract) - 1 : run[k + 1] = Subtract(subtract[Len(subtract) - k], run[k])
                     /\ SubtractTimes(opens, subtract) = run[Len(subtract)]
      BY SubtractTimesSteps
    <2>2. \A k \in 0 .. n - 1 : run[k + 1] = Subtract(subtract[n - k], run[k])
      BY <1>1, <2>1
    <2> QED
      BY <1>1, <2>1, <2>2
  <1> DEFINE Behind(k) == {subtract[i] : i \in n - k + 1 .. n}
             T == {k \in 0 .. n : Left(opens, Behind(k), run[k])}
  <1>3. 0 \in T
    <2>1. PICK none : none = Behind(0)
      OBVIOUS
    <2>2. none = {}
      BY <2>1
    <2>3. \A ev \in ToSet(opens) : ev.start \in Nat /\ ev.end \in Nat
      BY SlotsHeld
    <2>4. \A ev \in ToSet(opens) : \E open \in ToSet(opens) : open.start <= ev.start /\ ev.end <= open.end
      BY <2>3
    <2>5. Left(opens, none, opens)
      BY <2>2, <2>4 DEF Left
    <2>6. 0 \in 0 .. n
      OBVIOUS
    <2> HIDE DEF Behind
    <2> QED
      BY <1>2, <2>1, <2>5, <2>6
  <1>4. ASSUME NEW k \in 0 .. n - 1, k \in T PROVE k + 1 \in T
    <2>1. k + 1 \in 0 .. n /\ n - k \in 1 .. n
      OBVIOUS
    <2>2. PICK remove \in SlotRange : remove = subtract[n - k]
      BY <1>1, <2>1
    <2>3. PICK gone, next : gone = Behind(k) /\ next = Behind(k + 1)
      OBVIOUS
    <2>4. next = gone \cup {remove}
      <3>1. \A i : i \in n - (k + 1) + 1 .. n <=> i \in n - k + 1 .. n \/ i = n - k
        BY <2>1
      <3> QED
        BY <2>2, <2>3, <3>1
    <2> HIDE DEF Behind
    <2>5. PICK before, after : before = run[k] /\ after = run[k + 1]
      OBVIOUS
    <2>6. after = Subtract(remove, before)
      BY <1>2, <2>2, <2>5
    <2>7. Left(opens, gone, before)
      BY <1>4, <2>3, <2>5
    <2>8. Left(opens, next, after)
      BY <2>4, <2>6, <2>7, LeftStep
    <2> QED
      BY <2>1, <2>3, <2>5, <2>8
  <1>5. n \in T
    <2> HIDE DEF T
    <2>1. 0 .. n \subseteq T
      BY <1>3, <1>4, UpToN
    <2> QED
      BY <2>1
  <1>6. Behind(n) = ToSet(subtract)
    BY <1>1 DEF ToSet
  <1> HIDE DEF Behind
  <1> QED
    BY <1>2, <1>5, <1>6

-----------------------------------------------------------------------------
(* The estimate. *)

\* What the page takes for blocked: the participants' ranges, and the slot before
\* a blocked day.
LEMMA PageBlockedMeans ==
    ASSUME request \in Requests, NEW blockedDays \in BlockedDaySets, NEW blocks,
           blocks = PageBlocked(blockedDays)
    PROVE  /\ blocks \in Seq(SlotRange)
           /\ \A p \in DOMAIN request.participants : \A x \in SlotsOf(request.participants[p]) :
                 x \in SlotsOf(blocks)
           /\ \A x \in SlotsOf(blocks) :
                 \/ \E p \in DOMAIN request.participants : x \in SlotsOf(request.participants[p])
                 \/ \E day \in blockedDays : x = day.start - 1
  <1>1. PICK participants \in Seq(Seq(SlotRange)) : participants = request.participants
    BY RequestMeans
  <1>2. PICK m \in Nat : m = Len(participants) /\ DOMAIN participants = 1 .. m
    OBVIOUS
  <1>3. participants \in [1 .. m -> Seq(SlotRange)]
    BY <1>2
  <1>4. PICK all : all = FlattenSeq(participants)
    OBVIOUS
  <1>5. all \in Seq(SlotRange) /\ SlotsOf(all) = UNION {SlotsOf(participants[p]) : p \in 1 .. m}
    BY <1>3, <1>4, FlatSlots
  <1>6. PICK n \in Nat : n = Len(all) /\ DOMAIN all = 1 .. n
    BY <1>5
  <1>7. blocks = [i \in 1 .. n |-> IF all[i] \in blockedDays THEN DayToEvent(all[i]) ELSE all[i]]
    BY <1>1, <1>4, <1>6 DEF PageBlocked
  <1>8. ASSUME NEW day \in blockedDays
        PROVE  /\ DayToEvent(day) \in SlotRange
               /\ day.start \in Nat /\ day.end \in Nat /\ day.start - 1 \in Nat
               /\ DayToEvent(day).start = day.start - 1 /\ DayToEvent(day).end = day.end
    <2>1. day \in Days
      BY DEF BlockedDaySets
    <2>2. day \in SlotRange
      BY <2>1 DEF Days
    <2>3. PICK a \in Nat, b \in Nat : a = day.start /\ b = day.end /\ a <= b /\ b <= MAX
      BY <2>2, RangeMeans
    <2>4. day = [start |-> a, end |-> b]
      BY <2>2, <2>3, RangeMeans
    <2>5. a >= 1
      <3>1. PICK index \in Slot : day.start = index * DaySlots + 1
        BY <2>1 DEF Days
      <3>2. index \in Nat
        BY MaxAssumption DEF Slot
      <3>3. DaySlots \in Nat
        BY DaySlotsAssumption
      <3>4. index * DaySlots \in Nat
        BY <3>2, <3>3
      <3>5. PICK product \in Nat : product = index * DaySlots
        BY <3>4
      <3> QED
        BY <2>3, <3>1, <3>5
    <2>6. DayToEvent(day) = [start |-> a - 1, end |-> b]
      BY <2>3, <2>4 DEF DayToEvent
    <2>7. [start |-> a - 1, end |-> b] \in SlotRange
      BY <2>3, <2>5, MaxAssumption DEF SlotRange, Slot
    <2> QED
      BY <2>3, <2>5, <2>6, <2>7
  <1>9. ASSUME NEW i \in 1 .. n PROVE all[i] \in SlotRange /\ blocks[i] \in SlotRange
    BY <1>5, <1>6, <1>7, <1>8
  <1>10. blocks \in Seq(SlotRange) /\ Len(blocks) = n
    BY <1>7, <1>9
  <1>11. ASSUME NEW i \in 1 .. n, NEW x \in Nat
         PROVE  /\ Holds(all[i], x) => Holds(blocks[i], x)
                /\ Holds(blocks[i], x) => Holds(all[i], x) \/ \E day \in blockedDays : x = day.start - 1
    <2>1. CASE all[i] \in blockedDays
      <3>1. blocks[i] = DayToEvent(all[i])
        BY <1>7, <2>1
      <3>2. /\ blocks[i].start = all[i].start - 1 /\ blocks[i].end = all[i].end
            /\ all[i].start \in Nat /\ all[i].end \in Nat
        BY <1>8, <2>1, <3>1
      <3>3. ASSUME Holds(blocks[i], x), ~Holds(all[i], x) PROVE x = all[i].start - 1
        BY <3>2, <3>3 DEF Holds
      <3>4. Holds(all[i], x) => Holds(blocks[i], x)
        BY <3>2 DEF Holds
      <3> QED
        BY <2>1, <3>3, <3>4
    <2>2. CASE all[i] \notin blockedDays
      BY <1>7, <2>2
    <2> QED
      BY <2>1, <2>2
  <1>12. \A x : x \in SlotsOf(all) <=> x \in Nat /\ \E i \in 1 .. n : Holds(all[i], x)
    BY <1>5, <1>6, SlotsMeans DEF Holds
  <1>13. \A x : x \in SlotsOf(blocks) <=> x \in Nat /\ \E i \in 1 .. n : Holds(blocks[i], x)
    BY <1>10, SlotsMeans DEF Holds
  <1>14. \A x \in SlotsOf(all) : x \in SlotsOf(blocks)
    BY <1>11, <1>12, <1>13
  <1>15. \A x \in SlotsOf(blocks) : x \in SlotsOf(all) \/ \E day \in blockedDays : x = day.start - 1
    BY <1>11, <1>12, <1>13
  <1> QED
    BY <1>1, <1>2, <1>5, <1>10, <1>14, <1>15

\* What the page finds: ranges of free slots, which touch each other only if they are
\* the same, and all of those slots but the ones it cannot see.
LEMMA PageLeaves ==
    ASSUME request \in Requests, AvailableApart, NEW blockedDays \in BlockedDaySets, NEW free,
           free = SubtractTimes(request.available, MergeTimes(PageBlocked(blockedDays)))
    PROVE  /\ free \in Seq(SlotRange)
           /\ \A ev \in ToSet(free) : \A x \in ev.start .. ev.end : x \in FreeSlots
           /\ \A ev, other \in ToSet(free) : ev = other \/ Clear(ev, other)
           /\ \A x \in FreeSlots : (\E ev \in ToSet(free) : Holds(ev, x)) \/ Unseen(x, blockedDays)
  <1>1. PICK opens \in Seq(SlotRange) : opens = request.available
    BY RequestMeans
  <1>2. PICK blocks : blocks = PageBlocked(blockedDays)
    OBVIOUS
  <1>3. /\ blocks \in Seq(SlotRange)
        /\ \A p \in DOMAIN request.participants : \A x \in SlotsOf(request.participants[p]) :
              x \in SlotsOf(blocks)
        /\ \A x \in SlotsOf(blocks) :
              \/ \E p \in DOMAIN request.participants : x \in SlotsOf(request.participants[p])
              \/ \E day \in blockedDays : x = day.start - 1
    BY <1>2, PageBlockedMeans
  <1>4. PICK n \in Nat : n = Len(blocks)
    BY <1>3
  <1>5. PICK merged : merged = MergeTimes(blocks)
    OBVIOUS
  <1>6. Merged(blocks, n, merged)
    BY <1>3, <1>4, <1>5, MergeTimesMeans
  <1>7. /\ merged \in Seq(SlotRange)
        /\ \A x \in Nat : x \in SlotsOf(merged) <=> x \in SlotsOf(blocks)
        /\ \A ev \in ToSet(merged) : \E block \in ToSet(blocks) : ev.start <= block.start /\ block.end <= ev.end
    <2>1. \A block : block \in ToSet(blocks) <=> \E i \in 1 .. n : block = blocks[i]
      BY <1>3, <1>4 DEF ToSet
    <2>2. \A x : x \in SlotsOf(blocks) <=> x \in Nat /\ \E i \in 1 .. n : Holds(blocks[i], x)
      BY <1>3, <1>4, SlotsMeans DEF Holds
    <2> QED
      BY <1>6, <2>1, <2>2 DEF Merged
  <1>8. \A ev, other \in ToSet(opens) : ev = other \/ Clear(ev, other)
    <2>1. \A ev : ev \in ToSet(opens) <=> \E i \in DOMAIN opens : ev = opens[i]
      BY DEF ToSet
    <2>2. \A i, j \in DOMAIN opens : i # j => Clear(opens[i], opens[j])
      BY <1>1 DEF AvailableApart
    <2> QED
      BY <2>1, <2>2
  <1>9. Left(opens, ToSet(merged), free)
    BY <1>1, <1>2, <1>5, <1>7, <1>8, SubtractTimesMeans
  <1>10. free \in Seq(SlotRange)
    BY <1>9 DEF Left
  <1>11. \A x : x \in FreeSlots <=>
            /\ x \in SlotsOf(opens)
            /\ \A p \in DOMAIN request.participants : x \notin SlotsOf(request.participants[p])
    BY <1>1 DEF FreeSlots
  <1>12. \A x : x \in SlotsOf(opens) <=> x \in Nat /\ \E open \in ToSet(opens) : Holds(open, x)
    BY SlotsHeld
  <1>13. \A x : x \in SlotsOf(merged) <=> x \in Nat /\ \E remove \in ToSet(merged) : Holds(remove, x)
    BY <1>7, SlotsHeld
  <1>14. \A ev \in ToSet(free) : ev.start \in Nat /\ ev.end \in Nat
    BY <1>10, SlotsHeld
  <1>15. \A ev \in ToSet(opens) : ev.start \in Nat /\ ev.end \in Nat
    BY SlotsHeld
  <1>16. \A ev \in ToSet(merged) : ev.start \in Nat /\ ev.end \in Nat
    BY <1>7, SlotsHeld
  <1>17. \A ev \in ToSet(blocks) : ev.start \in Nat /\ ev.end \in Nat
    BY <1>3, SlotsHeld
  <1>18. ASSUME NEW ev \in ToSet(free), NEW x \in ev.start .. ev.end PROVE x \in FreeSlots
    <2>1. x \in Nat /\ ev.start <= x /\ x <= ev.end
      BY <1>14
    <2>2. PICK open \in ToSet(opens) : open.start <= ev.start /\ ev.end <= open.end
      BY <1>9 DEF Left
    <2>3. Holds(open, x)
      BY <1>14, <1>15, <2>1, <2>2 DEF Holds
    <2>4. ASSUME NEW remove \in ToSet(merged) PROVE ~Holds(remove, x)
      <3>1. ev.end < remove.start \/ remove.end < ev.start
        BY <1>9 DEF Left
      <3> QED
        BY <1>14, <1>16, <2>1, <3>1 DEF Holds
    <2>5. x \notin SlotsOf(blocks)
      BY <1>7, <1>13, <2>1, <2>4
    <2> QED
      BY <1>3, <1>11, <1>12, <2>1, <2>3, <2>5
  <1>19. ASSUME NEW x \in FreeSlots
         PROVE  (\E ev \in ToSet(free) : Holds(ev, x)) \/ Unseen(x, blockedDays)
    <2>1. x \in Nat /\ (\E open \in ToSet(opens) : Holds(open, x))
          /\ \A p \in DOMAIN request.participants : x \notin SlotsOf(request.participants[p])
      BY <1>11, <1>12
    <2>2. \/ \E remove \in ToSet(merged) : Holds(remove, x)
          \/ \E ev \in ToSet(free) : Holds(ev, x)
          \/ Lost(opens, ToSet(merged), x)
      BY <1>9, <2>1 DEF Left
    <2>3. CASE \E remove \in ToSet(merged) : Holds(remove, x)
      <3>1. x \in SlotsOf(blocks)
        BY <1>7, <1>13, <2>1, <2>3
      <3>2. \E day \in blockedDays : x = day.start - 1
        BY <1>3, <2>1, <3>1
      <3> QED
        BY <3>2 DEF Unseen
    <2>4. CASE Lost(opens, ToSet(merged), x)
      <3>1. PICK remove \in ToSet(merged) :
               \E open \in ToSet(opens) : Holds(open, x) /\ open.start < remove.start /\ remove.end < x
        BY <2>4 DEF Lost
      <3>2. PICK open \in ToSet(opens) : Holds(open, x) /\ open.start < remove.start /\ remove.end < x
        BY <3>1
      <3>3. PICK block \in ToSet(blocks) : remove.start <= block.start /\ block.end <= remove.end
        BY <1>7
      <3>4. /\ open.start < block.start /\ block.end < x
            /\ x \in open.start .. open.end
        BY <1>15, <1>16, <1>17, <2>1, <3>2, <3>3 DEF Holds
      <3> QED
        BY <1>1, <1>2, <3>4 DEF Unseen
    <2> QED
      BY <2>2, <2>3, <2>4
  <1> QED
    BY <1>9, <1>10, <1>18, <1>19 DEF Left

\* The page calls a meeting possible when one of them is long enough.
LEMMA PageFinds ==
    ASSUME request \in Requests, NEW blockedDays \in BlockedDaySets, NEW free \in Seq(SlotRange),
           free = SubtractTimes(request.available, MergeTimes(PageBlocked(blockedDays)))
    PROVE  PageAvailability(blockedDays) # <<>> <=>
              \E ev \in ToSet(free) : ev.end - ev.start + 1 >= request.duration
  <1>1. PICK n \in Nat : n = Len(free) /\ DOMAIN free = 1 .. n
    OBVIOUS
  <1>2. PICK ss : ss = [i \in DOMAIN free |->
                          IF free[i].end - free[i].start + 1 >= request.duration THEN <<free[i]>> ELSE <<>>]
    OBVIOUS
  <1>3. PICK none : none = <<>>
    OBVIOUS
  <1>4. none \in Seq(SlotRange) /\ ToSet(none) = {} /\ \A s \in Seq(SlotRange) : s # none => \E x : x \in ToSet(s)
    <2>1. none \in Seq(SlotRange) /\ ToSet(none) = {}
      BY <1>3 DEF ToSet
    <2>2. ASSUME NEW s \in Seq(SlotRange), s # <<>> PROVE s[1] \in ToSet(s)
      <3>1. 1 \in DOMAIN s
        BY <2>2, LastMeans
      <3> QED
        BY <3>1 DEF ToSet
    <2> QED
      BY <1>3, <2>1, <2>2
  <1>5. ASSUME NEW i \in 1 .. n
        PROVE  /\ ss[i] \in Seq(SlotRange)
               /\ \A x : x \in ToSet(ss[i]) <=>
                     x = free[i] /\ free[i].end - free[i].start + 1 >= request.duration
    <2>1. PICK r \in SlotRange : r = free[i]
      BY <1>1
    <2>2. <<r>> \in Seq(SlotRange) /\ ToSet(<<r>>) = {r}
      BY DEF ToSet
    <2>3. ss[i] = IF r.end - r.start + 1 >= request.duration THEN <<r>> ELSE none
      BY <1>1, <1>2, <1>3, <2>1
    <2> QED
      BY <1>4, <2>1, <2>2, <2>3
  <1>6. ss \in [1 .. n -> Seq(SlotRange)]
    BY <1>1, <1>2, <1>5
  <1>7. PICK flat : flat = FlattenSeq(ss)
    OBVIOUS
  <1>8. /\ flat \in Seq(SlotRange)
        /\ \A x : x \in ToSet(flat) <=> \E i \in 1 .. n : x \in ToSet(ss[i])
    BY <1>6, <1>7, FlatMembers
  <1>9. \A ev : ev \in ToSet(free) <=> \E i \in 1 .. n : ev = free[i]
    BY <1>1 DEF ToSet
  <1>10. (\E x : x \in ToSet(flat)) <=> \E ev \in ToSet(free) : ev.end - ev.start + 1 >= request.duration
    BY <1>5, <1>8, <1>9
  <1>11. PageAvailability(blockedDays) = flat
    BY <1>2, <1>7 DEF PageAvailability
  <1> QED
    BY <1>3, <1>4, <1>8, <1>10, <1>11

\* The page errs to one side: a meeting it believes possible is possible, and one it
\* lists as impossible is, or could only take place on slots that the page cannot see.
THEOREM PageErrsOneWay == Spec => []EstimateErrsOneWay
  <1>1. AvailabilityInv => EstimateErrsOneWay
    <2> SUFFICES ASSUME AvailabilityInv, AvailableApart, NEW blockedDays \in BlockedDaySets
                 PROVE  IF PageAvailability(blockedDays) # <<>>
                        THEN Positions # {}
                        ELSE \A w \in Positions : \E s \in w.start .. w.end : Unseen(s, blockedDays)
      BY DEF EstimateErrsOneWay
    <2>1. request \in Requests
      BY DEF AvailabilityInv, BlockerInv
    <2>2. PICK free : free = SubtractTimes(request.available, MergeTimes(PageBlocked(blockedDays)))
      OBVIOUS
    <2>3. /\ free \in Seq(SlotRange)
          /\ \A ev \in ToSet(free) : \A x \in ev.start .. ev.end : x \in FreeSlots
          /\ \A ev, other \in ToSet(free) : ev = other \/ Clear(ev, other)
          /\ \A x \in FreeSlots : (\E ev \in ToSet(free) : Holds(ev, x)) \/ Unseen(x, blockedDays)
      BY <2>1, <2>2, PageLeaves
    <2>4. PageAvailability(blockedDays) # <<>> <=>
             \E ev \in ToSet(free) : ev.end - ev.start + 1 >= request.duration
      BY <2>1, <2>2, <2>3, PageFinds
    <2>5. PICK d \in Nat : d = request.duration /\ d >= 1
      BY <2>1, RequestMeans
    <2>6. ASSUME NEW ev \in ToSet(free), ev.end - ev.start + 1 >= d PROVE Positions # {}
      <3>1. PICK a \in Nat, b \in Nat : a = ev.start /\ b = ev.end /\ a <= b /\ b <= MAX
        BY <2>3, SlotsHeld
      <3>2. PICK w : w = [start |-> a, end |-> a + (d - 1)]
        OBVIOUS
      <3>3. a + (d - 1) \in Nat /\ a <= a + (d - 1) /\ a + (d - 1) <= b /\ a + (d - 1) - a + 1 = d
        BY <2>5, <2>6, <3>1
      <3>4. w \in SlotRange /\ w.start = a /\ w.end = a + (d - 1)
        BY <3>1, <3>2, <3>3, MaxAssumption DEF SlotRange, Slot
      <3>5. \A x \in a .. a + (d - 1) : x \in ev.start .. ev.end
        BY <3>1, <3>3
      <3>6. w.start .. w.end \subseteq FreeSlots
        BY <2>3, <3>4, <3>5
      <3>7. w \in Positions
        BY <2>5, <3>3, <3>4, <3>6 DEF Positions
      <3> QED
        BY <3>7
    <2>7. ASSUME NEW w \in Positions, \A ev \in ToSet(free) : ~(ev.end - ev.start + 1 >= d)
          PROVE  \E s \in w.start .. w.end : Unseen(s, blockedDays)
      <3> SUFFICES ASSUME \A s \in w.start .. w.end : ~Unseen(s, blockedDays)
                   PROVE  FALSE
        OBVIOUS
      <3>1. w \in SlotRange /\ w.end - w.start + 1 = d /\ w.start .. w.end \subseteq FreeSlots
        BY <2>5 DEF Positions
      <3>2. PICK a \in Nat, b \in Nat : a = w.start /\ b = w.end /\ a <= b /\ b - a + 1 = d
        BY <3>1, RangeMeans
      <3>3. \A x \in a .. b : \E ev \in ToSet(free) : Holds(ev, x)
        BY <2>3, <3>1, <3>2
      <3>4. a \in a .. b
        BY <3>2
      <3>5. PICK ev \in ToSet(free) : Holds(ev, a)
        BY <3>3, <3>4
      <3>6. PICK p \in Nat, q \in Nat : p = ev.start /\ q = ev.end
        BY <2>3, SlotsHeld
      <3>7. p <= a /\ a <= q
        BY <3>5, <3>6 DEF Holds
      <3>8. ~(q - p + 1 >= d)
        BY <2>7, <3>6
      <3>9. q < b /\ q + 1 \in a .. b
        BY <3>2, <3>7, <3>8
      <3>10. PICK other \in ToSet(free) : Holds(other, q + 1)
        BY <3>3, <3>9
      <3>11. PICK u \in Nat, v \in Nat : u = other.start /\ v = other.end
        BY <2>3, SlotsHeld
      <3>12. u <= q + 1 /\ q + 1 <= v
        BY <3>10, <3>11 DEF Holds
      <3>13. ev # other
        BY <3>6, <3>11, <3>12
      <3>14. q < u - 1 \/ p > v + 1
        BY <2>3, <3>6, <3>11, <3>13 DEF Clear
      <3> QED
        BY <3>7, <3>12, <3>14
    <2> QED
      BY <2>4, <2>5, <2>6, <2>7
  <1> QED
    BY <1>1, AvailabilityInvariant, PTL
=============================================================================
