------------------------ MODULE CalendarWidgetProofs ------------------------
(***************************************************************************)
(* Proofs about CalendarWidget, for weeks of any length, any calendars     *)
(* that are loaded, and any number of events.  EventsApart says nothing    *)
(* of a calendar in which an event is resized; the invariant does: unless  *)
(* a gesture was cut off, the other events are apart.  The rest is the     *)
(* geometry of addEvent: what the hull of the touching events touches is   *)
(* itself one of them.                                                     *)
(***************************************************************************)
EXTENDS CalendarWidget, WellFoundedInduction, TLAPS

\* Events that are not upside down.
Upright == {e \in Event : e.start <= e.end}

\* What the mouse does, with its event and its cell.
StateOK ==
    \/ state = Idle
    \/ \E e \in Upright, t \in Slots :
          /\ Covers(e, t)
          /\ \/ state = Creating(e, t)
             \/ \E shadow \in BOOLEAN : state = Dragging(e, t, shadow)
    \/ \E e \in Upright, end \in {"Start", "End"} : state = Resizing(e, end)

\* The events that are not resized.
Settled == IF state.kind = "Resizing" THEN events \ {state.event} ELSE events

\* Unless a gesture was cut off, one event at most is marked, while it is dragged.
OneMarked ==
    /\ \A e, f \in events : e.dragging /\ f.dragging => e = f
    /\ state.kind # "Dragging" => \A e \in events : ~e.dragging
    /\ state.kind \in {"Creating", "Resizing"} => ~state.event.dragging

WidgetInv ==
    /\ events \subseteq Upright
    /\ blockedDays \subseteq Weekdays
    /\ cut \in BOOLEAN
    /\ StateOK
    /\ ~cut => Apart(Settled) /\ OneMarked
-----------------------------------------------------------------------------
\* Non-empty sets of slots have a least and a greatest member.
Below == {pair \in Nat \X Nat : pair[1] < pair[2]}

LEMMA LeastOfNat ==
    ASSUME NEW T, T \subseteq Nat, T # {}
    PROVE  \E x \in T : \A y \in T : x <= y
  <1>1. IsWellFoundedOn(Below, Nat)
    BY NatLessThanWellFounded DEF OpToRel, Below
  <1>2. PICK x \in T : \A y \in T : ~ (<<y, x>> \in Below)
    BY <1>1, WFMin
  <1>3. ASSUME NEW y \in T PROVE x <= y
    <2>1. <<y, x>> \in Nat \X Nat /\ <<y, x>>[1] = y /\ <<y, x>>[2] = x
      OBVIOUS
    <2>2. ~(y < x)
      BY <1>2, <2>1 DEF Below
    <2> QED
      BY <2>1, <2>2
  <1> QED
    BY <1>3

LEMMA MinOfSlots ==
    ASSUME NEW T, T \subseteq Slots, T # {}
    PROVE  Min(T) \in T /\ \A y \in T : Min(T) <= y
  <1>1. T \subseteq Nat
    BY WeekAssumption DEF Slots, LastSlot
  <1>2. \E x \in T : \A y \in T : x <= y
    BY <1>1, LeastOfNat
  <1> QED
    BY <1>2 DEF Min

LEMMA LastSlotIsNat == LastSlot \in Nat /\ Slots \subseteq Nat /\ 1 \in Slots /\ LastSlot \in Slots
  <1>1. LastSlot \in Nat /\ LastSlot >= 1
    BY WeekAssumption DEF LastSlot
  <1> QED
    BY <1>1 DEF Slots

LEMMA MaxOfSlots ==
    ASSUME NEW T, T \subseteq Slots, T # {}
    PROVE  Max(T) \in T /\ \A y \in T : Max(T) >= y
  <1> DEFINE Left == {LastSlot - x : x \in T}
  <1>1. \A x \in T : x \in Int /\ LastSlot - x \in Nat
    BY LastSlotIsNat DEF Slots
  <1>2. Left \subseteq Nat /\ Left # {}
    BY <1>1
  <1>3. \A x \in T : LastSlot - x \in Left
    OBVIOUS
  <1>4. PICK left \in Left : \A other \in Left : left <= other
    <2> HIDE DEF Left
    <2> QED
      BY <1>2, LeastOfNat
  <1>5. PICK x \in T : left = LastSlot - x
    BY <1>4
  <1>6. \A y \in T : x >= y
    BY <1>1, <1>3, <1>4, <1>5, LastSlotIsNat
  <1> QED
    BY <1>6 DEF Max
-----------------------------------------------------------------------------
LEMMA EventTyped ==
    ASSUME NEW e \in Event
    PROVE  e.start \in Nat /\ e.end \in Nat /\ e.start \in Slots /\ e.end \in Slots
           /\ e.dragging \in BOOLEAN
  BY LastSlotIsNat DEF Event

LEMMA SubsetApart ==
    ASSUME NEW list, NEW part \in SUBSET list, Apart(list)
    PROVE  Apart(part)
  BY DEF Apart

\* The same events, marked otherwise, are as far apart.
LEMMA MarkedApart ==
    ASSUME NEW list \in SUBSET Event, Apart(list), NEW marked \in SUBSET Event,
           \A f \in marked : \E e \in list : f.start = e.start /\ f.end = e.end,
           \A f, g \in marked : f.start = g.start /\ f.end = g.end => f = g
    PROVE  Apart(marked)
  <1> SUFFICES ASSUME NEW f \in marked, NEW g \in marked, f # g
               PROVE  ~Touches(f, g)
    BY DEF Apart
  <1>1. PICK e \in list : f.start = e.start /\ f.end = e.end
    OBVIOUS
  <1>2. PICK h \in list : g.start = h.start /\ g.end = h.end
    OBVIOUS
  <1>3. e # h
    BY <1>1, <1>2
  <1> QED
    BY <1>1, <1>2, <1>3 DEF Apart, Touches

\* The hull of an event and all that it touches.
LEMMA MergedHull ==
    ASSUME NEW list \in SUBSET Upright, NEW event \in Upright, NEW added \in Merged(event, list)
    PROVE  /\ added \in Upright
           /\ added.start <= event.start /\ event.end <= added.end
           /\ \A e \in Touching(event, list) : added.start <= e.start /\ e.end <= added.end
           /\ \E e \in Touching(event, list) \cup {event} : added.start = e.start
           /\ \E e \in Touching(event, list) \cup {event} : added.end = e.end
  <1> DEFINE conflicting == Touching(event, list)
             starts == {event.start} \cup {e.start : e \in conflicting}
             ends == {event.end} \cup {e.end : e \in conflicting}
  <1>1. conflicting \subseteq Event /\ event \in Event
    BY DEF Touching, Upright
  <1>2. starts \subseteq Slots /\ starts # {} /\ ends \subseteq Slots /\ ends # {}
    BY <1>1, EventTyped
  <1>3. Min(starts) \in starts /\ \A s \in starts : Min(starts) <= s
    <2> HIDE DEF starts
    <2> QED
      BY <1>2, MinOfSlots
  <1>4. Max(ends) \in ends /\ \A s \in ends : Max(ends) >= s
    <2> HIDE DEF ends
    <2> QED
      BY <1>2, MaxOfSlots
  <1>5. PICK like \in conflicting \cup {event} :
           added = [start |-> Min(starts), end |-> Max(ends), dragging |-> like.dragging]
    BY DEF Merged
  <1>6. like.dragging \in BOOLEAN
    BY <1>1, <1>5, EventTyped
  <1>7. added.start = Min(starts) /\ added.end = Max(ends)
    BY <1>5
  <1>8. added.start <= event.start /\ event.end <= added.end
    BY <1>1, <1>2, <1>3, <1>4, <1>7, LastSlotIsNat
  <1>9. added \in Event
    BY <1>2, <1>3, <1>4, <1>5, <1>6 DEF Event
  <1>10. added.start <= added.end
    BY <1>1, <1>8, <1>9, EventTyped DEF Upright
  <1>11. \A e \in conflicting : added.start <= e.start /\ e.end <= added.end
    BY <1>1, <1>2, <1>3, <1>4, <1>7, LastSlotIsNat
  <1> QED
    BY <1>3, <1>4, <1>7, <1>8, <1>9, <1>10, <1>11 DEF Upright

\* addEvent leaves the events apart if those that it adds to were, but for itself.
LEMMA AddedApart ==
    ASSUME NEW list \in SUBSET Upright, NEW event \in Upright, Apart(list \ {event}),
           NEW result \in Added(event, list)
    PROVE  Apart(result)
  <1>1. PICK added \in Merged(event, list) :
           result = (list \ Touching(event, list)) \cup {added}
    BY DEF Added
  <1> DEFINE near == Touching(event, list) \cup {event}
             far == list \ Touching(event, list)
  <1>2. event \in Event /\ near \subseteq Upright /\ far \subseteq Upright /\ added \in Upright
    BY MergedHull DEF Touching, Upright
  <1>3. event \notin far
    BY <1>2, EventTyped DEF Touching, Touches, Upright
  <1>4. ASSUME NEW f \in far, NEW e \in near
        PROVE  ~Touches(f, e)
    <2>1. CASE e = event
      BY <2>1 DEF Touching
    <2>2. CASE e # event
      <3>1. e \in list \ {event} /\ f \in list \ {event} /\ e # f
        BY <1>3, <2>2 DEF Touching
      <3> QED
        BY <3>1 DEF Apart
    <2> QED
      BY <2>1, <2>2
  <1>5. ASSUME NEW f \in far
        PROVE  ~Touches(f, added) /\ ~Touches(added, f)
    <2>1. PICK first \in near : added.start = first.start
      BY MergedHull
    <2>2. PICK last \in near : added.end = last.end
      BY MergedHull
    <2>3. /\ Touches(first, event) \/ first = event
          /\ Touches(last, event) \/ last = event
      BY DEF Touching
    <2>4. ~Touches(f, event) /\ ~Touches(f, first) /\ ~Touches(f, last)
      BY <1>4
    <2>5. /\ f.start \in Nat /\ f.end \in Nat /\ f.start <= f.end
          /\ event.start \in Nat /\ event.end \in Nat /\ event.start <= event.end
          /\ first.start \in Nat /\ first.end \in Nat /\ first.start <= first.end
          /\ last.start \in Nat /\ last.end \in Nat /\ last.start <= last.end
      BY <1>2, EventTyped DEF Upright
    <2> HIDE DEF near, far
    <2> QED
      BY <2>1, <2>2, <2>3, <2>4, <2>5 DEF Touches
  <1>6. Apart(far)
    <2>1. far \subseteq list \ {event}
      BY <1>3
    <2> QED
      BY <2>1, SubsetApart
  <1> QED
    BY <1>1, <1>5, <1>6 DEF Apart

LEMMA AddedUpright ==
    ASSUME NEW list \in SUBSET Upright, NEW event \in Upright, NEW result \in Added(event, list)
    PROVE  result \subseteq Upright
  BY MergedHull DEF Added

\* It covers what was covered, and the event, and nothing else.
LEMMA AddedCovers ==
    ASSUME NEW list \in SUBSET Upright, NEW event \in Upright, NEW result \in Added(event, list)
    PROVE  Covered(result) = Covered(list) \cup Covered({event})
  <1>1. PICK added \in Merged(event, list) :
           result = (list \ Touching(event, list)) \cup {added}
    BY DEF Added
  <1> DEFINE near == Touching(event, list) \cup {event}
  <1>2. near \subseteq Upright /\ added \in Upright
    BY MergedHull DEF Touching
  <1>3. PICK first \in near : added.start = first.start
    BY MergedHull
  <1>4. PICK last \in near : added.end = last.end
    BY MergedHull
  <1>5. /\ Touches(first, event) \/ first = event
        /\ Touches(last, event) \/ last = event
    BY DEF Touching
  <1>6. /\ event.start \in Nat /\ event.end \in Nat /\ event.start <= event.end
        /\ first.start \in Nat /\ first.end \in Nat /\ first.start <= first.end
        /\ last.start \in Nat /\ last.end \in Nat /\ last.start <= last.end
    BY <1>2, EventTyped DEF Upright
  <1>7. ASSUME NEW t \in Slots, Covers(added, t)
        PROVE  Covers(first, t) \/ Covers(last, t) \/ Covers(event, t)
    <2>1. t \in Nat
      BY LastSlotIsNat
    <2> HIDE DEF near
    <2> QED
      BY <1>3, <1>4, <1>5, <1>6, <1>7, <2>1 DEF Touches, Covers
  <1>8. ASSUME NEW t \in Slots, NEW e \in near, Covers(e, t)
        PROVE  Covers(added, t)
    <2>1. added.start <= e.start /\ e.end <= added.end
      BY MergedHull
    <2>2. /\ e.start \in Nat /\ e.end \in Nat /\ added.start \in Nat /\ added.end \in Nat
          /\ t \in Nat
      BY <1>2, EventTyped, LastSlotIsNat DEF Upright
    <2> QED
      BY <1>8, <2>1, <2>2 DEF Covers
  <1>9. ASSUME NEW t \in Slots
        PROVE  t \in Covered(result) <=> t \in Covered(list) \cup Covered({event})
    <2>1. t \in Covered(result) =>
             (\E e \in list \ Touching(event, list) : Covers(e, t)) \/ Covers(added, t)
      BY <1>1 DEF Covered
    <2>2. (\E e \in near : Covers(e, t)) => t \in Covered(list) \cup Covered({event})
      BY DEF Covered, Touching
    <2>3. t \in Covered(result) => t \in Covered(list) \cup Covered({event})
      BY <1>7, <2>1, <2>2 DEF Covered
    <2>4. t \in Covered(list) \cup Covered({event}) =>
             (\E e \in list \ Touching(event, list) : Covers(e, t)) \/ (\E e \in near : Covers(e, t))
      BY DEF Covered
    <2>5. t \in Covered(list) \cup Covered({event}) => t \in Covered(result)
      BY <1>1, <1>8, <2>4 DEF Covered
    <2> QED
      BY <2>3, <2>5
  <1> QED
    BY <1>9 DEF Covered

\* It marks none that was not.
LEMMA AddedUnmarked ==
    ASSUME NEW list \in SUBSET Upright, NEW event \in Upright, NEW result \in Added(event, list),
           \A e \in list : ~e.dragging, ~event.dragging
    PROVE  \A e \in result : ~e.dragging
  <1>1. PICK added \in Merged(event, list) :
           result = (list \ Touching(event, list)) \cup {added}
    BY DEF Added
  <1>2. PICK like \in Touching(event, list) \cup {event} :
           added = [start |-> Min({event.start} \cup {e.start : e \in Touching(event, list)}),
                    end |-> Max({event.end} \cup {e.end : e \in Touching(event, list)}),
                    dragging |-> like.dragging]
    BY DEF Merged
  <1>3. ~added.dragging
    BY <1>2 DEF Touching
  <1> QED
    BY <1>1, <1>3 DEF Touching
-----------------------------------------------------------------------------
\* What the mouse holds.
LEMMA CreatingState ==
    ASSUME StateOK, state.kind = "Creating"
    PROVE  /\ state.event \in Upright /\ state.time \in Slots /\ Covers(state.event, state.time)
           /\ state = Creating(state.event, state.time)
  BY DEF StateOK, Idle, Creating, Dragging, Resizing

LEMMA DraggingState ==
    ASSUME StateOK, state.kind = "Dragging"
    PROVE  /\ state.event \in Upright /\ state.time \in Slots /\ Covers(state.event, state.time)
           /\ state.shadow \in BOOLEAN
  <1>1. PICK e \in Upright, t \in Slots, shadow \in BOOLEAN :
           Covers(e, t) /\ state = Dragging(e, t, shadow)
    BY DEF StateOK, Idle, Creating, Dragging, Resizing
  <1>2. state.event = e /\ state.time = t /\ state.shadow = shadow
    BY <1>1 DEF Dragging
  <1> QED
    BY <1>1, <1>2

LEMMA ResizingState ==
    ASSUME StateOK, state.kind = "Resizing"
    PROVE  state.event \in Upright /\ state.end \in {"Start", "End"}
  BY DEF StateOK, Idle, Creating, Dragging, Resizing

LEMMA InitInv == Init => WidgetInv
  <1> SUFFICES ASSUME Init PROVE WidgetInv
    OBVIOUS
  <1>1. state.kind = "Idle" /\ events = {}
    BY DEF Init, Idle
  <1>2. Apart(Settled) /\ OneMarked
    BY <1>1 DEF Settled, OneMarked, Apart
  <1>3. StateOK /\ blockedDays \subseteq Weekdays /\ cut \in BOOLEAN
    BY DEF Init, StateOK
  <1> QED
    BY <1>1, <1>2, <1>3 DEF WidgetInv

LEMMA BlockKeeps ==
    ASSUME WidgetInv, NEW day \in Weekdays, ToggleAllDayBlock(day)
    PROVE  WidgetInv'
  BY DEF WidgetInv, ToggleAllDayBlock, StateOK, Settled, OneMarked

LEMMA MouseLeaveKeeps ==
    ASSUME WidgetInv, MouseLeaveCalendar
    PROVE  WidgetInv'
  <1>1. /\ events \subseteq Upright /\ events' = Cleared(events)
        /\ state' = Idle /\ cut' = (cut \/ state.kind = "Resizing") /\ blockedDays' = blockedDays
    BY DEF WidgetInv, MouseLeaveCalendar
  <1>2. \A e \in Event : /\ [e EXCEPT !.dragging = FALSE] \in Event
                         /\ [e EXCEPT !.dragging = FALSE].start = e.start
                         /\ [e EXCEPT !.dragging = FALSE].end = e.end
                         /\ [e EXCEPT !.dragging = FALSE].dragging = FALSE
    BY DEF Event
  <1>3. /\ events' \subseteq Upright
        /\ \A f \in events' : ~f.dragging /\ \E e \in events : f.start = e.start /\ f.end = e.end
    <2>1. ASSUME NEW f \in events'
          PROVE  f \in Upright /\ ~f.dragging /\ \E e \in events : f.start = e.start /\ f.end = e.end
      <3>1. PICK e \in events : f = [e EXCEPT !.dragging = FALSE]
        BY <1>1 DEF Cleared
      <3>2. e \in Event /\ e.start <= e.end
        BY <1>1 DEF Upright
      <3>3. f \in Event /\ f.start = e.start /\ f.end = e.end /\ f.dragging = FALSE
        BY <1>2, <3>1, <3>2
      <3> QED
        BY <3>2, <3>3 DEF Upright
    <2> QED
      BY <2>1
  <1>4. \A f, g \in events' : f.start = g.start /\ f.end = g.end => f = g
    BY <1>3 DEF Upright, Event
  <1>5. ASSUME ~cut' PROVE Apart(events')
    <2>1. Apart(events)
      BY <1>1, <1>5 DEF WidgetInv, Settled
    <2> QED
      BY <1>1, <1>3, <1>4, <2>1, MarkedApart DEF Upright
  <1>6. Settled' = events' /\ OneMarked' /\ StateOK'
    BY <1>1, <1>3 DEF Settled, OneMarked, StateOK, Idle
  <1>7. cut' \in BOOLEAN
    BY <1>1 DEF WidgetInv
  <1> QED
    BY <1>1, <1>3, <1>5, <1>6, <1>7 DEF WidgetInv

LEMMA BeginCreateKeeps ==
    ASSUME WidgetInv, NEW t \in Slots, BeginCreateEvent(t)
    PROVE  WidgetInv'
  <1> DEFINE event == [start |-> t, end |-> t, dragging |-> FALSE]
  <1>1. /\ state = Idle /\ state' = Creating(event, t)
        /\ events' = events /\ blockedDays' = blockedDays /\ cut' = cut
    BY DEF BeginCreateEvent
  <1>2. t \in Nat
    BY LastSlotIsNat
  <1>3. event \in Upright /\ Covers(event, t) /\ event.dragging = FALSE
    BY <1>2 DEF Upright, Event, Covers
  <1>4. StateOK'
    <2> HIDE DEF event
    <2> QED
      BY <1>1, <1>3 DEF StateOK
  <1>5. state.kind = "Idle" /\ state'.kind = "Creating" /\ state'.event = event
    BY <1>1 DEF Idle, Creating
  <1>6. Settled' = Settled
    BY <1>1, <1>5 DEF Settled
  <1>7. OneMarked => OneMarked'
    <2> HIDE DEF event
    <2> QED
      BY <1>1, <1>3, <1>5 DEF OneMarked
  <1> QED
    BY <1>1, <1>4, <1>6, <1>7 DEF WidgetInv

LEMMA MouseEnterKeeps ==
    ASSUME WidgetInv, NEW t \in Slots, MouseEnterTime(t)
    PROVE  WidgetInv'
  <1>1. /\ state.kind = "Creating" /\ state' = Creating(Drawn(t), state.time)
        /\ events' = events /\ blockedDays' = blockedDays /\ cut' = cut
    BY DEF MouseEnterTime
  <1>2. state.event \in Upright /\ state.time \in Slots
    BY <1>1, CreatingState DEF WidgetInv
  <1>3. t \in Nat /\ state.time \in Nat
    BY <1>2, LastSlotIsNat
  <1>4. /\ Drawn(t) \in Upright /\ Covers(Drawn(t), state.time)
        /\ Drawn(t).dragging = state.event.dragging
    <2>1. state.event \in Event
      BY <1>2 DEF Upright
    <2>2. CASE t < state.time
      <3>1. Drawn(t) = [state.event EXCEPT !.start = t, !.end = state.time]
        BY <2>2 DEF Drawn
      <3>2. /\ Drawn(t) \in Event /\ Drawn(t).start = t /\ Drawn(t).end = state.time
            /\ Drawn(t).dragging = state.event.dragging
        BY <1>2, <2>1, <3>1 DEF Event
      <3> QED
        BY <1>3, <2>2, <3>2 DEF Upright, Covers
    <2>3. CASE ~(t < state.time)
      <3>1. Drawn(t) = [state.event EXCEPT !.start = state.time, !.end = t]
        BY <2>3 DEF Drawn
      <3>2. /\ Drawn(t) \in Event /\ Drawn(t).start = state.time /\ Drawn(t).end = t
            /\ Drawn(t).dragging = state.event.dragging
        BY <1>2, <2>1, <3>1 DEF Event
      <3> QED
        BY <1>3, <2>3, <3>2 DEF Upright, Covers
    <2> QED
      BY <2>2, <2>3
  <1>5. StateOK'
    BY <1>1, <1>2, <1>4 DEF StateOK
  <1>6. state'.kind = "Creating" /\ state'.event = Drawn(t)
    BY <1>1 DEF Creating
  <1>7. Settled' = Settled /\ (OneMarked => OneMarked')
    BY <1>1, <1>4, <1>6 DEF Settled, OneMarked
  <1> QED
    BY <1>1, <1>5, <1>7 DEF WidgetInv

\* Whatever gesture ends in addEvent.
LEMMA AddedKeeps ==
    ASSUME WidgetInv, NEW list \in SUBSET events, NEW event \in Upright,
           events' \in Added(event, list), state' = Idle, UNCHANGED <<blockedDays, cut>>,
           ~cut => /\ Apart(list \ {event}) /\ ~event.dragging
                   /\ \A e \in list : ~e.dragging
    PROVE  WidgetInv'
  <1>1. list \subseteq Upright
    BY DEF WidgetInv
  <1>2. events' \subseteq Upright
    BY <1>1, AddedUpright
  <1>3. ~cut => Apart(events') /\ \A e \in events' : ~e.dragging
    BY <1>1, AddedApart, AddedUnmarked
  <1>4. state'.kind = "Idle" /\ StateOK'
    BY DEF Idle, StateOK
  <1>5. ~cut => Apart(Settled') /\ OneMarked'
    BY <1>3, <1>4 DEF Settled, OneMarked
  <1> QED
    BY <1>2, <1>4, <1>5 DEF WidgetInv

LEMMA EndCreateKeeps ==
    ASSUME WidgetInv, EndCreateEvent
    PROVE  WidgetInv'
  <1>1. /\ state.kind = "Creating" /\ events' \in Added(state.event, events)
        /\ state' = Idle /\ UNCHANGED <<blockedDays, cut>>
    BY DEF EndCreateEvent
  <1>2. state.event \in Upright
    BY <1>1, CreatingState DEF WidgetInv
  <1>3. ~cut => /\ Apart(events \ {state.event}) /\ ~state.event.dragging
                /\ \A e \in events : ~e.dragging
    BY <1>1, SubsetApart DEF WidgetInv, Settled, OneMarked
  <1> QED
    BY <1>1, <1>2, <1>3, AddedKeeps

LEMMA EndDragKeeps ==
    ASSUME WidgetInv, EndDragEvent
    PROVE  WidgetInv'
  <1> DEFINE list == {e \in events : ~e.dragging}
             dropped == [state.event EXCEPT !.dragging = FALSE]
  <1>1. /\ state.kind = "Dragging" /\ events' \in Added(dropped, list)
        /\ state' = Idle /\ UNCHANGED <<blockedDays, cut>>
    BY DEF EndDragEvent
  <1>2. state.event \in Upright
    BY <1>1, DraggingState DEF WidgetInv
  <1>3. dropped \in Upright /\ dropped.dragging = FALSE
    BY <1>2 DEF Upright, Event
  <1>4. list \subseteq events /\ (\A e \in list : ~e.dragging)
    OBVIOUS
  <1>5. ~cut => Apart(list \ {dropped})
    <2>1. list \ {dropped} \subseteq events
      OBVIOUS
    <2> HIDE DEF list, dropped
    <2> QED
      BY <1>1, <2>1, SubsetApart DEF WidgetInv, Settled
  <1> HIDE DEF list, dropped
  <1> QED
    BY <1>1, <1>3, <1>4, <1>5, AddedKeeps

LEMMA EndResizeKeeps ==
    ASSUME WidgetInv, EndResizeEvent
    PROVE  WidgetInv'
  <1>1. /\ state.kind = "Resizing" /\ events' \in Added(state.event, events)
        /\ state' = Idle /\ UNCHANGED <<blockedDays, cut>>
    BY DEF EndResizeEvent
  <1>2. state.event \in Upright
    BY <1>1, ResizingState DEF WidgetInv
  <1>3. ~cut => /\ Apart(events \ {state.event}) /\ ~state.event.dragging
                /\ \A e \in events : ~e.dragging
    BY <1>1 DEF WidgetInv, Settled, OneMarked
  <1> QED
    BY <1>1, <1>2, <1>3, AddedKeeps

\* An event is marked, and nothing else is.
LEMMA BeginDragKeeps ==
    ASSUME WidgetInv, NEW event \in events, NEW t \in Slots, BeginDragEvent(event, t)
    PROVE  WidgetInv'
  <1> DEFINE marked == [event EXCEPT !.dragging = TRUE]
  <1>1. /\ events' = {IF e = event THEN [e EXCEPT !.dragging = TRUE] ELSE e : e \in events}
        /\ state' = Dragging(event, t, FALSE)
        /\ cut' = (cut \/ state.kind \in {"Dragging", "Resizing"})
        /\ blockedDays' = blockedDays /\ Covers(event, t)
    BY DEF BeginDragEvent, Shown
  <1>2. event \in Upright /\ events \subseteq Upright
    BY DEF WidgetInv
  <1>3. marked \in Upright /\ marked.start = event.start /\ marked.end = event.end
    BY <1>2 DEF Upright, Event
  <1>4. events' = (events \ {event}) \cup {marked}
    BY <1>1
  <1>5. events' \subseteq Upright
    BY <1>2, <1>3, <1>4
  <1>6. StateOK'
    BY <1>1, <1>2 DEF StateOK
  <1>7. state'.kind = "Dragging"
    BY <1>1 DEF Dragging
  <1>8. ASSUME ~cut' PROVE Apart(events') /\ OneMarked'
    <2>1. ~cut /\ state.kind \notin {"Dragging", "Resizing"}
      BY <1>1, <1>8
    <2>2. Apart(events) /\ \A e \in events : ~e.dragging
      BY <2>1 DEF WidgetInv, Settled, OneMarked
    <2>3. \A f \in events' : \E e \in events : f.start = e.start /\ f.end = e.end
      BY <1>3, <1>4
    <2>4. ASSUME NEW f \in events', NEW g \in events', f.start = g.start, f.end = g.end
          PROVE  f = g
      <3>1. PICK e \in events : /\ e.start = f.start /\ e.end = f.end
                                /\ \/ f = e /\ e # event
                                   \/ f = marked /\ e = event
        BY <1>3, <1>4
      <3>2. PICK h \in events : /\ h.start = g.start /\ h.end = g.end
                                /\ \/ g = h /\ h # event
                                   \/ g = marked /\ h = event
        BY <1>3, <1>4
      <3>3. e.start \in Nat /\ e.end \in Nat /\ e.start <= e.end
        BY <1>2, EventTyped DEF Upright
      <3>4. Touches(e, h)
        BY <2>4, <3>1, <3>2, <3>3 DEF Touches
      <3>5. e = h
        BY <2>2, <3>4 DEF Apart
      <3> HIDE DEF marked
      <3> QED
        BY <3>1, <3>2, <3>5
    <2>5. Apart(events')
      BY <1>2, <1>5, <2>2, <2>3, <2>4, MarkedApart DEF Upright
    <2>6. OneMarked'
      BY <1>4, <1>7, <2>2 DEF OneMarked
    <2> QED
      BY <2>5, <2>6
  <1>9. Settled' = events' /\ cut' \in BOOLEAN
    BY <1>1, <1>7 DEF Settled, WidgetInv
  <1> QED
    BY <1>1, <1>5, <1>6, <1>8, <1>9 DEF WidgetInv

LEMMA MaxOfTwo ==
    ASSUME NEW a \in Int, NEW b \in Int
    PROVE  Max({a, b}) = IF a >= b THEN a ELSE b
  <1>1. \E x \in {a, b} : \A y \in {a, b} : x >= y
    OBVIOUS
  <1>2. Max({a, b}) \in {a, b} /\ \A y \in {a, b} : Max({a, b}) >= y
    BY <1>1 DEF Max
  <1> QED
    BY <1>2

LEMMA MinOfTwo ==
    ASSUME NEW a \in Int, NEW b \in Int
    PROVE  Min({a, b}) = IF a <= b THEN a ELSE b
  <1>1. \E x \in {a, b} : \A y \in {a, b} : x <= y
    OBVIOUS
  <1>2. Min({a, b}) \in {a, b} /\ \A y \in {a, b} : Min({a, b}) <= y
    BY <1>1 DEF Min
  <1> QED
    BY <1>2

LEMMA DragToKeeps ==
    ASSUME WidgetInv, NEW t \in Slots, DragEventTo(t)
    PROVE  WidgetInv'
  <1>1. /\ state.kind = "Dragging" /\ state' = Dragging(Dragged(t), t, TRUE)
        /\ events' = events /\ blockedDays' = blockedDays /\ cut' = cut
    BY DEF DragEventTo
  <1>2. state.event \in Upright /\ state.time \in Slots /\ Covers(state.event, state.time)
    BY <1>1, DraggingState DEF WidgetInv
  <1> DEFINE e == state.event
             shift == t - state.time
             start == Max({1, e.start + shift})
             end == Min({LastSlot, e.end + shift})
  <1>3. /\ e \in Event /\ e.start \in Nat /\ e.end \in Nat /\ state.time \in Nat /\ t \in Nat
        /\ LastSlot \in Nat /\ 1 <= t /\ t <= LastSlot
        /\ e.start <= state.time /\ state.time <= e.end /\ e.start >= 1 /\ e.end <= LastSlot
    BY <1>2, EventTyped, LastSlotIsNat DEF Upright, Covers, Slots
  <1>4. shift \in Int /\ e.start + shift \in Int /\ e.end + shift \in Int
        /\ e.start + shift <= t /\ t <= e.end + shift
    BY <1>3
  <1>5. start \in Nat /\ 1 <= start /\ start <= t
    <2>1. start = IF 1 >= e.start + shift THEN 1 ELSE e.start + shift
      BY <1>4, MaxOfTwo
    <2> QED
      BY <1>3, <1>4, <2>1
  <1>6. end \in Nat /\ t <= end /\ end <= LastSlot
    <2>1. end = IF LastSlot <= e.end + shift THEN LastSlot ELSE e.end + shift
      BY <1>3, <1>4, MinOfTwo
    <2> QED
      BY <1>3, <1>4, <2>1
  <1>7. start \in Slots /\ end \in Slots /\ start <= end
    BY <1>3, <1>5, <1>6 DEF Slots
  <1>8. Dragged(t) = [e EXCEPT !.start = start, !.end = end]
    BY DEF Dragged
  <1> HIDE DEF start, end
  <1>9. Dragged(t) \in Upright /\ Covers(Dragged(t), t)
    <2>1. Dragged(t) \in Event /\ Dragged(t).start = start /\ Dragged(t).end = end
      BY <1>3, <1>7, <1>8 DEF Event
    <2> QED
      BY <1>5, <1>6, <1>7, <2>1 DEF Upright, Covers
  <1>10. StateOK'
    BY <1>1, <1>9 DEF StateOK
  <1>11. state'.kind = "Dragging"
    BY <1>1 DEF Dragging
  <1>12. Settled' = Settled /\ (OneMarked => OneMarked')
    BY <1>1, <1>11 DEF Settled, OneMarked
  <1> QED
    BY <1>1, <1>10, <1>12 DEF WidgetInv

LEMMA DeleteKeeps ==
    ASSUME WidgetInv, NEW event \in events, NEW t \in Slots, DeleteEvent(event, t)
    PROVE  WidgetInv'
  <1>1. events' = events \ {event} /\ UNCHANGED <<state, blockedDays, cut>>
    BY DEF DeleteEvent
  <1>2. Settled' \subseteq Settled
    BY <1>1 DEF Settled
  <1>3. ~cut => Apart(Settled')
    BY <1>2, SubsetApart DEF WidgetInv
  <1>4. OneMarked => OneMarked'
    BY <1>1 DEF OneMarked
  <1>5. StateOK'
    BY <1>1 DEF WidgetInv, StateOK
  <1> QED
    BY <1>1, <1>3, <1>4, <1>5 DEF WidgetInv

LEMMA ResizeKeeps ==
    ASSUME WidgetInv, NEW event \in events, NEW t \in Slots, NEW end \in {"Start", "End"},
           ResizeEvent(end, event, t)
    PROVE  WidgetInv'
  <1>1. /\ events' = events /\ blockedDays' = blockedDays /\ state' = Resizing(event, end)
        /\ cut' = (cut \/ state.kind \in {"Dragging", "Resizing"})
    BY DEF ResizeEvent
  <1>2. event \in Upright
    BY DEF WidgetInv
  <1>3. state'.kind = "Resizing" /\ state'.event = event /\ StateOK'
    BY <1>1, <1>2 DEF Resizing, StateOK
  <1>4. ASSUME ~cut' PROVE Apart(Settled') /\ OneMarked'
    <2>1. ~cut /\ state.kind \notin {"Dragging", "Resizing"}
      BY <1>1, <1>4
    <2>2. Apart(events) /\ \A e \in events : ~e.dragging
      BY <2>1 DEF WidgetInv, Settled, OneMarked
    <2>3. Apart(events \ {event})
      BY <2>2, SubsetApart
    <2> QED
      BY <1>1, <1>3, <2>2, <2>3 DEF Settled, OneMarked
  <1>5. cut' \in BOOLEAN
    BY <1>1 DEF WidgetInv
  <1> QED
    BY <1>1, <1>3, <1>4, <1>5 DEF WidgetInv

LEMMA ResizeToKeeps ==
    ASSUME WidgetInv, NEW t \in Slots, ResizeEventTo(t)
    PROVE  /\ WidgetInv'
           /\ events \ {state.event} \subseteq events'
  <1>1. /\ state.kind = "Resizing" /\ state' = Resizing(Resized(t), state.end)
        /\ events' = {IF e = state.event THEN Resized(t) ELSE e : e \in events}
        /\ blockedDays' = blockedDays /\ cut' = cut
    BY DEF ResizeEventTo
  <1>2. state.event \in Upright /\ state.end \in {"Start", "End"}
    BY <1>1, ResizingState DEF WidgetInv
  <1>3. /\ state.event \in Event /\ state.event.start \in Nat /\ state.event.end \in Nat
        /\ state.event.start \in Slots /\ state.event.end \in Slots
        /\ state.event.start <= state.event.end /\ t \in Nat
    BY <1>2, EventTyped, LastSlotIsNat DEF Upright
  <1>4. Resized(t) \in Upright /\ Resized(t).dragging = state.event.dragging
    <2>1. CASE state.end = "Start"
      <3> DEFINE start == Min({state.event.end, t})
      <3>1. start \in {state.event.end, t} /\ start <= state.event.end
        BY <1>3, MinOfTwo
      <3>2. Resized(t) = [state.event EXCEPT !.start = start]
        BY <2>1 DEF Resized
      <3> HIDE DEF start
      <3>3. /\ Resized(t) \in Event /\ Resized(t).start = start
            /\ Resized(t).end = state.event.end
            /\ Resized(t).dragging = state.event.dragging
        BY <1>3, <3>1, <3>2 DEF Event
      <3> QED
        BY <3>1, <3>3 DEF Upright
    <2>2. CASE state.end = "End"
      <3> DEFINE end == Max({state.event.start, t})
      <3>1. end \in {state.event.start, t} /\ state.event.start <= end
        BY <1>3, MaxOfTwo
      <3>2. Resized(t) = [state.event EXCEPT !.end = end]
        BY <2>2 DEF Resized
      <3> HIDE DEF end
      <3>3. /\ Resized(t) \in Event /\ Resized(t).end = end
            /\ Resized(t).start = state.event.start
            /\ Resized(t).dragging = state.event.dragging
        BY <1>3, <3>1, <3>2 DEF Event
      <3> QED
        BY <3>1, <3>3 DEF Upright
    <2> QED
      BY <1>2, <2>1, <2>2
  <1>5. events' \subseteq (events \ {state.event}) \cup {Resized(t)}
    BY <1>1
  <1>6. events \ {state.event} \subseteq events'
    BY <1>1
  <1>7. events' \subseteq Upright
    BY <1>4, <1>5 DEF WidgetInv
  <1>8. StateOK' /\ state'.kind = "Resizing" /\ state'.event = Resized(t)
    BY <1>1, <1>2, <1>4 DEF StateOK, Resizing
  <1>9. Settled' \subseteq Settled
    BY <1>1, <1>5, <1>8 DEF Settled
  <1>10. ~cut => Apart(Settled') /\ OneMarked'
    <2>1. ~cut => Apart(Settled')
      BY <1>9, SubsetApart DEF WidgetInv
    <2>2. ~cut => OneMarked'
      BY <1>1, <1>4, <1>5, <1>8 DEF WidgetInv, OneMarked
    <2> QED
      BY <2>1, <2>2
  <1> QED
    BY <1>1, <1>6, <1>7, <1>8, <1>10 DEF WidgetInv

LEMMA LoadKeeps ==
    ASSUME WidgetInv, Load
    PROVE  WidgetInv'
  <1>1. events' \in Loads /\ blockedDays' \subseteq Weekdays /\ state' = state /\ cut' = cut
    BY DEF Load
  <1>2. /\ events' \subseteq Upright /\ Apart(events')
        /\ \A e \in events' : ~e.dragging
    BY <1>1, LoadsAssumption DEF Upright
  <1>3. Settled' \subseteq events'
    BY DEF Settled
  <1>4. Apart(Settled')
    BY <1>2, <1>3, SubsetApart
  <1>5. OneMarked => OneMarked'
    BY <1>1, <1>2 DEF OneMarked
  <1>6. StateOK'
    BY <1>1 DEF WidgetInv, StateOK
  <1> QED
    BY <1>1, <1>2, <1>4, <1>5, <1>6 DEF WidgetInv

LEMMA NextKeeps == WidgetInv /\ [Next]_vars => WidgetInv'
  <1> SUFFICES ASSUME WidgetInv, [Next]_vars PROVE WidgetInv'
    OBVIOUS
  <1>1. CASE UNCHANGED vars
    BY <1>1 DEF vars, WidgetInv, StateOK, Settled, OneMarked
  <1>2. CASE Next
    BY <1>2, BlockKeeps, MouseLeaveKeeps, BeginCreateKeeps, MouseEnterKeeps, EndCreateKeeps,
       BeginDragKeeps, DragToKeeps, EndDragKeeps, DeleteKeeps, ResizeKeeps, ResizeToKeeps,
       EndResizeKeeps, LoadKeeps
       DEF Next
  <1> QED
    BY <1>1, <1>2
-----------------------------------------------------------------------------
\* What a step takes out of the covered slots.
LEMMA CoveredGrows ==
    ASSUME NEW list, NEW more, list \subseteq more
    PROVE  Covered(list) \subseteq Covered(more)
  BY DEF Covered

LEMMA SameTimesCovered ==
    ASSUME NEW list, NEW other,
           \A e \in list : \E f \in other : f.start = e.start /\ f.end = e.end
    PROVE  Covered(list) \subseteq Covered(other)
  BY DEF Covered, Covers

LEMMA OneTaken ==
    ASSUME NEW list, NEW other, NEW e, list \ {e} \subseteq other
    PROVE  Covered(list) \ Covered(other) \subseteq Covered({e})
  BY DEF Covered

TakesFromOne ==
    Covered(events) \subseteq Covered(events')
       \/ \E e \in events : Covered(events) \ Covered(events') \subseteq Covered({e})

LEMMA NothingTaken ==
    ASSUME events' = events
    PROVE  TakesFromOne
  BY DEF TakesFromOne

LEMMA TakesFromOneHolds ==
    ASSUME WidgetInv, ~cut, Next, ~Load
    PROVE  TakesFromOne
  <1>1. events \subseteq Upright /\ StateOK
    BY DEF WidgetInv
  <1>2. ASSUME NEW day \in Weekdays, ToggleAllDayBlock(day) PROVE TakesFromOne
    BY <1>2, NothingTaken DEF ToggleAllDayBlock
  <1>3. CASE MouseLeaveCalendar
    <2>1. ASSUME NEW e \in events
          PROVE  \E f \in events' : f.start = e.start /\ f.end = e.end
      <3>1. e \in Event
        BY <1>1 DEF Upright
      <3>2. /\ [e EXCEPT !.dragging = FALSE].start = e.start
            /\ [e EXCEPT !.dragging = FALSE].end = e.end
        BY <3>1 DEF Event
      <3>3. [e EXCEPT !.dragging = FALSE] \in events'
        BY <1>3 DEF MouseLeaveCalendar, Cleared
      <3> QED
        BY <3>2, <3>3
    <2> QED
      BY <2>1, SameTimesCovered DEF TakesFromOne
  <1>4. ASSUME NEW t \in Slots, BeginCreateEvent(t) \/ MouseEnterTime(t) \/ DragEventTo(t)
        PROVE  TakesFromOne
    BY <1>4, NothingTaken DEF BeginCreateEvent, MouseEnterTime, DragEventTo
  <1>5. CASE EndCreateEvent
    <2>1. events' \in Added(state.event, events) /\ state.event \in Upright
      BY <1>1, <1>5, CreatingState DEF EndCreateEvent
    <2>2. Covered(events') = Covered(events) \cup Covered({state.event})
      BY <1>1, <2>1, AddedCovers
    <2> QED
      BY <2>2 DEF TakesFromOne
  <1>6. CASE EndResizeEvent
    <2>1. events' \in Added(state.event, events) /\ state.event \in Upright
      BY <1>1, <1>6, ResizingState DEF EndResizeEvent
    <2>2. Covered(events') = Covered(events) \cup Covered({state.event})
      BY <1>1, <2>1, AddedCovers
    <2> QED
      BY <2>2 DEF TakesFromOne
  <1>7. CASE EndDragEvent
    <2> DEFINE list == {e \in events : ~e.dragging}
               dropped == [state.event EXCEPT !.dragging = FALSE]
    <2>1. state.event \in Upright /\ events' \in Added(dropped, list)
      BY <1>1, <1>7, DraggingState DEF EndDragEvent
    <2>2. dropped \in Upright
      BY <2>1 DEF Upright, Event
    <2>3. list \subseteq Upright
      BY <1>1
    <2>4. Covered(list) \subseteq Covered(events')
      <3>1. PICK rest, put : rest = list /\ put = dropped
        OBVIOUS
      <3>2. Covered(events') = Covered(rest) \cup Covered({put})
        BY <2>1, <2>2, <2>3, <3>1, AddedCovers
      <3> QED
        BY <3>1, <3>2
    <2>5. \A e, f \in events : e.dragging /\ f.dragging => e = f
      BY DEF WidgetInv, OneMarked
    <2>6. CASE \A e \in events : ~e.dragging
      <3>1. list = events
        BY <2>6
      <3> QED
        BY <2>4, <3>1 DEF TakesFromOne
    <2>7. ASSUME NEW e \in events, e.dragging
          PROVE  TakesFromOne
      <3>1. events \ {e} \subseteq list
        BY <2>5, <2>7
      <3>2. Covered(events) \ Covered(list) \subseteq Covered({e})
        <4> HIDE DEF list
        <4> QED
          BY <3>1, OneTaken
      <3> HIDE DEF list
      <3> QED
        BY <2>4, <3>2 DEF TakesFromOne
    <2> QED
      BY <2>6, <2>7
  <1>8. ASSUME NEW e \in events, NEW t \in Slots, BeginDragEvent(e, t) PROVE TakesFromOne
    <2>1. ASSUME NEW f \in events
          PROVE  \E g \in events' : g.start = f.start /\ g.end = f.end
      <3>1. f \in Event
        BY <1>1 DEF Upright
      <3>2. /\ [f EXCEPT !.dragging = TRUE].start = f.start
            /\ [f EXCEPT !.dragging = TRUE].end = f.end
        BY <3>1 DEF Event
      <3>3. f \in events' \/ [f EXCEPT !.dragging = TRUE] \in events'
        BY <1>8 DEF BeginDragEvent
      <3> QED
        BY <3>2, <3>3
    <2> QED
      BY <2>1, SameTimesCovered DEF TakesFromOne
  <1>9. ASSUME NEW e \in events, NEW t \in Slots, DeleteEvent(e, t) PROVE TakesFromOne
    <2>1. events \ {e} \subseteq events'
      BY <1>9 DEF DeleteEvent
    <2> QED
      BY <2>1, OneTaken DEF TakesFromOne
  <1>10. ASSUME NEW e \in events, NEW t \in Slots, NEW end \in {"Start", "End"},
                ResizeEvent(end, e, t)
         PROVE  TakesFromOne
    BY <1>10, NothingTaken DEF ResizeEvent
  <1>11. ASSUME NEW t \in Slots, ResizeEventTo(t) PROVE TakesFromOne
    <2>1. events \ {state.event} \subseteq events'
      BY <1>11, ResizeToKeeps
    <2>2. CASE state.event \in events
      <3>1. Covered(events) \ Covered(events') \subseteq Covered({state.event})
        BY <2>1, OneTaken
      <3> QED
        BY <2>2, <3>1 DEF TakesFromOne
    <2>3. CASE state.event \notin events
      <3>1. events \subseteq events'
        BY <2>1, <2>3
      <3>2. Covered(events) \subseteq Covered(events')
        BY <3>1, CoveredGrows
      <3> QED
        BY <3>2 DEF TakesFromOne
    <2> QED
      BY <2>2, <2>3
  <1> QED
    BY <1>2, <1>3, <1>4, <1>5, <1>6, <1>7, <1>8, <1>9, <1>10, <1>11 DEF Next

LEMMA DropHolds ==
    ASSUME WidgetInv, EndCreateEvent \/ EndDragEvent \/ EndResizeEvent
    PROVE  LET stayed == {e \in events : state.kind = "Dragging" => ~e.dragging} IN
           Covered(events') = Covered(stayed) \cup Covered({state.event})
  <1> DEFINE stayed == {e \in events : state.kind = "Dragging" => ~e.dragging}
  <1>1. events \subseteq Upright /\ StateOK
    BY DEF WidgetInv
  <1>2. CASE EndCreateEvent
    <2>1. events' \in Added(state.event, events) /\ state.event \in Upright /\ stayed = events
      BY <1>1, <1>2, CreatingState DEF EndCreateEvent
    <2> HIDE DEF stayed
    <2>2. Covered(events') = Covered(stayed) \cup Covered({state.event})
      BY <1>1, <2>1, AddedCovers
    <2> QED
      BY <2>2 DEF stayed
  <1>3. CASE EndResizeEvent
    <2>1. events' \in Added(state.event, events) /\ state.event \in Upright /\ stayed = events
      BY <1>1, <1>3, ResizingState DEF EndResizeEvent
    <2> HIDE DEF stayed
    <2>2. Covered(events') = Covered(stayed) \cup Covered({state.event})
      BY <1>1, <2>1, AddedCovers
    <2> QED
      BY <2>2 DEF stayed
  <1>4. CASE EndDragEvent
    <2> DEFINE dropped == [state.event EXCEPT !.dragging = FALSE]
    <2>1. /\ state.event \in Upright
          /\ events' \in Added(dropped, {e \in events : ~e.dragging})
          /\ stayed = {e \in events : ~e.dragging}
      BY <1>1, <1>4, DraggingState DEF EndDragEvent
    <2>2. dropped \in Upright /\ dropped.start = state.event.start /\ dropped.end = state.event.end
      BY <2>1 DEF Upright, Event
    <2>3. stayed \subseteq Upright
      BY <1>1
    <2> HIDE DEF stayed, dropped
    <2>4. Covered(events') = Covered(stayed) \cup Covered({dropped})
      BY <2>1, <2>2, <2>3, AddedCovers
    <2>5. Covered({dropped}) = Covered({state.event})
      BY <2>2 DEF Covered, Covers
    <2>6. Covered(events') = Covered(stayed) \cup Covered({state.event})
      BY <2>4, <2>5
    <2> QED
      BY <2>6 DEF stayed
  <1> QED
    BY <1>2, <1>3, <1>4

LEMMA WidgetInvHolds == Spec => []WidgetInv
  BY InitInv, NextKeeps, PTL DEF Spec

LEMMA WidgetInvImplies == WidgetInv => TypeOK /\ EventsApart
  <1> SUFFICES ASSUME WidgetInv PROVE TypeOK /\ EventsApart
    OBVIOUS
  <1>1. EventsApart
    BY DEF WidgetInv, Settled, EventsApart
  <1>2. state = Idle \/ state.kind \in {"Creating", "Dragging", "Resizing"}
    BY DEF WidgetInv, StateOK, Creating, Dragging, Resizing
  <1>3. state.kind \in {"Creating", "Dragging", "Resizing"} =>
           /\ state.event \in Event /\ state.event.start <= state.event.end
           /\ state.kind \in {"Creating", "Dragging"} => Covers(state.event, state.time)
    BY CreatingState, DraggingState, ResizingState DEF WidgetInv, Upright
  <1>4. TypeOK
    BY <1>2, <1>3 DEF WidgetInv, TypeOK, Upright
  <1> QED
    BY <1>1, <1>4

\* No event is ever upside down or outside of the week, for weeks of any length.
THEOREM WidgetTypeCorrect == Spec => []TypeOK
  BY WidgetInvHolds, WidgetInvImplies, PTL

\* addEvent merges all that overlaps or adjoins, so that the events are apart, unless a
\* resizing is under way or a gesture was cut off.
THEOREM EventsStayApart == Spec => []EventsApart
  BY WidgetInvHolds, WidgetInvImplies, PTL

\* A step of the user's takes slots from one event at most.
THEOREM OneEventIsTouched == Spec => OneEventAtATime
  <1>1. WidgetInv /\ [Next]_vars => [~cut /\ ~Load => TakesFromOne]_vars
    BY TakesFromOneHolds
  <1>2. [~cut /\ ~Load => TakesFromOne]_vars =>
        [~cut /\ ~Load =>
             Covered(events) \subseteq Covered(events')
                \/ \E e \in events : Covered(events) \ Covered(events') \subseteq Covered({e})]_vars
    BY DEF TakesFromOne
  <1> QED
    BY <1>1, <1>2, WidgetInvHolds, PTL DEF Spec, OneEventAtATime

\* What is dropped is there as it was shown, even after a gesture that was cut off.
THEOREM DropsAsShown == Spec => DroppedAsShown
  <1>1. WidgetInv =>
        [EndCreateEvent \/ EndDragEvent \/ EndResizeEvent =>
             LET stayed == {e \in events : state.kind = "Dragging" => ~e.dragging} IN
             Covered(events') = Covered(stayed) \cup Covered({state.event})]_vars
    BY DropHolds
  <1> QED
    BY <1>1, WidgetInvHolds, PTL DEF DroppedAsShown
=============================================================================
