--------------------------- MODULE CalendarWidget ---------------------------
(***************************************************************************)
(* The calendar of the schedule page: events are created, dragged and      *)
(* resized with the mouse, slot by slot.  Every cell has the handlers that *)
(* the view gives it, and the cells of a blocked day have none, so that a  *)
(* gesture need not end where its mouse button is released.  The page may  *)
(* put other events into the calendar at any time.                         *)
(*                                                                         *)
(* The list of events is a set: whatever is done to an event is done to    *)
(* all that equal it.                                                      *)
(***************************************************************************)
EXTENDS Integers, FiniteSetsExt

CONSTANTS
    slots,      \* the slots of a day
    days,       \* the days of the week, numbered from 0
    Loads,      \* the calendars that the page may load
    MaxEvents   \* bound: no event is begun when there are so many

ASSUME WeekAssumption == slots \in Nat \ {0} /\ days \in Nat \ {0}

LastSlot == slots * days
Slots == 1 .. LastSlot
Weekdays == 0 .. days - 1

Event == [start : Slots, end : Slots, dragging : BOOLEAN]

VARIABLES
    events,
    state,         \* what the mouse is doing
    blockedDays,
    cut            \* history: has a gesture not been brought to its end?

vars == <<events, state, blockedDays, cut>>

Idle == [kind |-> "Idle"]
Creating(e, t) == [kind |-> "Creating", event |-> e, time |-> t]
\* The shadow of the event is shown once it has been moved.
Dragging(e, t, shadow) == [kind |-> "Dragging", event |-> e, time |-> t, shadow |-> shadow]
Resizing(e, end) == [kind |-> "Resizing", event |-> e, end |-> end]

Covers(e, t) == e.start <= t /\ t <= e.end
Covered(list) == {t \in Slots : \E e \in list : Covers(e, t)}

\* Overlapping or adjacent.
Touches(e, f) == ~(e.end < f.start - 1 \/ e.start > 1 + f.end)

Apart(list) == \A e, f \in list : e # f => ~Touches(e, f)

ASSUME LoadsAssumption ==
    \A list \in Loads : /\ list \subseteq {e \in Event : e.start <= e.end /\ ~e.dragging}
                        /\ Apart(list)
-----------------------------------------------------------------------------
Blocked(t) == (t - 1) \div slots \in blockedDays
FirstRow(t) == (t - 1) % slots = 0

\* The event that is drawn over the others.
Draft(t) ==
    \/ state.kind = "Creating" /\ Covers(state.event, t)
    \/ state.kind = "Dragging" /\ state.shadow /\ Covers(state.event, t)

\* Is the event in the cell, with its handlers?
Shown(e, t) == e \in events /\ Covers(e, t) /\ ~Draft(t) /\ ~Blocked(t)

\* Mutant: adjacent events are left beside each other.
TouchingOverlaps(event, list) == {e \in list : ~(e.end < event.start \/ e.start > event.end)}

Touching(event, list) == {e \in list : Touches(e, event)}

\* Mutant: the event in the list is the longer one.
Widened(event, list) ==
    LET conflicting == Touching(event, list) IN
    {[start |-> Min({event.start} \cup {e.start : e \in conflicting}),
      end |-> event.end, dragging |-> event.dragging]}

\* All that the event touches becomes one event, which is like the last of them
\* for the rest.
Merged(event, list) ==
    LET conflicting == Touching(event, list) IN
    {[start |-> Min({event.start} \cup {e.start : e \in conflicting}),
      end |-> Max({event.end} \cup {e.end : e \in conflicting}),
      dragging |-> like.dragging] :
         like \in IF conflicting = {} THEN {event} ELSE conflicting}

\* addEvent
Added(event, list) ==
    {(list \ Touching(event, list)) \cup {added} : added \in Merged(event, list)}

Init ==
    /\ events = {}
    /\ state = Idle
    /\ blockedDays = {}
    /\ cut = FALSE

ToggleAllDayBlock(day) ==
    /\ blockedDays' = IF day \in blockedDays THEN blockedDays \ {day} ELSE blockedDays \cup {day}
    /\ UNCHANGED <<events, state, cut>>

\* Mutant: the events keep their marks.
ClearedNot(list) == list

Cleared(list) == {[e EXCEPT !.dragging = FALSE] : e \in list}

MouseLeaveCalendar ==
    /\ state # Idle
    /\ events' = Cleared(events)
    /\ state' = Idle
    /\ cut' = (cut \/ state.kind = "Resizing")
    /\ UNCHANGED blockedDays

BeginCreateEvent(t) ==
    /\ state = Idle /\ ~Blocked(t) /\ Cardinality(events) < MaxEvents
    /\ state' = Creating([start |-> t, end |-> t, dragging |-> FALSE], t)
    /\ UNCHANGED <<events, blockedDays, cut>>

Drawn(t) ==
    [state.event EXCEPT !.start = IF t < state.time THEN t ELSE state.time,
                        !.end = IF t < state.time THEN state.time ELSE t]

MouseEnterTime(t) ==
    /\ state.kind = "Creating" /\ ~Blocked(t)
    /\ state' = Creating(Drawn(t), state.time)
    /\ UNCHANGED <<events, blockedDays, cut>>

\* The mouse button is released over some cell that has handlers.
Released == \E t \in Slots : ~Blocked(t)

EndCreateEvent ==
    /\ state.kind = "Creating" /\ Released
    /\ events' \in Added(state.event, events)
    /\ state' = Idle
    /\ UNCHANGED <<blockedDays, cut>>

BeginDragEvent(event, t) ==
    /\ Shown(event, t)
    /\ events' = {IF e = event THEN [e EXCEPT !.dragging = TRUE] ELSE e : e \in events}
    /\ state' = Dragging(event, t, FALSE)
    /\ cut' = (cut \/ state.kind \in {"Dragging", "Resizing"})
    /\ UNCHANGED blockedDays

\* The part that is dragged out of the week is lost.
Dragged(t) ==
    [state.event EXCEPT !.start = Max({1, @ + (t - state.time)}),
                        !.end = Min({LastSlot, @ + (t - state.time)})]

DragEventTo(t) ==
    /\ state.kind = "Dragging" /\ ~Blocked(t)
    /\ state' = Dragging(Dragged(t), t, TRUE)
    /\ UNCHANGED <<events, blockedDays, cut>>

EndDragEvent ==
    /\ state.kind = "Dragging" /\ Released
    /\ events' \in Added([state.event EXCEPT !.dragging = FALSE],
                         {e \in events : ~e.dragging})
    /\ state' = Idle
    /\ UNCHANGED <<blockedDays, cut>>

\* The button is in the first cell of the event, and of each of its days.
DeleteEvent(event, t) ==
    /\ Shown(event, t)
    /\ event.start = t \/ FirstRow(t)
    /\ events' = events \ {event}
    /\ UNCHANGED <<state, blockedDays, cut>>

\* The cell of the start has its handle, or else the cell of the end.
ResizeEvent(end, event, t) ==
    /\ Shown(event, t)
    /\ IF event.start = t THEN end = "Start"
       ELSE end = "End" /\ event.end = t /\ ~FirstRow(t)
    /\ state' = Resizing(event, end)
    /\ cut' = (cut \/ state.kind \in {"Dragging", "Resizing"})
    /\ UNCHANGED <<events, blockedDays>>

Resized(t) ==
    IF state.end = "Start" THEN [state.event EXCEPT !.start = Min({state.event.end, t})]
    ELSE [state.event EXCEPT !.end = Max({state.event.start, t})]

ResizeEventTo(t) ==
    /\ state.kind = "Resizing" /\ ~Blocked(t)
    /\ events' = {IF e = state.event THEN Resized(t) ELSE e : e \in events}
    /\ state' = Resizing(Resized(t), state.end)
    /\ UNCHANGED <<blockedDays, cut>>

EndResizeEvent ==
    /\ state.kind = "Resizing" /\ Released
    /\ events' \in Added(state.event, events)
    /\ state' = Idle
    /\ UNCHANGED <<blockedDays, cut>>

\* The page selects another participant, or its data arrives.
Load ==
    /\ events' \in Loads
    /\ blockedDays' \in SUBSET Weekdays
    /\ UNCHANGED <<state, cut>>

Next ==
    \/ \E day \in Weekdays : ToggleAllDayBlock(day)
    \/ MouseLeaveCalendar
    \/ \E t \in Slots :
          \/ BeginCreateEvent(t)
          \/ MouseEnterTime(t)
          \/ DragEventTo(t)
          \/ ResizeEventTo(t)
          \/ \E e \in events : \/ BeginDragEvent(e, t)
                               \/ DeleteEvent(e, t)
                               \/ \E end \in {"Start", "End"} : ResizeEvent(end, e, t)
    \/ EndCreateEvent
    \/ EndDragEvent
    \/ EndResizeEvent
    \/ Load

Spec == Init /\ [][Next]_vars
-----------------------------------------------------------------------------
\* Types, and that no event is upside down or outside of the week; the mouse is
\* on the event that it creates or drags.
TypeOK ==
    /\ events \subseteq {e \in Event : e.start <= e.end}
    /\ blockedDays \subseteq Weekdays
    /\ cut \in BOOLEAN
    /\ \/ state = Idle
       \/ /\ state.kind \in {"Creating", "Dragging", "Resizing"}
          /\ state.event \in Event
          /\ state.event.start <= state.event.end
          /\ state.kind \in {"Creating", "Dragging"} => Covers(state.event, state.time)

\* Events neither overlap nor adjoin, except while one is resized, unless a
\* resizing has been cut off: by the mouse leaving the calendar, or by another
\* gesture after its button was released over a blocked day.
EventsApart == ~cut /\ state.kind # "Resizing" => Apart(events)

\* Unless a gesture was cut off, no step of the user's takes slots from two
\* events: whatever else is marked as dragged, it is put back.
OneEventAtATime ==
    [][~cut /\ ~Load =>
          Covered(events) \subseteq Covered(events')
             \/ \E e \in events : Covered(events) \ Covered(events') \subseteq Covered({e})]_vars

\* What is dropped is there, as it was shown, and takes nothing from the events
\* that stayed, even after a gesture that was cut off.
DroppedAsShown ==
    [][EndCreateEvent \/ EndDragEvent \/ EndResizeEvent =>
          LET stayed == {e \in events : state.kind = "Dragging" => ~e.dragging} IN
          Covered(events') = Covered(stayed) \cup Covered({state.event})]_vars
=============================================================================
