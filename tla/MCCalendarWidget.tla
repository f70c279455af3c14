-------------------------- MODULE MCCalendarWidget --------------------------
(* A short week, with two calendars that the page may load. *)
EXTENDS CalendarWidget

SomeLoads ==
    {{}, {[start |-> 1, end |-> 1, dragging |-> FALSE],
          [start |-> 3, end |-> LastSlot, dragging |-> FALSE]}}
=============================================================================
