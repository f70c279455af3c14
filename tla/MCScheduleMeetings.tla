------------------------- MODULE MCScheduleMeetings -------------------------
(***************************************************************************)
(* Requests over the slots 0..MAX: up to three meetings that differ in     *)
(* length and blocked times, calendars from one slot to all of them, and   *)
(* requests that are malformed in each of the ways validation looks for.   *)
(***************************************************************************)
EXTENDS ScheduleMeetings

At(a, b) == [start |-> a, end |-> b]

Kinds ==
    [blockedTimes : {<<>>, <<At(0, 0)>>, <<At(1, 2), At(2, 3)>>}, duration : {1, 2}]
        \cup [blockedTimes : {<<>>}, duration : {MAX}]

BadKinds == {[blockedTimes |-> <<At(1, 0)>>, duration |-> 1], [blockedTimes |-> <<>>, duration |-> 0]}

Calendars == {<<>>, <<At(0, MAX)>>, <<At(3, 3), At(0, 1)>>, <<At(0, 2), At(1, 1)>>}

Named(ks) == [n \in DOMAIN ks |-> ks[n] @@ [id |-> n]]

MCLimits == {NoLimit, 1}

Asked(lists, calendars) ==
    [lambda : {"schedule"}, meetings : {Named(ks) : ks \in lists}, availability : calendars,
     count : MCLimits]

MCIds == 1 .. 3

MCRequests ==
    Asked(UNION {[1 .. k -> Kinds] : k \in 0 .. 3}, Calendars)
        \cup Asked([1 .. 2 -> BadKinds \cup {[blockedTimes |-> <<>>, duration |-> 1]}],
                   {<<At(0, MAX)>>, <<At(2, 1)>>})
        \cup {[r EXCEPT !.lambda = "precheck"] :
                 r \in Asked([1 .. 2 -> Kinds \cup BadKinds], {<<At(0, MAX)>>, <<At(1, 2)>>})}
=============================================================================
