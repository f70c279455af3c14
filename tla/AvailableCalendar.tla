-------------------------- MODULE AvailableCalendar --------------------------
(***************************************************************************)
(* The calendar of available times: the page loads it with the rest, edits *)
(* its copy, and saves the copy whole, some seconds after the first edit.  *)
(* The timer outlives the page that started it, and saves whatever the     *)
(* schedule page shows that is open when it rings, even one that has not   *)
(* been loaded yet.                                                        *)
(***************************************************************************)
EXTENDS PageVisits

CONSTANTS
    Contents,         \* what the calendar may say
    Empty,            \* what it says before it is loaded
    MaxSaveTimers     \* bound: how many timers run

ASSUME ContentsAssumption == Empty \in Contents /\ MaxSaveTimers \in Nat

VARIABLES
    shown,         \* the page's copy
    queued,        \* saveAvailableCalendarQueued
    saveTimers,    \* how many timers run, for this page or an earlier one
    stored,        \* the users' events in the table
    unsaved,       \* history: does it hold an edit that saves nothing?
    hasty,         \* history: has a timer rung before this page was loaded?
    astray         \* history: was a save of this page lost or overtaken?

timesVars == <<shown, queued, saveTimers, stored, unsaved, hasty, astray>>
allTimesVars == <<sessionVars, visitVars, timesVars>>
-----------------------------------------------------------------------------
TimesInit ==
    /\ VisitsInit
    /\ shown = Empty /\ queued = FALSE /\ saveTimers = 0
    /\ stored \in [Users -> Contents]
    /\ unsaved = FALSE /\ hasty = FALSE /\ astray = FALSE

TimesNewPage ==
    /\ shown' = Empty /\ queued' = FALSE
    /\ unsaved' = FALSE /\ hasty' = FALSE /\ astray' = FALSE
    /\ UNCHANGED stored

\* A load of the program ends the timers, another page lets them run; what was sent
\* to be saved may be saved after either.
TimesSessionStep ==
    \/ LoadProgram({"save"}) /\ TimesNewPage /\ saveTimers' = 0
    \/ TurnPage /\ TimesNewPage /\ UNCHANGED saveTimers
    \/ StayOnPage /\ UNCHANGED timesVars
-----------------------------------------------------------------------------
TimesLoaded(r) ==
    /\ Answer(r, "load")
    /\ IF Succeeded(r) THEN loaded' = TRUE /\ shown' = requests[r].value
                       ELSE UNCHANGED <<loaded, shown>>
    /\ UNCHANGED <<queued, saveTimers, stored, unsaved, hasty, astray>>

\* A message of the widget for which isSaveMsg holds: the first starts a timer.
SaveMsg(content) ==
    /\ OnPage
    /\ ~queued => saveTimers < MaxSaveTimers
    /\ shown' = content
    /\ queued' = TRUE
    /\ saveTimers' = saveTimers + IF queued THEN 0 ELSE 1
    /\ unsaved' = FALSE
    /\ UNCHANGED <<loaded, requests, stored, hasty, astray>>

\* ResizeEventTo.
UnsavedMsg(content) ==
    /\ OnPage
    /\ shown' = content
    /\ unsaved' = TRUE
    /\ UNCHANGED <<loaded, requests, queued, saveTimers, stored, hasty, astray>>

\* Mutant: the flag stays up, and no later edit starts a timer.
QueuedStill == queued

QueuedAfterSave == FALSE

\* A timer rings, whoever started it; the page that is open saves what it shows.
SaveAvailableCalendar ==
    /\ saveTimers > 0
    /\ saveTimers' = saveTimers - 1
    /\ IF route = "schedule"
       THEN /\ Send("save", shown)
            /\ queued' = QueuedAfterSave
            /\ unsaved' = FALSE
            /\ hasty' = (hasty \/ ~loaded)
       ELSE UNCHANGED <<requests, queued, unsaved, hasty>>
    /\ UNCHANGED <<loaded, shown, stored, astray>>
-----------------------------------------------------------------------------
ServeLoad(r) ==
    /\ requests[r].kind = "load" /\ requests[r].stage = "sent"
    /\ Serve(r, "ok", stored[requests[r].who])
    /\ UNCHANGED timesVars

\* saveEvents.  No page looks at the answer.
ServeSave(r) ==
    /\ requests[r].kind = "save"
    /\ Answered(r)
    /\ \/ stored' = [stored EXCEPT ![requests[r].who] = requests[r].value]
       \/ UNCHANGED stored
    /\ astray' = (astray \/ UnderWay({"save"}) # {r} \/ stored'[requests[r].who] # requests[r].value)
    /\ UNCHANGED <<shown, queued, saveTimers, unsaved, hasty>>

TimesProceeds(r) ==
    \/ requests[r].kind = "load" /\ (Dropped(r) \/ Fails(r)) /\ UNCHANGED timesVars
    \/ ServeLoad(r)
    \/ ServeSave(r)

TimesPageStep ==
    \/ \E r \in Requests : \/ TimesLoaded(r)
                           \/ TimesProceeds(r) /\ UNCHANGED loaded
    \/ \E content \in Contents : SaveMsg(content) \/ UnsavedMsg(content)
    \/ SaveAvailableCalendar

TimesNext ==
    \/ TimesSessionStep
    \/ UNCHANGED <<sessionVars, turned>> /\ TimesPageStep

TimesSpec == TimesInit /\ [][TimesNext]_allTimesVars
-----------------------------------------------------------------------------
\* Types.
TimesTypeOK ==
    /\ SessionTypeOK
    /\ loaded \in BOOLEAN /\ turned \in BOOLEAN
    /\ requests \in [Requests -> Request({"load", "save"}, {"sent", "ok", "failed"},
                                         Contents \cup {0})]
    /\ shown \in Contents /\ queued \in BOOLEAN /\ saveTimers \in Nat
    /\ stored \in [Users -> Contents]
    /\ {unsaved, hasty, astray} \subseteq BOOLEAN

\* Types, and: no edit of the available times is stranded: a timer runs while one is queued, of
\* this page or an earlier one.  And once nothing is queued or under way, the table
\* holds what a loaded page shows its user, unless requests of an earlier page met
\* this one, a timer saved the page before it was loaded, a save was lost or
\* overtaken, logins crossed, or the last edit saves nothing.
AvailabilityIsSaved ==
    /\ TimesTypeOK
    /\ queued => saveTimers > 0
    /\ loaded /\ ~queued /\ NothingUnderWay
       /\ ~turned /\ ~hasty /\ ~astray /\ ~crossed /\ ~unsaved => stored[user] = shown
=============================================================================
