---------------------------- MODULE SchedulePage ----------------------------
(***************************************************************************)
(* The schedule page of one browser and the tables of its user.  The page  *)
(* changes its own copy of calendars and meetings at once, and sends what  *)
(* it changed: new participants, deletions and meetings immediately, a     *)
(* calendar that was edited some seconds later, when the timer rings that  *)
(* was started for the first edit.  Requests are answered in any order,    *)
(* and no answer is looked at, but one: that of the initial load, which    *)
(* replaces the page's copy, whichever visit of the page asked for it.     *)
(*                                                                         *)
(* The available times are AvailableCalendar's, the modal and the credits  *)
(* ScheduleModal's.                                                        *)
(***************************************************************************)
EXTENDS UserTables, FiniteSetsExt, SequencesExt

CONSTANTS
    Free,          \* what a new calendar says
    EarlierData,   \* what the loads of earlier visits may have read
    MaxRequests,   \* bound: how many requests may be queued or under way
    MaxTimers,     \* bound: how many timers may run
    MaxLoads       \* bound: how many initial loads of earlier visits may be under way

ASSUME FreeAssumption == Free \in Blocked
ASSUME PageBoundsAssumption == MaxRequests \in Nat /\ MaxTimers \in Nat /\ MaxLoads \in Nat

VARIABLES
    participants,          \* the page's calendars
    selectedParticipant,
    participantCalendar,   \* what the widget shows
    validatedName,         \* the name typed for a new participant, if it is valid
    meetingParticipants,   \* whoever is ticked for a new meeting
    pageMeetings,
    participantSaveQueue,
    timers,                \* how many timers run, some of them for an earlier page's queue
    loaded,                \* does the cover leave the page?
    initialLoad,           \* that of this visit: whether it is under way, and what it has read
    earlierLoads,          \* how many of earlier visits are under way
    requests,              \* those that are not answered, in the order they were sent
    unsaved,               \* history: whose calendar was changed by an edit that saves nothing?
    astray,                \* history: was a request lost, overtaken or left behind by a
                           \* reload, or was a muddled page reloaded?
    muddled                \* history: was an earlier visit's load answered on this page, or
                           \* was the page used before it was loaded?

selection == <<selectedParticipant, participantCalendar>>
page == <<participants, selection, validatedName, meetingParticipants, pageMeetings,
          participantSaveQueue, timers, unsaved>>
visit == <<loaded, initialLoad, earlierLoads, muddled>>
tablesState == <<tables, deleting, disturbed>>
vars == <<page, visit, requests, astray, tablesState>>

InitialData == [calendars : [Names -> Blocked \cup {Absent}],
                meetings : [Created -> {Absent} \cup SUBSET Names]]

ASSUME EarlierDataAssumption == EarlierData \subseteq InitialData

\* The initial load is one query, whose fields are resolved one by one.
InitialLoad == [underWay : BOOLEAN, read : SUBSET {"calendars", "meetings"}, data : InitialData]

RequestInitialLoad ==
    [underWay |-> TRUE, read |-> {},
     data |-> [calendars |-> NoCalendars, meetings |-> NoMeetings]]
LoadEnded == [RequestInitialLoad EXCEPT !.underWay = FALSE]

Present == {n \in Names : participants[n] # Absent}

SaveRequest(n) == [kind |-> "saveCalendar", name |-> n, blocked |-> participants'[n]]
DeleteRequest(n, d) == [kind |-> "deleteCalendar", name |-> n, delete |-> d]
SaveMeetingRequest(m) ==
    [kind |-> "saveMeeting", created |-> m, participants |-> meetingParticipants]
DeleteMeetingRequest(m) == [kind |-> "deleteMeeting", created |-> m]

Send(request) == requests' = Append(requests, request)
Room == Len(requests) + Cardinality(participantSaveQueue) < MaxRequests

\* What a request reads or writes.
Footprint(r) ==
    CASE r.kind = "saveCalendar" -> {r.name}
      [] r.kind = "deleteCalendar" -> {r.name} \cup Created
      [] OTHER -> {r.created}

Overtakes(i) == \E j \in 1 .. i - 1 : Footprint(requests[j]) \cap Footprint(requests[i]) # {}
-----------------------------------------------------------------------------
\* Mutant: the widget keeps what it shows.
ShowsStill(n, them, none) ==
    /\ IF n = Absent THEN \A o \in Names : them[o] = Absent ELSE them[n] # Absent
    /\ selectedParticipant' = n
    /\ UNCHANGED participantCalendar

\* The first participant, shown, or none if there is none.
Shows(n, them, none) ==
    /\ IF n = Absent THEN \A o \in Names : them[o] = Absent ELSE them[n] # Absent
    /\ selectedParticipant' = n
    /\ participantCalendar' = IF n = Absent THEN none ELSE them[n]

Init ==
    /\ TablesInit
    /\ participants = NoCalendars
    /\ selectedParticipant = Absent
    /\ participantCalendar = Free
    /\ validatedName = Absent
    /\ meetingParticipants = {}
    /\ pageMeetings = NoMeetings
    /\ participantSaveQueue = {}
    /\ unsaved = {}
    /\ loaded = FALSE
    /\ muddled = FALSE
    /\ timers = 0
    /\ initialLoad = RequestInitialLoad
    /\ earlierLoads = 0
    /\ requests = <<>>
    /\ astray = FALSE

\* The user loads the page anew, or leaves it and comes back to it.  A load of the
\* program ends the timers and forgets the loads under way; another page lets them go
\* on and drops those of their messages that reach it.
Reload ==
    /\ participants' = NoCalendars
    /\ selectedParticipant' = Absent
    /\ participantCalendar' = Free
    /\ validatedName' = Absent
    /\ meetingParticipants' = {}
    /\ pageMeetings' = NoMeetings
    /\ participantSaveQueue' = {}
    /\ unsaved' = {}
    /\ loaded' = FALSE
    /\ muddled' = FALSE
    /\ timers' \in 0 .. timers
    /\ initialLoad' = RequestInitialLoad
    /\ earlierLoads' \in 0 .. earlierLoads + IF initialLoad.underWay THEN 1 ELSE 0
    /\ earlierLoads' <= MaxLoads
    /\ astray' = (astray \/ muddled \/ requests # <<>>)
    /\ UNCHANGED <<requests, tablesState>>

ReadCalendars ==
    /\ initialLoad.underWay /\ "calendars" \notin initialLoad.read
    /\ initialLoad' = [initialLoad EXCEPT !.read = @ \cup {"calendars"},
                                            !.data.calendars = calendars]
    /\ UNCHANGED <<page, loaded, earlierLoads, muddled, requests, astray, tablesState>>

ReadMeetings ==
    /\ initialLoad.underWay /\ "meetings" \notin initialLoad.read
    /\ initialLoad' = [initialLoad EXCEPT !.read = @ \cup {"meetings"},
                                            !.data.meetings = meetings]
    /\ UNCHANGED <<page, loaded, earlierLoads, muddled, requests, astray, tablesState>>

\* What was typed, ticked and queued stays.
InitialDataLoaded(data) ==
    /\ \A m \in Created : data.meetings[m] # {}     \* the schema demands participants
    /\ participants' = data.calendars
    /\ \E n \in Names \cup {Absent} : Shows(n, data.calendars, participantCalendar)
    /\ pageMeetings' = data.meetings
    /\ loaded' = TRUE
    /\ UNCHANGED <<validatedName, meetingParticipants, participantSaveQueue, timers, unsaved,
                   requests, astray, tablesState>>

OwnDataLoaded ==
    /\ initialLoad.underWay /\ initialLoad.read = {"calendars", "meetings"}
    /\ InitialDataLoaded(initialLoad.data)
    /\ initialLoad' = LoadEnded
    /\ UNCHANGED <<earlierLoads, muddled>>

\* Nothing in the answer says which visit it is for, and what it has read may be as old
\* as that visit.
EarlierDataLoaded(data) ==
    /\ earlierLoads > 0
    /\ InitialDataLoaded(data)
    /\ earlierLoads' = earlierLoads - 1
    /\ muddled' = TRUE
    /\ UNCHANGED initialLoad

\* An answer with an error, or none; one of an earlier visit is lost with the visit.
LoseLoad ==
    /\ initialLoad.underWay
    /\ initialLoad' = LoadEnded
    /\ UNCHANGED <<page, loaded, earlierLoads, muddled, requests, astray, tablesState>>

SelectParticipant(n) ==
    /\ n \in Present
    /\ selectedParticipant' = n
    /\ participantCalendar' = participants[n]
    /\ UNCHANGED <<participants, validatedName, meetingParticipants, pageMeetings,
                   participantSaveQueue, timers, unsaved, visit, requests, astray, tablesState>>

StartsTimer == participantSaveQueue = {}

\* The widget takes the mouse only while a participant is selected.
ChangeCalendar(blocked) ==
    /\ selectedParticipant # Absent
    /\ participantCalendar' = blocked
    /\ participants' = [participants EXCEPT
                           ![selectedParticipant] = IF @ = Absent THEN Absent ELSE blocked]
    /\ UNCHANGED <<selectedParticipant, validatedName, meetingParticipants, pageMeetings,
                   visit, requests, astray, tablesState>>

\* Mutant: only the first is queued.
QueuedFirst == IF StartsTimer THEN {selectedParticipant} ELSE participantSaveQueue

Queued == participantSaveQueue \cup {selectedParticipant}

\* A message of the widget for which isSaveMsg holds.
SaveMsg(blocked) ==
    /\ Room \/ selectedParticipant \in participantSaveQueue
    /\ StartsTimer => timers < MaxTimers
    /\ ChangeCalendar(blocked)
    /\ participantSaveQueue' = Queued
    /\ timers' = timers + IF StartsTimer THEN 1 ELSE 0
    /\ unsaved' = unsaved \ {selectedParticipant}

\* ResizeEventTo writes into the events, and its gesture need not be brought to
\* its end.
UnsavedMsg(blocked) ==
    /\ ChangeCalendar(blocked)
    /\ unsaved' = unsaved \cup {selectedParticipant}
    /\ UNCHANGED <<participantSaveQueue, timers>>

\* Mutant: whoever was deleted meanwhile stays in the queue.
QueueOfDeleted == {n \in participantSaveQueue : participants[n] = Absent}

QueueAfterSave == {}

\* The queue may hold participants that were deleted meanwhile.
SaveParticipantQueue ==
    LET queued == {n \in participantSaveQueue : participants[n] # Absent} IN
    /\ timers > 0
    /\ timers' = timers - 1
    /\ participantSaveQueue' = QueueAfterSave
    /\ UNCHANGED participants
    /\ \E order \in SetToSeqs({SaveRequest(n) : n \in queued}) : requests' = requests \o order
    /\ unsaved' = unsaved \ participantSaveQueue
    /\ UNCHANGED <<selection, validatedName, meetingParticipants, pageMeetings, visit, astray,
                   tablesState>>

\* The cover hides the page from the mouse, not from the keyboard.
ChangeParticipantName(n) ==
    /\ validatedName' = IF n \in Present THEN Absent ELSE n
    /\ muddled' = (muddled \/ ~loaded)
    /\ UNCHANGED <<participants, selection, meetingParticipants, pageMeetings,
                   participantSaveQueue, timers, unsaved, loaded, initialLoad, earlierLoads, requests, astray,
                   tablesState>>

\* Mutant: the name stays, and stays valid.
NameStays == validatedName

NameAfterSubmit == Absent

SubmitNewParticipant ==
    /\ validatedName # Absent /\ Room
    /\ participants' = [participants EXCEPT ![validatedName] = Free]
    /\ Send(SaveRequest(validatedName))
    /\ validatedName' = NameAfterSubmit
    /\ unsaved' = unsaved \ {validatedName}
    /\ UNCHANGED <<selection, meetingParticipants, pageMeetings, participantSaveQueue, timers,
                   visit, astray, tablesState>>

\* Mutant: the deleted participant stays ticked.
TickedStay(n) == meetingParticipants

TickedWithout(n) == meetingParticipants \ {n}

PageMeetingsWithout(n) ==
    [m \in Created |-> IF pageMeetings[m] \in {Absent, {n}} THEN Absent ELSE pageMeetings[m] \ {n}]

\* The modal keeps the name it was opened for.  Only the selected participant has the
\* button that opens it, but another may be selected by now, or a late load may have
\* taken the name away.  Nobody is taken out of the queue.
DeleteParticipant(n, d) ==
    /\ n \in Present \/ muddled
    /\ Room
    /\ deleting[d].stage = "ready"
    /\ \A i \in DOMAIN requests :
          requests[i].kind = "deleteCalendar" => requests[i].delete # d
    /\ participants' = [participants EXCEPT ![n] = Absent]
    /\ \E next \in Names \cup {Absent} : Shows(next, participants', Free)
    /\ meetingParticipants' = TickedWithout(n)
    /\ pageMeetings' = PageMeetingsWithout(n)
    /\ Send(DeleteRequest(n, d))
    /\ unsaved' = unsaved \ {n}
    /\ UNCHANGED <<validatedName, participantSaveQueue, timers, visit, astray, tablesState>>

\* Ticked in the list or by SelectFirstParticipant, up to a hundred.
SelectMeetingParticipant(n) ==
    /\ n \in Present
    /\ meetingParticipants' = IF n \in meetingParticipants THEN meetingParticipants \ {n}
                              ELSE meetingParticipants \cup {n}
    /\ UNCHANGED <<participants, selection, validatedName, pageMeetings, participantSaveQueue,
                   timers, unsaved, visit, requests, astray, tablesState>>

\* A millisecond that nobody knows any more stands for the present one.
Fresh(m) ==
    /\ pageMeetings[m] = Absent /\ meetings[m] = Absent
    /\ \A i \in DOMAIN requests :
          requests[i].kind \in {"saveMeeting", "deleteMeeting"} => requests[i].created # m
    /\ \A d \in Deletes : deleting[d].stage = "read" =>
          m \notin deleting[d].deleted \cup deleting[d].affected
    /\ initialLoad.data.meetings[m] = Absent

\* Time.now answers at once.  The button needs a participant, but the form is
\* submitted from the search field, too, whoever is ticked.
CreateMeeting(m) ==
    /\ Fresh(m) /\ Room
    /\ pageMeetings' = [pageMeetings EXCEPT ![m] = meetingParticipants]
    /\ Send(SaveMeetingRequest(m))
    /\ muddled' = (muddled \/ ~loaded)
    /\ UNCHANGED <<participants, selection, validatedName, meetingParticipants,
                   participantSaveQueue, timers, unsaved, loaded, initialLoad, earlierLoads, astray, tablesState>>

PageDeleteMeeting(m) ==
    /\ pageMeetings[m] # Absent /\ Room
    /\ pageMeetings' = [pageMeetings EXCEPT ![m] = Absent]
    /\ Send(DeleteMeetingRequest(m))
    /\ UNCHANGED <<participants, selection, validatedName, meetingParticipants,
                   participantSaveQueue, timers, unsaved, visit, astray, tablesState>>
-----------------------------------------------------------------------------
Answered(i) ==
    /\ requests' = RemoveAt(requests, i)
    /\ astray' = (astray \/ Overtakes(i))
    /\ UNCHANGED <<page, visit>>

AnswerSaveCalendar(i) ==
    /\ requests[i].kind = "saveCalendar"
    /\ SaveCalendar(requests[i].name, requests[i].blocked)
    /\ Answered(i)

AnswerSaveMeeting(i) ==
    /\ requests[i].kind = "saveMeeting"
    /\ SaveMeeting(requests[i].created, requests[i].participants)
    /\ Answered(i)

AnswerDeleteMeeting(i) ==
    /\ requests[i].kind = "deleteMeeting"
    /\ DeleteMeeting(requests[i].created)
    /\ Answered(i)

AnswerCall(i) == AnswerSaveCalendar(i) \/ AnswerSaveMeeting(i) \/ AnswerDeleteMeeting(i)

BeginDelete(i) ==
    LET r == requests[i] IN
    /\ r.kind = "deleteCalendar"
    /\ GetAffected(r.delete, r.name)
    /\ astray' = (astray \/ Overtakes(i))
    /\ UNCHANGED <<page, visit, requests>>

EndDelete(i) ==
    LET r == requests[i] IN
    /\ r.kind = "deleteCalendar"
    /\ DeleteTransaction(r.delete)
    /\ requests' = RemoveAt(requests, i)
    /\ UNCHANGED <<page, visit, astray>>

\* The network, the resolver or the table fails, as the table does for a meeting of
\* nobody.
LoseRequest(i) ==
    LET r == requests[i] IN
    /\ IF r.kind = "deleteCalendar" THEN AbandonDelete(r.delete) ELSE UNCHANGED tablesState
    /\ requests' = RemoveAt(requests, i)
    /\ astray' = TRUE
    /\ UNCHANGED <<page, visit>>

Next ==
    \/ Reload
    \/ ReadCalendars
    \/ ReadMeetings
    \/ OwnDataLoaded
    \/ \E data \in EarlierData : EarlierDataLoaded(data)
    \/ LoseLoad
    \/ \E n \in Names : \/ SelectParticipant(n)
                        \/ ChangeParticipantName(n)
                        \/ SelectMeetingParticipant(n)
    \/ \E blocked \in Blocked : SaveMsg(blocked) \/ UnsavedMsg(blocked)
    \/ SaveParticipantQueue
    \/ SubmitNewParticipant
    \/ \E n \in Names, d \in Deletes : DeleteParticipant(n, d)
    \/ \E m \in Created : CreateMeeting(m) \/ PageDeleteMeeting(m)
    \/ \E i \in DOMAIN requests : \/ AnswerCall(i)
                                  \/ BeginDelete(i)
                                  \/ EndDelete(i)
                                  \/ LoseRequest(i)

Spec == Init /\ [][Next]_vars
-----------------------------------------------------------------------------
\* Types.
TypeOK ==
    /\ TablesTypeOK
    /\ participants \in [Names -> Blocked \cup {Absent}]
    /\ selectedParticipant \in Names \cup {Absent}
    /\ participantCalendar \in Blocked
    /\ validatedName \in Names \cup {Absent}
    /\ meetingParticipants \subseteq Names
    /\ pageMeetings \in [Created -> {Absent} \cup SUBSET Names]
    /\ participantSaveQueue \subseteq Names
    /\ timers \in Nat
    /\ unsaved \subseteq Names
    /\ loaded \in BOOLEAN
    /\ initialLoad \in InitialLoad
    /\ earlierLoads \in Nat
    /\ astray \in BOOLEAN
    /\ muddled \in BOOLEAN

\* No edit is stranded: a timer runs while the queue holds anything, though only
\* the first edit starts one, the queue may hold participants that are gone, and
\* timers and queues of earlier pages come and go.
NoEditStranded == participantSaveQueue # {} => timers > 0

\* No calendar is overwritten with another: the widget shows the calendar of the
\* selected participant, whom the next edit will be written to, and the name that is
\* valid for a new participant, though compared when it was typed, is nobody's, unless
\* an earlier visit's load was answered, or the page was used before its own was.  And
\* whatever was answered, whoever is selected is there to be edited.
NoCalendarOverwritten ==
    /\ selectedParticipant # Absent => selectedParticipant \in Present
    /\ ~muddled =>
          /\ selectedParticipant # Absent =>
                participants[selectedParticipant] = participantCalendar
          /\ validatedName \notin Present

\* Once the page is loaded and nothing is queued or under way, the tables hold the
\* calendars and the meetings of the page, unless a request went astray or an earlier
\* visit's load was answered, and except calendars whose last edit saves nothing.
QuietIsSaved ==
    requests = <<>> /\ participantSaveQueue = {} /\ loaded /\ ~astray /\ ~muddled =>
        /\ \A n \in Names \ unsaved : calendars[n] = participants[n]
        /\ meetings = pageMeetings

\* Types, and: whoever is ticked or meets is a participant, as long as page and tables
\* have not parted and no earlier visit's load was answered.
MeetingsAreOfParticipants ==
    /\ TypeOK
    /\ ~astray /\ ~muddled =>
          /\ meetingParticipants \subseteq Present
          /\ \A m \in Created : pageMeetings[m] # Absent => pageMeetings[m] \subseteq Present
=============================================================================
