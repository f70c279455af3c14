----------------------------- MODULE UserTables -----------------------------
(***************************************************************************)
(* One user's calendars and meetings, as the AppSync resolvers of the      *)
(* stack keep them in their two tables (every key starts with the user's   *)
(* name, so users do not meet).  Requests interleave.  Those that are one  *)
(* call to the database are one step; deleteCalendar reads the meetings of *)
(* the calendar, then writes one transaction made from what it read.       *)
(***************************************************************************)
EXTENDS Integers

CONSTANTS
    Names,     \* the names of calendars, which are those of participants
    Created,   \* the milliseconds that identify meetings
    Blocked,   \* what a calendar can say: events and blocked days
    Absent,    \* no item, or no attribute
    Deletes    \* the deleteCalendar requests there are

ASSUME AbsentAssumption ==
    Absent \notin Blocked \cup Names /\ \A participants \in SUBSET Names : participants # Absent

VARIABLES
    calendars,   \* name -> what the calendar says
    meetings,    \* created -> the participants of the meeting
    deleting,    \* where each deleteCalendar request is
    disturbed    \* history: has a meeting changed after the request read them?

tables == <<calendars, meetings>>
tablesVars == <<calendars, meetings, deleting, disturbed>>

Delete == [stage : {"ready", "read", "ended"}, name : Names \cup {Absent},
           deleted : SUBSET Created, affected : SUBSET Created]

NoCalendars == [n \in Names |-> Absent]
NoMeetings == [m \in Created |-> Absent]

Participates(n, m) == meetings[m] # Absent /\ n \in meetings[m]

\* Mutant: the number of participants is not looked at.
AllOf(n) == {m \in Created : Participates(n, m)}

\* Mutant: the number of participants is compared with none.
OnlyOfNobody(n) == {m \in Created : Participates(n, m) /\ meetings[m] = {}}

\* Meetings with n whose list of participants has one entry.
OnlyOf(n) == {m \in Created : meetings[m] = {n}}

SharedBy(n) == {m \in Created \ OnlyOf(n) : Participates(n, m)}
-----------------------------------------------------------------------------
TablesInit ==
    /\ calendars = NoCalendars
    /\ meetings = NoMeetings
    /\ deleting = [d \in Deletes |-> [stage |-> "ready", name |-> Absent,
                                      deleted |-> {}, affected |-> {}]]
    /\ disturbed = [d \in Deletes |-> FALSE]

\* Whoever has read the meetings and not written yet is out of date now.
MeetingsChange ==
    disturbed' = [d \in Deletes |-> disturbed[d] \/ deleting[d].stage = "read"]

\* A PutItem writes the whole calendar, there or not.
SaveCalendar(n, blocked) ==
    /\ calendars' = [calendars EXCEPT ![n] = blocked]
    /\ UNCHANGED <<meetings, deleting, disturbed>>

\* The caller names the millisecond, of this meeting or of another that it
\* replaces.  The table takes no empty set, and does not ask whether the
\* participants have calendars.
SaveMeeting(m, participants) ==
    /\ participants # {}
    /\ meetings' = [meetings EXCEPT ![m] = participants]
    /\ MeetingsChange
    /\ UNCHANGED <<calendars, deleting>>

DeleteMeeting(m) ==
    /\ meetings' = [meetings EXCEPT ![m] = Absent]
    /\ MeetingsChange
    /\ UNCHANGED <<calendars, deleting>>

\* GetCalendarAffectedMeetings sorts the meetings of the calendar into those
\* without another participant and the rest.
GetAffected(d, n) ==
    /\ deleting[d].stage = "ready"
    /\ deleting' = [deleting EXCEPT ![d] = [stage |-> "read", name |-> n,
                                            deleted |-> OnlyOf(n),
                                            affected |-> SharedBy(n)]]
    /\ UNCHANGED <<calendars, meetings, disturbed>>

\* DELETE takes one name out of the set the table has by now.  A set that
\* becomes empty is no attribute any more, which is {} here; an item that is
\* gone stays gone.
Leave(n, m) == IF meetings[m] = Absent THEN Absent ELSE meetings[m] \ {n}

\* DeleteCalendarAndAffectedMeetings: all of it or nothing.
DeleteTransaction(d) ==
    LET del == deleting[d] IN
    /\ del.stage = "read"
    /\ calendars' = [calendars EXCEPT ![del.name] = Absent]
    /\ meetings' = [m \in Created |->
                       IF m \in del.deleted THEN Absent
                       ELSE IF m \in del.affected THEN Leave(del.name, m)
                       ELSE meetings[m]]
    /\ deleting' = [deleting EXCEPT ![d].stage = "ended"]
    /\ disturbed' = [e \in Deletes |->
                       disturbed[e] \/ (e # d /\ deleting[e].stage = "read")]

\* Either call fails, or the transaction is cancelled.
AbandonDelete(d) ==
    /\ deleting[d].stage \in {"ready", "read"}
    /\ deleting' = [deleting EXCEPT ![d].stage = "ended"]
    /\ UNCHANGED <<calendars, meetings, disturbed>>

TablesNext ==
    \/ \E n \in Names, blocked \in Blocked : SaveCalendar(n, blocked)
    \/ \E m \in Created, participants \in SUBSET Names : SaveMeeting(m, participants)
    \/ \E m \in Created : DeleteMeeting(m)
    \/ \E d \in Deletes :
          \/ \E n \in Names : GetAffected(d, n)
          \/ DeleteTransaction(d)
          \/ AbandonDelete(d)

TablesSpec == TablesInit /\ [][TablesNext]_tablesVars
-----------------------------------------------------------------------------
\* Types.
TablesTypeOK ==
    /\ calendars \in [Names -> Blocked \cup {Absent}]
    /\ meetings \in [Created -> {Absent} \cup SUBSET Names]
    /\ deleting \in [Deletes -> Delete]
    /\ disturbed \in [Deletes -> BOOLEAN]
    /\ \A d \in Deletes : deleting[d].stage = "read" => deleting[d].name \in Names

\* What deleting the calendar at one stroke would make of the meetings.
MeetingsWithout(n) ==
    [m \in Created |-> IF meetings[m] \in {Absent, {n}} THEN Absent ELSE meetings[m] \ {n}]

\* deleteCalendar is not atomic, but nobody sees the difference as long as no
\* meeting changes between its query and its transaction: the transaction then
\* leaves what one atomic step would leave.
DeleteIsAtomic ==
    [][\A d \in Deletes :
          DeleteTransaction(d) /\ ~disturbed[d] => meetings' = MeetingsWithout(deleting[d].name)
      ]_tablesVars

\* Whatever happened since the query, the transaction takes out of the meetings
\* that stay no participant but its own, those added meanwhile included, and
\* brings no meeting back.
OthersStay ==
    [][\A d \in Deletes, m \in Created :
          DeleteTransaction(d) =>
             \/ meetings'[m] = Absent
             \/ meetings[m] # Absent /\ meetings[m] \ {deleting[d].name} \subseteq meetings'[m]
      ]_tablesVars

\* A meeting loses its last participant, and keeps its row, only by a write that
\* came between the query and the transaction of a deleteCalendar: the length
\* check of the query would have had it deleted.
ParticipantsRemain ==
    (\A d \in Deletes : ~disturbed[d]) => \A m \in Created : meetings[m] # {}
=============================================================================
