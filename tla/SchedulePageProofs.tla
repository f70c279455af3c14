------------------------- MODULE SchedulePageProofs -------------------------
(***************************************************************************)
(* Proofs about UserTables, for any names, meetings and number of          *)
(* deleteCalendar requests in flight, about ComputeSchedule, which has the *)
(* pipelines beside the tables, for any finite number of pipelines in      *)
(* flight and any offers, and about SchedulePage, which shows the tables,  *)
(* for any participants, calendars, meetings, and number of requests and   *)
(* timers.  That a quiet page shows what the tables hold is not inductive: *)
(* the invariant says what the tables will hold when the requests that are *)
(* under way have been answered in order, and that a deletion that has     *)
(* read the tables is still up to date.                                    *)
(***************************************************************************)
EXTENDS SchedulePage, ComputeSchedule, FiniteSetTheorems, SequenceTheorems, TLAPS

\* What a request has read is what the table says, until a meeting changes;
\* then no meeting has lost its last participant yet, unless one was disturbed.
ReadingIsCurrent ==
    \A d \in Deletes : deleting[d].stage = "read" /\ ~disturbed[d] =>
       /\ deleting[d].deleted = OnlyOf(deleting[d].name)
       /\ deleting[d].affected = SharedBy(deleting[d].name)

TablesIInv == TablesTypeOK /\ ReadingIsCurrent /\ ParticipantsRemain

\* An undisturbed transaction makes of the meetings what one step would.
LEMMA UndisturbedTransaction ==
    ASSUME TablesIInv, NEW d \in Deletes, DeleteTransaction(d), ~disturbed[d]
    PROVE  meetings' = MeetingsWithout(deleting[d].name)
<1> DEFINE n == deleting[d].name
<1>1. /\ n \in Names
      /\ deleting[d].deleted = OnlyOf(n)
      /\ deleting[d].affected = SharedBy(n)
      /\ meetings \in [Created -> {Absent} \cup SUBSET Names]
  BY DEF TablesIInv, TablesTypeOK, ReadingIsCurrent, DeleteTransaction
<1>2. ASSUME NEW m \in Created
      PROVE  meetings'[m] = MeetingsWithout(n)[m]
  <2>1. meetings'[m] = IF m \in OnlyOf(n) THEN Absent
                       ELSE IF m \in SharedBy(n) THEN Leave(n, m) ELSE meetings[m]
    BY <1>1 DEF DeleteTransaction
  <2>2. MeetingsWithout(n)[m] =
           IF meetings[m] \in {Absent, {n}} THEN Absent ELSE meetings[m] \ {n}
    BY DEF MeetingsWithout
  <2>3. CASE meetings[m] = Absent
    BY <2>1, <2>2, <2>3, AbsentAssumption, <1>1 DEF OnlyOf, SharedBy, Participates, Leave
  <2>4. CASE meetings[m] = {n}
    BY <2>1, <2>2, <2>4 DEF OnlyOf
  <2>5. CASE meetings[m] \notin {Absent, {n}} /\ n \in meetings[m]
    BY <2>1, <2>2, <2>5 DEF OnlyOf, SharedBy, Participates, Leave
  <2>6. CASE meetings[m] \notin {Absent, {n}} /\ n \notin meetings[m]
    <3>1. meetings[m] \ {n} = meetings[m]
      BY <1>1, <2>6
    <3> QED
      BY <2>1, <2>2, <2>6, <3>1 DEF OnlyOf, SharedBy, Participates
  <2> QED
    BY <2>3, <2>4, <2>5, <2>6
<1>3. /\ meetings' = [m \in Created |-> meetings'[m]]
      /\ MeetingsWithout(n) = [m \in Created |-> MeetingsWithout(n)[m]]
  BY DEF DeleteTransaction, MeetingsWithout
<1> QED
  BY <1>2, <1>3

LEMMA TablesInitInv == TablesInit => TablesIInv
BY AbsentAssumption
   DEF TablesInit, NoCalendars, NoMeetings, TablesIInv, TablesTypeOK, ReadingIsCurrent,
       ParticipantsRemain, Delete

LEMMA TablesNextTypeOK == TablesTypeOK /\ [TablesNext]_tablesVars => TablesTypeOK'
<1> SUFFICES ASSUME TablesTypeOK, [TablesNext]_tablesVars
             PROVE  TablesTypeOK'
  OBVIOUS
<1> USE DEF TablesTypeOK
<1>1. ASSUME NEW n \in Names, NEW blocked \in Blocked, SaveCalendar(n, blocked)
      PROVE  TablesTypeOK'
  BY <1>1 DEF SaveCalendar
<1>2. ASSUME NEW m \in Created, NEW ps \in SUBSET Names, SaveMeeting(m, ps)
      PROVE  TablesTypeOK'
  BY <1>2 DEF SaveMeeting, MeetingsChange
<1>3. ASSUME NEW m \in Created, DeleteMeeting(m)
      PROVE  TablesTypeOK'
  BY <1>3 DEF DeleteMeeting, MeetingsChange
<1>4. ASSUME NEW d \in Deletes, NEW n \in Names, GetAffected(d, n)
      PROVE  TablesTypeOK'
  <2>1. OnlyOf(n) \subseteq Created /\ SharedBy(n) \subseteq Created
    BY DEF OnlyOf, SharedBy
  <2> QED
    BY <1>4, <2>1 DEF GetAffected, Delete
<1>5. ASSUME NEW d \in Deletes, DeleteTransaction(d)
      PROVE  TablesTypeOK'
  <2>1. \A m \in Created : Leave(deleting[d].name, m) \in {Absent} \cup SUBSET Names
    BY DEF Leave
  <2>2. meetings' \in [Created -> {Absent} \cup SUBSET Names]
    BY <1>5, <2>1 DEF DeleteTransaction
  <2>3. calendars' \in [Names -> Blocked \cup {Absent}]
    BY <1>5 DEF DeleteTransaction
  <2>4. /\ deleting' \in [Deletes -> Delete]
        /\ \A e \in Deletes : deleting'[e].stage = "read" => deleting'[e].name \in Names
    BY <1>5 DEF DeleteTransaction, Delete
  <2>5. disturbed' \in [Deletes -> BOOLEAN]
    BY <1>5 DEF DeleteTransaction
  <2> QED
    BY <2>2, <2>3, <2>4, <2>5
<1>6. ASSUME NEW d \in Deletes, AbandonDelete(d)
      PROVE  TablesTypeOK'
  BY <1>6 DEF AbandonDelete, Delete
<1>7. CASE UNCHANGED tablesVars
  BY <1>7 DEF tablesVars
<1> QED
  BY <1>1, <1>2, <1>3, <1>4, <1>5, <1>6, <1>7 DEF TablesNext

\* A write to a meeting leaves no request both reading and undisturbed.
LEMMA NextReading ==
    TablesIInv /\ [TablesNext]_tablesVars => ReadingIsCurrent'
<1> SUFFICES ASSUME TablesIInv, [TablesNext]_tablesVars
             PROVE  ReadingIsCurrent'
  OBVIOUS
<1>0. TablesTypeOK /\ ReadingIsCurrent
  BY DEF TablesIInv
<1>1. ASSUME UNCHANGED <<meetings, deleting, disturbed>>
      PROVE  ReadingIsCurrent'
  BY <1>0, <1>1 DEF ReadingIsCurrent, OnlyOf, SharedBy, Participates
<1>2. ASSUME MeetingsChange, UNCHANGED deleting
      PROVE  ReadingIsCurrent'
  BY <1>0, <1>2 DEF ReadingIsCurrent, MeetingsChange
<1>3. ASSUME NEW d \in Deletes, NEW n \in Names, GetAffected(d, n)
      PROVE  ReadingIsCurrent'
  BY <1>0, <1>3 DEF ReadingIsCurrent, GetAffected, TablesTypeOK, OnlyOf, SharedBy, Participates
<1>4. ASSUME NEW d \in Deletes, DeleteTransaction(d)
      PROVE  ReadingIsCurrent'
  <2>1. ASSUME NEW e \in Deletes
        PROVE  ~(deleting'[e].stage = "read" /\ ~disturbed'[e])
    BY <1>0, <1>4, <2>1 DEF DeleteTransaction, TablesTypeOK, Delete
  <2> QED
    BY <2>1 DEF ReadingIsCurrent
<1>5. ASSUME NEW d \in Deletes, AbandonDelete(d)
      PROVE  ReadingIsCurrent'
  BY <1>0, <1>5
     DEF ReadingIsCurrent, AbandonDelete, TablesTypeOK, Delete, OnlyOf, SharedBy, Participates
<1> QED
  BY <1>1, <1>2, <1>3, <1>4, <1>5
     DEF TablesNext, SaveCalendar, SaveMeeting, DeleteMeeting, tablesVars

LEMMA NextRemain ==
    TablesIInv /\ [TablesNext]_tablesVars => ParticipantsRemain'
<1> SUFFICES ASSUME TablesIInv, [TablesNext]_tablesVars, \A d \in Deletes : ~disturbed'[d],
                    NEW m \in Created
             PROVE  meetings'[m] # {}
  BY DEF ParticipantsRemain
<1>0. TablesTypeOK /\ ReadingIsCurrent /\ ParticipantsRemain
  BY DEF TablesIInv
<1>1. ASSUME UNCHANGED <<meetings, disturbed>>
      PROVE  meetings'[m] # {}
  BY <1>0, <1>1 DEF ParticipantsRemain
<1>2. ASSUME MeetingsChange
      PROVE  \A d \in Deletes : ~disturbed[d]
  BY <1>0, <1>2 DEF MeetingsChange, TablesTypeOK
<1>3. ASSUME NEW t \in Created, NEW ps \in SUBSET Names, SaveMeeting(t, ps)
      PROVE  meetings'[m] # {}
  BY <1>0, <1>2, <1>3 DEF ParticipantsRemain, SaveMeeting, TablesTypeOK
<1>4. ASSUME NEW t \in Created, DeleteMeeting(t)
      PROVE  meetings'[m] # {}
  <2>1. {} # Absent
    BY AbsentAssumption
  <2> QED
    BY <1>0, <1>2, <1>4, <2>1 DEF ParticipantsRemain, DeleteMeeting, TablesTypeOK
<1>5. ASSUME NEW d \in Deletes, DeleteTransaction(d)
      PROVE  meetings'[m] # {}
  <2> DEFINE n == deleting[d].name
  <2>1. \A e \in Deletes : ~disturbed[e]
    BY <1>0, <1>5 DEF DeleteTransaction, TablesTypeOK
  <2>2. meetings[m] # {} /\ meetings[m] \in {Absent} \cup SUBSET Names
    BY <1>0, <2>1 DEF ParticipantsRemain, TablesTypeOK
  <2>3. meetings'[m] = IF meetings[m] \in {Absent, {n}} THEN Absent ELSE meetings[m] \ {n}
    BY <1>5, <2>1, UndisturbedTransaction DEF MeetingsWithout
  <2>4. {} # Absent
    BY AbsentAssumption
  <2>5. meetings[m] \notin {Absent, {n}} => meetings[m] \ {n} # {}
    BY <2>2
  <2> QED
    BY <2>3, <2>4, <2>5
<1> QED
  BY <1>1, <1>3, <1>4, <1>5
     DEF TablesNext, SaveCalendar, GetAffected, AbandonDelete, tablesVars

LEMMA TablesInv == TablesSpec => []TablesIInv
<1>1. TablesIInv /\ [TablesNext]_tablesVars => TablesIInv'
  BY TablesNextTypeOK, NextReading, NextRemain DEF TablesIInv
<1> QED
  BY TablesInitInv, <1>1, PTL DEF TablesSpec

\* The tables and the requests keep their types.
THEOREM TablesTypeCorrect == TablesSpec => []TablesTypeOK
BY TablesInv, PTL DEF TablesIInv

\* Without a write between its query and its transaction, no deleteCalendar
\* leaves a meeting without participants.
THEOREM MeetingsKeepParticipants == TablesSpec => []ParticipantsRemain
BY TablesInv, PTL DEF TablesIInv

\* An undisturbed deleteCalendar is as good as one atomic step.
THEOREM DeletesLikeOneStep == TablesSpec => DeleteIsAtomic
<1>1. TablesIInv => [\A d \in Deletes :
                  DeleteTransaction(d) /\ ~disturbed[d] =>
                     meetings' = MeetingsWithout(deleting[d].name)]_tablesVars
  BY UndisturbedTransaction
<1> QED
  BY TablesInv, <1>1, PTL DEF DeleteIsAtomic

\* The transaction of a deleteCalendar takes out only its own participant.
THEOREM TakesOutOnlyOne == TablesSpec => OthersStay
<1>1. ASSUME NEW d \in Deletes, NEW m \in Created, DeleteTransaction(d)
      PROVE  \/ meetings'[m] = Absent
             \/ meetings[m] # Absent /\ meetings[m] \ {deleting[d].name} \subseteq meetings'[m]
  BY <1>1 DEF DeleteTransaction, Leave
<1>2. [\A d \in Deletes, m \in Created :
          DeleteTransaction(d) =>
             \/ meetings'[m] = Absent
             \/ meetings[m] # Absent /\ meetings[m] \ {deleting[d].name} \subseteq meetings'[m]
      ]_tablesVars
  BY <1>1
<1> QED
  BY <1>2, PTL DEF OthersStay
-----------------------------------------------------------------------------
(* The pipelines. *)

Stage(r) == request[r].stage
Open == {r \in Requests : Stage(r) # "idle" /\ request[r].kind = "compute"}

\* The slack that the requests in flight beside n may use up.
Slack(n) == MaxCost * (n - Cardinality(Requests))

\* Only computeSchedule gets as far as a search.
OnlyComputesSearch ==
    \A r \in Requests : Stage(r) \in {"answered", "saved"} => request[r].kind = "compute"

\* A schedule that is saved, and not paid for yet, has a row.
SavedHasRow ==
    \A r \in Requests : Stage(r) = "saved" => schedules[request[r].at] # Absent

\* Either nobody computes, or the balance covers one of those who do and falls
\* short by no more than the others that were in flight can have spent.
Reserved ==
    /\ Open = {} => credits >= Slack(1)
    /\ Open # {} =>
          \E r \in Open : credits - request[r].cost >= Slack(Cardinality(Open))

ComputeIInv == ComputeTypeOK /\ EveryoneConsidered /\ OnlyComputesSearch /\ SavedHasRow /\ Reserved
-----------------------------------------------------------------------------
\* Each pipeline is a pipeline when one slot changes.
LEMMA IdleType == Idle \in Pipeline
<1>1. 0 \in Times /\ 0 \in 0 .. MaxCost
  BY BoundsAssumption, OffersAssumption DEF Times
<1> QED
  BY <1>1 DEF Idle, Pipeline, NoMeetings

LEMMA SlackFacts ==
    /\ Cardinality(Requests) \in Nat
    /\ \A n \in Nat : Slack(n) \in Int
    /\ \A n \in Nat : Slack(n + 1) = Slack(n) + MaxCost
    /\ \A n \in Nat : n <= Cardinality(Requests) => Slack(n) <= 0
<1>1. Cardinality(Requests) \in Nat /\ MaxCost \in Nat
  BY RequestsAssumption, OffersAssumption, FS_CardinalityType
<1> DEFINE N == Cardinality(Requests)
<1>2. ASSUME NEW n \in Nat
      PROVE  /\ MaxCost * (n - N) \in Int
             /\ MaxCost * ((n + 1) - N) = MaxCost * (n - N) + MaxCost
  BY <1>1, SMT
<1>3. ASSUME NEW n \in Nat, n <= N
      PROVE  MaxCost * (n - N) <= 0
  <2>1. n - N \in Int /\ n - N <= 0
    BY <1>1, <1>3
  <2> QED
    BY <1>1, <2>1, SMT
<1> QED
  BY <1>1, <1>2, <1>3 DEF Slack

LEMMA OpenFinite ==
    /\ IsFiniteSet(Open)
    /\ Cardinality(Open) \in Nat
    /\ Cardinality(Open) <= Cardinality(Requests)
    /\ Open = {} <=> Cardinality(Open) = 0
<1>1. Open \subseteq Requests
  BY DEF Open
<1> QED
  BY <1>1, RequestsAssumption, FS_Subset, FS_CardinalityType, FS_EmptySet

LEMMA ComputeInitInv == ComputeInit => ComputeIInv
<1> SUFFICES ASSUME ComputeInit PROVE ComputeIInv
  OBVIOUS
<1>1. TablesTypeOK
  BY TablesInitInv DEF ComputeInit, TablesIInv
<1>2. request \in [Requests -> Pipeline]
  BY IdleType DEF ComputeInit
<1>3. \A r \in Requests : Stage(r) = "idle"
  BY DEF ComputeInit, Idle, Stage
<1>4. ComputeTypeOK
  BY <1>1, <1>2, <1>3, BoundsAssumption DEF ComputeInit, ComputeTypeOK, Times, Stage
<1>5. Reserved
  <2>1. Open = {}
    BY <1>3 DEF Open
  <2>2. Cardinality(Requests) # 0
    BY RequestsAssumption, FS_EmptySet
  <2>3. Slack(1) <= 0 /\ Slack(1) \in Int
    BY <2>2, SlackFacts
  <2> QED
    BY <2>1, <2>3, BoundsAssumption DEF Reserved, ComputeInit
<1> QED
  BY <1>3, <1>4, <1>5
     DEF ComputeIInv, EveryoneConsidered, OnlyComputesSearch, SavedHasRow, Stage
-----------------------------------------------------------------------------
\* A slot that is given up loses a reservation; the deduction, if there is one,
\* is no more than what was reserved.
LEMMA ReservationEnds ==
    ASSUME ComputeIInv, NEW r \in Open, request' = [request EXCEPT ![r] = Idle],
           credits' \in Int, credits' >= credits - request[r].cost
    PROVE  Reserved'
<1> DEFINE J == Cardinality(Open)
<1>1. /\ credits \in Int
      /\ \A q \in Requests : request[q].cost \in 0 .. MaxCost
      /\ r \in Requests
      /\ request \in [Requests -> Pipeline]
  BY DEF ComputeIInv, ComputeTypeOK, Open, Pipeline
<1>2. \A q \in Requests : q # r => request'[q] = request[q]
  BY <1>1
<1>3. request'[r] = Idle
  BY <1>1
<1>4. Open' = Open \ {r}
  BY <1>2, <1>3 DEF Open, Stage, Idle
<1>5. /\ J \in Nat /\ J > 0 /\ Cardinality(Open') = J - 1
      /\ Slack(J) = Slack(J - 1) + MaxCost
      /\ Slack(J) \in Int /\ Slack(J - 1) \in Int /\ MaxCost \in Nat
  <2>1. J \in Nat /\ J > 0
    BY OpenFinite
  <2>2. Cardinality(Open \ {r}) = J - 1
    BY OpenFinite, FS_RemoveElement
  <2>3. J - 1 \in Nat /\ (J - 1) + 1 = J
    BY <2>1
  <2> HIDE DEF J
  <2> QED
    BY <1>4, <2>1, <2>2, <2>3, SlackFacts, OffersAssumption
<1>6. PICK w \in Open : credits - request[w].cost >= Slack(J)
  BY DEF ComputeIInv, Reserved
<1>7. /\ request[w].cost \in Int /\ request[w].cost >= 0
      /\ request[r].cost \in Int /\ request[r].cost >= 0
      /\ request[r].cost <= MaxCost
  BY <1>1, <1>5 DEF Open
<1> HIDE DEF J
<1>8. CASE Open' = {}
  <2>1. w = r
    BY <1>4, <1>8
  <2>2. Cardinality(Open') = 0
    BY <1>8, FS_EmptySet
  <2>3. J = 1
    BY <1>5, <2>2
  <2>4. credits' >= Slack(1)
    BY <1>1, <1>5, <1>6, <1>7, <2>1, <2>3
  <2> QED
    BY <1>8, <2>4 DEF Reserved, Slack
<1>9. CASE Open' # {}
  <2>1. PICK q \in Open' : w # r => q = w
    BY <1>4, <1>9
  <2>2. /\ request'[q].cost = request[q].cost
        /\ request[q].cost \in Int /\ request[q].cost <= MaxCost
    BY <1>1, <1>2, <1>4, <1>5, <2>1 DEF Open
  <2>3. credits' - request'[q].cost >= Slack(J - 1)
    <3>1. CASE w = r
      BY <1>1, <1>5, <1>6, <1>7, <2>2, <3>1
    <3>2. CASE w # r
      BY <1>1, <1>5, <1>6, <1>7, <2>1, <2>2, <3>2
    <3> QED
      BY <3>1, <3>2
  <2>4. Slack(Cardinality(Open))' = Slack(J - 1)
    BY <1>5 DEF Slack
  <2> QED
    BY <1>9, <2>1, <2>3, <2>4 DEF Reserved
<1> QED
  BY <1>8, <1>9

\* A step that leaves the requests alone takes no credits.
LEMMA ReservationsStay ==
    ASSUME ComputeIInv, UNCHANGED request, credits' \in Int, credits' >= credits
    PROVE  Reserved'
<1>1. Open' = Open /\ Slack(Cardinality(Open))' = Slack(Cardinality(Open))
  BY DEF Open, Stage, Slack
<1>2. /\ credits \in Int
      /\ \A q \in Open : request[q].cost \in Int
      /\ Slack(1) \in Int /\ Slack(Cardinality(Open)) \in Int
  BY OpenFinite, SlackFacts DEF ComputeIInv, ComputeTypeOK, Open, Pipeline
<1>3. CASE Open = {}
  <2>1. credits >= Slack(1)
    BY <1>3 DEF ComputeIInv, Reserved
  <2>2. credits' >= Slack(1)
    BY <1>2, <2>1
  <2> QED
    BY <1>1, <1>3, <2>2 DEF Reserved, Slack
<1>4. CASE Open # {}
  <2>1. PICK w \in Open : credits - request[w].cost >= Slack(Cardinality(Open))
    BY <1>4 DEF ComputeIInv, Reserved
  <2>2. request[w].cost \in Int
    BY <1>2
  <2>3. credits' - request[w].cost >= Slack(Cardinality(Open))
    BY <1>2, <2>1, <2>2
  <2> QED
    BY <1>1, <1>4, <2>3 DEF Reserved
<1> QED
  BY <1>3, <1>4

\* So does one that moves a request on.
LEMMA ReservationMoves ==
    ASSUME ComputeIInv, UNCHANGED credits, Open' = Open,
           \A q \in Requests : request'[q].cost = request[q].cost
    PROVE  Reserved'
<1>1. Slack(Cardinality(Open))' = Slack(Cardinality(Open)) /\ Slack(1)' = Slack(1)
  BY DEF Slack
<1>2. \A q \in Open : request'[q].cost = request[q].cost
  BY DEF Open
<1> QED
  BY <1>1, <1>2 DEF ComputeIInv, Reserved

LEMMA ReservationBegins ==
    ASSUME ComputeIInv, NEW r \in Requests, NEW c \in Offers, BeginCompute(r, c)
    PROVE  Reserved'
<1>1. /\ credits \in Int /\ c \in Int /\ c <= credits /\ credits' = credits
      /\ request \in [Requests -> Pipeline]
      /\ request' = [request EXCEPT ![r] = [Idle EXCEPT !.stage = "admitted",
                                                        !.kind = "compute", !.cost = c]]
  BY OffersAssumption DEF ComputeIInv, ComputeTypeOK, BeginCompute, Covered, Admit
<1>2. /\ request'[r].stage = "admitted" /\ request'[r].kind = "compute"
      /\ request'[r].cost = c
  BY <1>1 DEF Idle
<1>3. r \in Open'
  BY <1>2 DEF Open, Stage
<1>4. Slack(Cardinality(Open))' <= 0 /\ Slack(Cardinality(Open))' \in Int
  <2>1. Open' \subseteq Requests
    BY DEF Open
  <2>2. /\ Cardinality(Open') \in Nat
        /\ Cardinality(Open') <= Cardinality(Requests)
    BY <2>1, RequestsAssumption, FS_Subset, FS_CardinalityType
  <2>3. /\ Slack(Cardinality(Open')) <= 0
        /\ Slack(Cardinality(Open')) \in Int
    BY <2>2, SlackFacts
  <2>4. Slack(Cardinality(Open))' = MaxCost * (Cardinality(Open') - Cardinality(Requests))
    BY DEF Slack
  <2> QED
    BY <2>3, <2>4 DEF Slack
<1>5. credits' - request'[r].cost >= Slack(Cardinality(Open))'
  BY <1>1, <1>2, <1>4
<1> QED
  BY <1>3, <1>5 DEF Reserved
-----------------------------------------------------------------------------
\* One slot takes a pipeline p, the others stay as they are.
LEMMA SlotChanges ==
    ASSUME ComputeIInv, NEW r \in Requests, NEW p \in Pipeline,
           request' = [request EXCEPT ![r] = p],
           p.stage # "idle" /\ p.kind = "compute" => p.cost > 0,
           p.stage \in {"posed", "answered", "saved"} =>
              \A m \in Created : p.meetings[m] # Absent =>
                 /\ p.meetings[m] # {}
                 /\ \A n \in p.meetings[m] :
                       \E blocked \in Blocked : <<n, blocked>> \in p.problem[m],
           p.stage \in {"answered", "saved"} => p.kind = "compute"
    PROVE  /\ request' \in [Requests -> Pipeline]
           /\ \A q \in Requests :
                 request'[q].stage # "idle" /\ request'[q].kind = "compute" =>
                    request'[q].cost > 0
           /\ EveryoneConsidered'
           /\ OnlyComputesSearch'
<1>1. request \in [Requests -> Pipeline]
  BY DEF ComputeIInv, ComputeTypeOK
<1>2. request'[r] = p /\ \A q \in Requests : q # r => request'[q] = request[q]
  BY <1>1
<1>3. request' \in [Requests -> Pipeline]
  BY <1>1
<1>4. \A q \in Requests :
         request'[q].stage # "idle" /\ request'[q].kind = "compute" => request'[q].cost > 0
  BY <1>2 DEF ComputeIInv, ComputeTypeOK
<1>5. EveryoneConsidered'
  <2> SUFFICES ASSUME NEW q \in Requests,
                      request'[q].stage \in {"posed", "answered", "saved"},
                      NEW m \in Created, request'[q].meetings[m] # Absent
               PROVE  /\ request'[q].meetings[m] # {}
                      /\ \A n \in request'[q].meetings[m] :
                            \E blocked \in Blocked : <<n, blocked>> \in request'[q].problem[m]
    BY DEF EveryoneConsidered
  <2>1. CASE q = r
    BY <1>2, <2>1
  <2>2. CASE q # r
    BY <1>2, <2>2 DEF ComputeIInv, EveryoneConsidered
  <2> QED
    BY <2>1, <2>2
<1>6. OnlyComputesSearch'
  BY <1>2 DEF ComputeIInv, OnlyComputesSearch, Stage
<1> QED
  BY <1>3, <1>4, <1>5, <1>6
-----------------------------------------------------------------------------
\* What is left of a step that changes neither tables nor clock nor schedules.
LEMMA RestStays ==
    ASSUME ComputeIInv, UNCHANGED <<tablesVars, schedules, now>>, credits' \in Int,
           request' \in [Requests -> Pipeline],
           \A q \in Requests :
              request'[q].stage # "idle" /\ request'[q].kind = "compute" => request'[q].cost > 0
    PROVE  ComputeTypeOK'
<1>1. TablesTypeOK'
  BY DEF ComputeIInv, ComputeTypeOK, TablesTypeOK, tablesVars
<1> QED
  BY <1>1 DEF ComputeIInv, ComputeTypeOK

\* Every way to end a request, the deduction included.
LEMMA EndInv ==
    ASSUME ComputeIInv, NEW r \in Requests, Stage(r) # "idle", End(r),
           UNCHANGED <<tablesVars, schedules, now>>, credits' \in Int,
           credits' >= credits - request[r].cost,
           request[r].kind = "validate" => credits' = credits
    PROVE  ComputeIInv'
<1>1. request' = [request EXCEPT ![r] = Idle] /\ request \in [Requests -> Pipeline]
  BY DEF End, ComputeIInv, ComputeTypeOK
<1>2. Idle.stage = "idle"
  BY DEF Idle
<1>3. /\ request' \in [Requests -> Pipeline]
      /\ \A q \in Requests :
            request'[q].stage # "idle" /\ request'[q].kind = "compute" => request'[q].cost > 0
      /\ EveryoneConsidered'
      /\ OnlyComputesSearch'
  BY <1>1, <1>2, IdleType, SlotChanges
<1>4. ComputeTypeOK'
  BY <1>3, RestStays
<1>5. request'[r] = Idle /\ \A q \in Requests : q # r => request'[q] = request[q]
  BY <1>1
<1>6. SavedHasRow'
  BY <1>2, <1>5 DEF ComputeIInv, SavedHasRow, Stage
<1>7. Reserved'
  <2>1. CASE request[r].kind = "compute"
    <3>1. r \in Open
      BY <2>1 DEF Open
    <3> QED
      BY <1>1, <3>1, ReservationEnds
  <2>2. CASE request[r].kind = "validate"
    <3>1. Idle.kind = "validate"
      BY DEF Idle
    <3>2. Open' = Open
      BY <1>5, <2>2, <3>1 DEF Open, Stage
    <3>3. /\ credits' = credits /\ credits \in Int
          /\ \A q \in Open : q # r
      BY <2>2 DEF ComputeIInv, ComputeTypeOK, Open
    <3>4. Slack(Cardinality(Open))' = Slack(Cardinality(Open)) /\ Slack(1)' = Slack(1)
      BY <3>2 DEF Slack
    <3>5. \A q \in Open : request'[q].cost = request[q].cost
      BY <1>5, <3>3 DEF Open
    <3> QED
      BY <3>2, <3>3, <3>4, <3>5 DEF ComputeIInv, Reserved
  <2>3. request[r].kind \in {"compute", "validate"}
    BY <1>1 DEF Pipeline
  <2> QED
    BY <2>1, <2>2, <2>3
<1> QED
  BY <1>3, <1>4, <1>6, <1>7 DEF ComputeIInv

\* A request moves on to p, which keeps its kind and its offer.
LEMMA MoveInv ==
    ASSUME ComputeIInv, NEW r \in Requests, NEW p \in Pipeline, Stage(r) # "idle",
           request' = [request EXCEPT ![r] = p],
           p.stage # "idle", p.kind = request[r].kind, p.cost = request[r].cost,
           p.stage \in {"posed", "answered", "saved"} =>
              \A m \in Created : p.meetings[m] # Absent =>
                 /\ p.meetings[m] # {}
                 /\ \A n \in p.meetings[m] :
                       \E blocked \in Blocked : <<n, blocked>> \in p.problem[m],
           p.stage \in {"answered", "saved"} => p.kind = "compute",
           UNCHANGED <<tablesVars, credits, now>>,
           schedules' \in [Times -> {Absent} \cup Requests],
           \A t \in Times : schedules[t] # Absent => schedules'[t] # Absent,
           p.stage = "saved" => schedules'[p.at] # Absent
    PROVE  ComputeIInv'
<1>1. request \in [Requests -> Pipeline] /\ credits \in Int
  BY DEF ComputeIInv, ComputeTypeOK
<1>2. request'[r] = p /\ \A q \in Requests : q # r => request'[q] = request[q]
  BY <1>1
<1>3. p.kind = "compute" => p.cost > 0
  BY DEF ComputeIInv, ComputeTypeOK, Stage
<1>4. /\ request' \in [Requests -> Pipeline]
      /\ \A q \in Requests :
            request'[q].stage # "idle" /\ request'[q].kind = "compute" => request'[q].cost > 0
      /\ EveryoneConsidered'
      /\ OnlyComputesSearch'
  BY <1>3, SlotChanges
<1>5. ComputeTypeOK'
  <2>1. TablesTypeOK'
    BY DEF ComputeIInv, ComputeTypeOK, TablesTypeOK, tablesVars
  <2> QED
    BY <1>4, <2>1 DEF ComputeIInv, ComputeTypeOK
<1>6. SavedHasRow'
  <2> SUFFICES ASSUME NEW q \in Requests, request'[q].stage = "saved"
               PROVE  schedules'[request'[q].at] # Absent
    BY DEF SavedHasRow, Stage
  <2>1. CASE q = r
    BY <1>2, <2>1
  <2>2. CASE q # r
    <3>1. request'[q] = request[q] /\ request[q].at \in Times
      BY <1>1, <1>2, <2>2 DEF Pipeline
    <3> QED
      BY <3>1 DEF ComputeIInv, SavedHasRow, Stage
  <2> QED
    BY <2>1, <2>2
<1>7. Reserved'
  <2>1. \A q \in Requests : request'[q].cost = request[q].cost
    BY <1>2
  <2>2. Open' = Open
    BY <1>2 DEF Open, Stage
  <2> QED
    BY <2>1, <2>2, ReservationMoves
<1> QED
  BY <1>4, <1>5, <1>6, <1>7 DEF ComputeIInv
-----------------------------------------------------------------------------
LEMMA AdmitInv ==
    ASSUME ComputeIInv, UNCHANGED tablesVars, NEW r \in Requests,
           NEW kind \in {"compute", "validate"}, NEW c \in 0 .. MaxCost,
           kind = "compute" => c > 0, Admit(r, kind, c),
           kind = "compute" => Reserved'
    PROVE  ComputeIInv'
<1> DEFINE p == [Idle EXCEPT !.stage = "admitted", !.kind = kind, !.cost = c]
<1>1. /\ request \in [Requests -> Pipeline] /\ request[r].stage = "idle"
      /\ request' = [request EXCEPT ![r] = p]
      /\ UNCHANGED <<credits, schedules, now>>
  BY DEF ComputeIInv, ComputeTypeOK, Admit
<1>2. p \in Pipeline /\ p.stage = "admitted" /\ p.kind = kind /\ p.cost = c
  BY IdleType DEF Pipeline, Idle
<1> HIDE DEF p
<1>3. /\ request' \in [Requests -> Pipeline]
      /\ \A q \in Requests :
            request'[q].stage # "idle" /\ request'[q].kind = "compute" => request'[q].cost > 0
      /\ EveryoneConsidered'
      /\ OnlyComputesSearch'
  BY <1>1, <1>2, SlotChanges
<1>4. request'[r] = p /\ \A q \in Requests : q # r => request'[q] = request[q]
  BY <1>1
<1>5. ComputeTypeOK'
  BY <1>1, <1>3, RestStays DEF ComputeIInv, ComputeTypeOK
<1>6. SavedHasRow'
  BY <1>1, <1>2, <1>4 DEF ComputeIInv, SavedHasRow, Stage
<1>7. Reserved'
  <2>1. CASE kind = "compute"
    BY <2>1
  <2>2. CASE kind = "validate"
    <3>1. Open' = Open /\ \A q \in Open : q # r
      BY <1>1, <1>2, <1>4, <2>2 DEF Open, Stage
    <3>2. Slack(Cardinality(Open))' = Slack(Cardinality(Open)) /\ Slack(1)' = Slack(1)
      BY <3>1 DEF Slack
    <3>3. \A q \in Open : request'[q].cost = request[q].cost
      BY <1>4, <3>1 DEF Open
    <3> QED
      BY <1>1, <3>1, <3>2, <3>3 DEF ComputeIInv, Reserved
  <2> QED
    BY <2>1, <2>2
<1> QED
  BY <1>3, <1>5, <1>6, <1>7 DEF ComputeIInv

\* What is asked of the lambda names everyone, because the step that asks has
\* found a calendar for everyone.
LEMMA ProblemIsComplete ==
    ASSUME ComputeIInv, NEW read \in [Created -> {Absent} \cup SUBSET Names], AllFound(read)
    PROVE  /\ Problem(read) \in
                 [Created -> {Absent} \cup SUBSET (Names \X ({Absent} \cup Blocked))]
           /\ \A m \in Created : read[m] # Absent =>
                 /\ read[m] # {}
                 /\ \A n \in read[m] :
                       \E blocked \in Blocked : <<n, blocked>> \in Problem(read)[m]
<1>1. calendars \in [Names -> Blocked \cup {Absent}]
  BY DEF ComputeIInv, ComputeTypeOK, TablesTypeOK
<1>2. ASSUME NEW m \in Created, read[m] # Absent
      PROVE  /\ read[m] \subseteq Names
             /\ read[m] # {}
             /\ Problem(read)[m] = {<<n, calendars[n]>> : n \in read[m]}
             /\ \A n \in read[m] : calendars[n] \in Blocked
  BY <1>1, <1>2 DEF AllFound, Problem
<1>3. ASSUME NEW m \in Created, read[m] # Absent
      PROVE  Problem(read)[m] \in SUBSET (Names \X ({Absent} \cup Blocked))
  BY <1>2, <1>3
<1>4. \A m \in Created : read[m] = Absent => Problem(read)[m] = Absent
  BY DEF Problem
<1>5. Problem(read) \in [Created -> {Absent} \cup SUBSET (Names \X ({Absent} \cup Blocked))]
  <2>1. \A m \in Created :
           Problem(read)[m] \in {Absent} \cup SUBSET (Names \X ({Absent} \cup Blocked))
    BY <1>3, <1>4
  <2>2. Problem(read) = [m \in Created |-> Problem(read)[m]]
    BY DEF Problem
  <2> QED
    BY <2>1, <2>2
<1> QED
  BY <1>2, <1>5

LEMMA GetMeetingsInv ==
    ASSUME ComputeIInv, UNCHANGED tablesVars, NEW r \in Requests, GetMeetings(r)
    PROVE  ComputeIInv'
<1>1. /\ request \in [Requests -> Pipeline] /\ credits \in Int
      /\ request[r] \in Pipeline /\ Stage(r) = "admitted"
      /\ UNCHANGED <<credits, schedules, now>>
      /\ meetings \in [Created -> {Absent} \cup SUBSET Names]
      /\ schedules \in [Times -> {Absent} \cup Requests]
  BY DEF ComputeIInv, ComputeTypeOK, TablesTypeOK, GetMeetings, Stage
<1>2. request[r].cost \in Int /\ request[r].cost >= 0
  BY <1>1, OffersAssumption DEF Pipeline
<1>3. CASE meetings = NoMeetings
  <2>1. End(r)
    BY <1>3 DEF GetMeetings
  <2>2. credits' >= credits - request[r].cost
    BY <1>1, <1>2
  <2> QED
    BY <1>1, <2>1, <2>2, EndInv
<1>4. CASE meetings # NoMeetings
  <2> DEFINE p == [request[r] EXCEPT !.stage = "read", !.meetings = meetings]
  <2>1. request' = [request EXCEPT ![r] = p]
    BY <1>4 DEF GetMeetings
  <2>2. /\ p \in Pipeline /\ p.stage = "read"
        /\ p.kind = request[r].kind /\ p.cost = request[r].cost
    BY <1>1 DEF Pipeline
  <2> HIDE DEF p
  <2> QED
    BY <1>1, <2>1, <2>2, MoveInv
<1> QED
  BY <1>3, <1>4

LEMMA GetCalendarsInv ==
    ASSUME ComputeIInv, UNCHANGED tablesVars, NEW r \in Requests, GetCalendars(r)
    PROVE  ComputeIInv'
<1> DEFINE read == request[r].meetings
<1>1. /\ request \in [Requests -> Pipeline] /\ credits \in Int
      /\ request[r] \in Pipeline /\ Stage(r) = "read"
      /\ UNCHANGED <<credits, schedules, now>>
      /\ read \in [Created -> {Absent} \cup SUBSET Names]
      /\ schedules \in [Times -> {Absent} \cup Requests]
  BY DEF ComputeIInv, ComputeTypeOK, GetCalendars, Stage, Pipeline
<1>2. request[r].cost \in Int /\ request[r].cost >= 0
  BY <1>1, OffersAssumption DEF Pipeline
<1>3. CASE ~AllFound(read)
  <2>1. End(r)
    BY <1>3 DEF GetCalendars
  <2>2. credits' >= credits - request[r].cost
    BY <1>1, <1>2
  <2> QED
    BY <1>1, <2>1, <2>2, EndInv
<1>4. CASE AllFound(read)
  <2> DEFINE p == [request[r] EXCEPT !.stage = "posed", !.problem = Problem(read)]
  <2>1. request' = [request EXCEPT ![r] = p]
    BY <1>4 DEF GetCalendars
  <2>2. /\ p \in Pipeline /\ p.stage = "posed"
        /\ p.kind = request[r].kind /\ p.cost = request[r].cost
        /\ p.meetings = read /\ p.problem = Problem(read)
    BY <1>1, <1>4, ProblemIsComplete DEF Pipeline
  <2>3. \A m \in Created : p.meetings[m] # Absent =>
           /\ p.meetings[m] # {}
           /\ \A n \in p.meetings[m] :
                 \E blocked \in Blocked : <<n, blocked>> \in p.problem[m]
    BY <1>1, <1>4, <2>2, ProblemIsComplete
  <2> HIDE DEF p, read
  <2> QED
    BY <1>1, <2>1, <2>2, <2>3, MoveInv
<1> QED
  BY <1>3, <1>4

LEMMA SearchInv ==
    ASSUME ComputeIInv, UNCHANGED tablesVars, NEW r \in Requests, Search(r)
    PROVE  ComputeIInv'
<1> DEFINE p == [request[r] EXCEPT !.stage = "answered"]
<1>1. /\ request \in [Requests -> Pipeline] /\ request[r] \in Pipeline
      /\ Stage(r) = "posed" /\ request[r].kind = "compute"
      /\ UNCHANGED <<credits, schedules, now>>
      /\ schedules \in [Times -> {Absent} \cup Requests]
      /\ request' = [request EXCEPT ![r] = p]
  BY DEF ComputeIInv, ComputeTypeOK, Search, Stage
<1>2. /\ p \in Pipeline /\ p.stage = "answered"
      /\ p.kind = request[r].kind /\ p.cost = request[r].cost
      /\ p.meetings = request[r].meetings /\ p.problem = request[r].problem
  BY <1>1 DEF Pipeline
<1>3. \A m \in Created : p.meetings[m] # Absent =>
         /\ p.meetings[m] # {}
         /\ \A n \in p.meetings[m] :
               \E blocked \in Blocked : <<n, blocked>> \in p.problem[m]
  BY <1>1, <1>2 DEF ComputeIInv, EveryoneConsidered, Stage
<1> HIDE DEF p
<1> QED
  BY <1>1, <1>2, <1>3, MoveInv

LEMMA SaveScheduleInv ==
    ASSUME ComputeIInv, UNCHANGED tablesVars, NEW r \in Requests, SaveSchedule(r)
    PROVE  ComputeIInv'
<1> DEFINE p == [request[r] EXCEPT !.stage = "saved", !.at = now]
<1>1. /\ request \in [Requests -> Pipeline] /\ request[r] \in Pipeline
      /\ Stage(r) = "answered" /\ request[r].kind = "compute" /\ now \in Times
      /\ UNCHANGED <<credits, now>>
      /\ schedules \in [Times -> {Absent} \cup Requests]
      /\ schedules' = [schedules EXCEPT ![now] = r]
      /\ request' = [request EXCEPT ![r] = p]
  BY DEF ComputeIInv, ComputeTypeOK, SaveSchedule, OnlyComputesSearch, Stage
<1>2. /\ p \in Pipeline /\ p.stage = "saved" /\ p.at = now
      /\ p.kind = request[r].kind /\ p.cost = request[r].cost
      /\ p.meetings = request[r].meetings /\ p.problem = request[r].problem
  BY <1>1 DEF Pipeline
<1>3. \A m \in Created : p.meetings[m] # Absent =>
         /\ p.meetings[m] # {}
         /\ \A n \in p.meetings[m] :
               \E blocked \in Blocked : <<n, blocked>> \in p.problem[m]
  BY <1>1, <1>2 DEF ComputeIInv, EveryoneConsidered, Stage
<1>4. r # Absent
  BY RequestsAssumption
<1>5. /\ schedules' \in [Times -> {Absent} \cup Requests]
      /\ \A t \in Times : schedules[t] # Absent => schedules'[t] # Absent
      /\ schedules'[p.at] # Absent
  BY <1>1, <1>2, <1>4
<1> HIDE DEF p
<1> QED
  BY <1>1, <1>2, <1>3, <1>5, MoveInv

\* The steps that end a request.
LEMMA EndsInv ==
    ASSUME ComputeIInv, UNCHANGED tablesVars, NEW r \in Requests,
           Check(r) \/ Deduct(r) \/ Abort(r)
    PROVE  ComputeIInv'
<1>1. /\ credits \in Int /\ request[r] \in Pipeline
      /\ request[r].cost \in Int /\ request[r].cost >= 0
  BY OffersAssumption DEF ComputeIInv, ComputeTypeOK, Pipeline
<1>2. CASE Check(r) \/ Abort(r)
  <2>1. Stage(r) # "idle" /\ End(r) /\ UNCHANGED <<credits, schedules, now>>
    BY <1>2 DEF Check, Abort, Stage
  <2>2. credits' >= credits - request[r].cost
    BY <1>1, <2>1
  <2> QED
    BY <1>1, <2>1, <2>2, EndInv
<1>3. CASE Deduct(r)
  <2>1. /\ Stage(r) = "saved" /\ End(r) /\ UNCHANGED <<schedules, now>>
        /\ credits' = credits - request[r].cost
    BY <1>3 DEF Deduct, Stage
  <2>2. request[r].kind # "validate"
    BY <2>1 DEF ComputeIInv, OnlyComputesSearch
  <2>3. credits' \in Int /\ credits' >= credits - request[r].cost
    BY <1>1, <2>1
  <2> QED
    BY <2>1, <2>2, <2>3, EndInv
<1> QED
  BY <1>2, <1>3

LEMMA ComputeNextInv == ComputeIInv /\ [ComputeNext]_computeVars => ComputeIInv'
<1> SUFFICES ASSUME ComputeIInv, [ComputeNext]_computeVars
             PROVE  ComputeIInv'
  OBVIOUS
<1>1. ASSUME UNCHANGED pipelineVars, [TablesNext]_tablesVars
      PROVE  ComputeIInv'
  <2>1. TablesTypeOK'
    BY <1>1, TablesNextTypeOK DEF ComputeIInv, ComputeTypeOK
  <2>2. ComputeTypeOK'
    BY <1>1, <2>1 DEF ComputeIInv, ComputeTypeOK, pipelineVars
  <2>3. EveryoneConsidered' /\ OnlyComputesSearch' /\ SavedHasRow'
    BY <1>1 DEF ComputeIInv, EveryoneConsidered, OnlyComputesSearch, SavedHasRow, Stage,
                pipelineVars
  <2>4. Reserved'
    BY <1>1, ReservationsStay DEF ComputeIInv, ComputeTypeOK, pipelineVars
  <2> QED
    BY <2>2, <2>3, <2>4 DEF ComputeIInv
<1>2. ASSUME UNCHANGED <<tablesVars, schedules, request>>, now' \in Times,
             credits' \in Int, credits' >= credits
      PROVE  ComputeIInv'
  <2>1. ComputeTypeOK'
    BY <1>2 DEF ComputeIInv, ComputeTypeOK, TablesTypeOK, tablesVars
  <2>2. EveryoneConsidered' /\ OnlyComputesSearch' /\ SavedHasRow'
    BY <1>2 DEF ComputeIInv, EveryoneConsidered, OnlyComputesSearch, SavedHasRow, Stage
  <2>3. Reserved'
    BY <1>2, ReservationsStay
  <2> QED
    BY <2>1, <2>2, <2>3 DEF ComputeIInv
<1>3. credits \in Int /\ now \in Times
  BY DEF ComputeIInv, ComputeTypeOK
<1>4. CASE Grant /\ UNCHANGED tablesVars
  <2>1. PICK n \in 1 .. (MaxCredits - credits) : credits' = credits + n
    BY <1>4 DEF Grant
  <2>2. credits' \in Int /\ credits' >= credits
    BY <1>3, <2>1, BoundsAssumption
  <2> QED
    BY <1>2, <1>3, <1>4, <2>2 DEF Grant
<1>5. CASE Tick /\ UNCHANGED tablesVars
  <2>1. now' \in Times
    BY <1>3, <1>5, BoundsAssumption DEF Tick, Times
  <2> QED
    BY <1>2, <1>3, <1>5, <2>1 DEF Tick
<1>6. ASSUME NEW r \in Requests, NEW c \in Offers, BeginCompute(r, c), UNCHANGED tablesVars
      PROVE  ComputeIInv'
  <2>1. c \in 0 .. MaxCost /\ c > 0 /\ Admit(r, "compute", c)
    BY <1>6, OffersAssumption DEF BeginCompute, Covered
  <2> QED
    BY <1>6, <2>1, AdmitInv, ReservationBegins
<1>7. ASSUME NEW r \in Requests, BeginValidate(r), UNCHANGED tablesVars
      PROVE  ComputeIInv'
  <2>1. 0 \in 0 .. MaxCost
    BY OffersAssumption
  <2> QED
    BY <1>7, <2>1, AdmitInv DEF BeginValidate
<1> QED
  BY <1>1, <1>4, <1>5, <1>6, <1>7,
     GetMeetingsInv, GetCalendarsInv, SearchInv, SaveScheduleInv, EndsInv
     DEF ComputeNext, Pipelines, computeVars, pipelineVars

LEMMA ComputeInvariant == ComputeSpec => []ComputeIInv
BY ComputeInitInv, ComputeNextInv, PTL DEF ComputeSpec

\* Pipelines, tables and balance keep their types.
THEOREM ComputeTypeCorrect == ComputeSpec => []ComputeTypeOK
BY ComputeInvariant, PTL DEF ComputeIInv

\* No problem that goes to the scheduler leaves a participant out.
THEOREM NobodyForgotten == ComputeSpec => []EveryoneConsidered
BY ComputeInvariant, PTL DEF ComputeIInv

\* The balance falls short by less than the requests in flight can spend.
THEOREM OverdraftIsBounded == ComputeSpec => []OverdraftBounded
<1>1. ComputeIInv => OverdraftBounded
  <2> SUFFICES ASSUME ComputeIInv PROVE OverdraftBounded
    OBVIOUS
  <2> DEFINE N == Cardinality(Requests)
  <2>1. N \in Nat /\ MaxCost \in Nat /\ credits \in Int
    BY SlackFacts, OffersAssumption DEF ComputeIInv, ComputeTypeOK
  <2>2. Slack(1) = MaxCost - MaxCost * N
    <3>1. MaxCost * (1 - N) = MaxCost - MaxCost * N
      BY <2>1, SMT
    <3> QED
      BY <3>1 DEF Slack
  <2>3. credits >= Slack(1)
    <3>1. CASE Open = {}
      BY <3>1 DEF ComputeIInv, Reserved
    <3>2. CASE Open # {}
      <4>1. PICK w \in Open : credits - request[w].cost >= Slack(Cardinality(Open))
        BY <3>2 DEF ComputeIInv, Reserved
      <4>2. request[w].cost \in Int /\ request[w].cost >= 0
        BY OffersAssumption DEF ComputeIInv, ComputeTypeOK, Open, Pipeline
      <4>3. Cardinality(Open) \in Nat /\ Cardinality(Open) >= 1
        BY <3>2, OpenFinite
      <4>4. Slack(Cardinality(Open)) \in Int /\ Slack(Cardinality(Open)) >= Slack(1)
        <5> DEFINE J == Cardinality(Open)
        <5>1. /\ J - N \in Int /\ 1 - N \in Int /\ J - N >= 1 - N
          BY <2>1, <4>3
        <5>2. MaxCost * (J - N) >= MaxCost * (1 - N) /\ MaxCost * (J - N) \in Int
          BY <2>1, <5>1, SMT
        <5> QED
          BY <5>2 DEF Slack
      <4>5. Slack(1) \in Int
        BY SlackFacts
      <4> QED
        BY <2>1, <4>1, <4>2, <4>4, <4>5
    <3> QED
      BY <3>1, <3>2
  <2> QED
    BY <2>2, <2>3 DEF OverdraftBounded
<1> QED
  BY ComputeInvariant, <1>1, PTL

\* What is proved of the tables alone holds with the pipelines beside them.
THEOREM TablesUndisturbed == ComputeSpec => TablesSpec
<1>1. ComputeInit => TablesInit
  BY DEF ComputeInit
<1>2. [ComputeNext]_computeVars => [TablesNext]_tablesVars
  BY DEF ComputeNext, computeVars
<1> QED
  BY <1>1, <1>2, PTL DEF ComputeSpec, TablesSpec
-----------------------------------------------------------------------------
\* The account of a request whose schedule, once saved, stays in the table.
AccountOf(p) ==
    [state |-> IF p.stage = "idle" \/ p.kind = "validate" THEN "none"
               ELSE IF p.stage = "saved" THEN "recorded" ELSE "admitted",
     cost |-> p.cost]

Accounts == [r \in Requests |-> Account(r)]

LEMMA AccountsNow == ComputeIInv => \A r \in Requests : Account(r) = AccountOf(request[r])
BY DEF ComputeIInv, SavedHasRow, Stage, Account, AccountOf

LEMMA AccountsNext == ComputeIInv' => \A r \in Requests : Account(r)' = AccountOf(request'[r])
BY DEF ComputeIInv, SavedHasRow, Stage, Account, AccountOf

\* Only the account of the slot that changes can change.
LEMMA AccountChanges ==
    ASSUME ComputeIInv, ComputeIInv', NEW r \in Requests, NEW p,
           request' = [request EXCEPT ![r] = p]
    PROVE  Accounts' = [Accounts EXCEPT ![r] = AccountOf(p)]
<1>1. request \in [Requests -> Pipeline]
  BY DEF ComputeIInv, ComputeTypeOK
<1>2. request'[r] = p /\ \A q \in Requests : q # r => request'[q] = request[q]
  BY <1>1
<1>3. Accounts' = [q \in Requests |-> AccountOf(request'[q])]
  BY AccountsNext DEF Accounts
<1>4. Accounts = [q \in Requests |-> AccountOf(request[q])]
  BY AccountsNow DEF Accounts
<1>5. \A q \in Requests : AccountOf(request'[q]) =
         IF q = r THEN AccountOf(p) ELSE AccountOf(request[q])
  BY <1>2
<1> QED
  BY <1>3, <1>4, <1>5

LEMMA AccountsStay ==
    ASSUME ComputeIInv, ComputeIInv', UNCHANGED request
    PROVE  UNCHANGED Accounts
<1>1. Accounts' = [q \in Requests |-> AccountOf(request[q])]
  BY AccountsNext DEF Accounts
<1>2. Accounts = [q \in Requests |-> AccountOf(request[q])]
  BY AccountsNow DEF Accounts
<1> QED
  BY <1>1, <1>2

LEMMA AdmitIsLedgerStep ==
    ASSUME ComputeIInv, ComputeIInv', NEW r \in Requests,
           NEW kind \in {"compute", "validate"}, NEW c,
           Admit(r, kind, c), kind = "compute" => c \in Offers /\ c > 0 /\ c <= credits,
           kind = "validate" => c = 0
    PROVE  Ledger!Next \/ UNCHANGED <<credits, Accounts>>
<1> DEFINE p == [Idle EXCEPT !.stage = "admitted", !.kind = kind, !.cost = c]
<1>1. /\ request' = [request EXCEPT ![r] = p] /\ credits' = credits
      /\ request[r] \in Pipeline /\ Stage(r) = "idle"
  BY DEF Admit, ComputeIInv, ComputeTypeOK, Stage
<1>2. p.stage = "admitted" /\ p.kind = kind /\ p.cost = c
  BY DEF Idle
<1> HIDE DEF p
<1>3. Accounts' = [Accounts EXCEPT ![r] = AccountOf(p)]
  BY <1>1, AccountChanges
<1>4. /\ Accounts[r] = AccountOf(request[r])
      /\ Accounts[r].state = "none"
      /\ Accounts[r].cost = request[r].cost
  BY <1>1, AccountsNow DEF Accounts, AccountOf, Stage
<1>5. CASE kind = "compute"
  <2>1. AccountOf(p) = [state |-> "admitted", cost |-> c]
    BY <1>2, <1>5 DEF AccountOf
  <2>2. Ledger!Admit(r, c)
    BY <1>1, <1>3, <1>4, <1>5, <2>1 DEF Ledger!Admit, Accounts
  <2> QED
    BY <1>5, <2>2 DEF Ledger!Next
<1>6. CASE kind = "validate"
  <2>1. AccountOf(p) = [state |-> "none", cost |-> 0]
    BY <1>2, <1>6 DEF AccountOf
  <2>2. Ledger!Waive(r)
    BY <1>1, <1>3, <2>1 DEF Ledger!Waive, Accounts
  <2> QED
    BY <2>2 DEF Ledger!Next
<1> QED
  BY <1>5, <1>6

LEMMA EndIsLedgerStep ==
    ASSUME ComputeIInv, ComputeIInv', NEW r \in Requests, End(r), UNCHANGED credits
    PROVE  Ledger!Next
<1>1. AccountOf(Idle) = [state |-> "none", cost |-> 0]
  BY DEF AccountOf, Idle
<1>2. Accounts' = [Accounts EXCEPT ![r] = [state |-> "none", cost |-> 0]]
  BY <1>1, AccountChanges DEF End
<1>3. Ledger!Waive(r)
  BY <1>2 DEF Ledger!Waive, Accounts
<1> QED
  BY <1>3 DEF Ledger!Next

\* A request moves on without having a schedule yet.
LEMMA MoveIsStutter ==
    ASSUME ComputeIInv, ComputeIInv', NEW r \in Requests, NEW p,
           request' = [request EXCEPT ![r] = p], UNCHANGED credits,
           Stage(r) \notin {"idle", "saved"}, p.stage \notin {"idle", "saved"},
           p.kind = request[r].kind, p.cost = request[r].cost
    PROVE  UNCHANGED <<credits, Accounts>>
<1>1. AccountOf(p) = AccountOf(request[r])
  BY DEF AccountOf, Stage
<1>2. Accounts[r] = AccountOf(p)
  BY <1>1, AccountsNow DEF Accounts
<1>3. Accounts' = [Accounts EXCEPT ![r] = AccountOf(p)]
  BY AccountChanges
<1> QED
  BY <1>2, <1>3 DEF Accounts

LEMMA ReadIsLedgerStep ==
    ASSUME ComputeIInv, ComputeIInv', NEW r \in Requests,
           GetMeetings(r) \/ GetCalendars(r) \/ Search(r)
    PROVE  Ledger!Next \/ UNCHANGED <<credits, Accounts>>
<1>1. request[r] \in Pipeline /\ credits' = credits
  BY DEF ComputeIInv, ComputeTypeOK, GetMeetings, GetCalendars, Search
<1>2. CASE End(r)
  BY <1>1, <1>2, EndIsLedgerStep
<1>3. CASE GetMeetings(r) /\ ~End(r)
  <2> DEFINE p == [request[r] EXCEPT !.stage = "read", !.meetings = meetings]
  <2>1. request' = [request EXCEPT ![r] = p] /\ Stage(r) = "admitted"
    BY <1>3 DEF GetMeetings, Stage
  <2>2. p.stage = "read" /\ p.kind = request[r].kind /\ p.cost = request[r].cost
    BY <1>1 DEF Pipeline
  <2> HIDE DEF p
  <2> QED
    BY <1>1, <2>1, <2>2, MoveIsStutter
<1>4. CASE GetCalendars(r) /\ ~End(r)
  <2> DEFINE p == [request[r] EXCEPT !.stage = "posed",
                                     !.problem = Problem(request[r].meetings)]
  <2>1. request' = [request EXCEPT ![r] = p] /\ Stage(r) = "read"
    BY <1>4 DEF GetCalendars, Stage
  <2>2. p.stage = "posed" /\ p.kind = request[r].kind /\ p.cost = request[r].cost
    BY <1>1 DEF Pipeline
  <2> HIDE DEF p
  <2> QED
    BY <1>1, <2>1, <2>2, MoveIsStutter
<1>5. CASE Search(r)
  <2> DEFINE p == [request[r] EXCEPT !.stage = "answered"]
  <2>1. request' = [request EXCEPT ![r] = p] /\ Stage(r) = "posed"
    BY <1>5 DEF Search, Stage
  <2>2. p.stage = "answered" /\ p.kind = request[r].kind /\ p.cost = request[r].cost
    BY <1>1 DEF Pipeline
  <2> HIDE DEF p
  <2> QED
    BY <1>1, <2>1, <2>2, MoveIsStutter
<1> QED
  BY <1>2, <1>3, <1>4, <1>5

LEMMA SaveIsRecord ==
    ASSUME ComputeIInv, ComputeIInv', NEW r \in Requests, SaveSchedule(r)
    PROVE  Ledger!Next
<1> DEFINE p == [request[r] EXCEPT !.stage = "saved", !.at = now]
<1>1. /\ request[r] \in Pipeline /\ Stage(r) = "answered" /\ request[r].kind = "compute"
      /\ request' = [request EXCEPT ![r] = p] /\ credits' = credits
  BY DEF ComputeIInv, ComputeTypeOK, OnlyComputesSearch, SaveSchedule, Stage
<1>2. p.stage = "saved" /\ p.kind = "compute" /\ p.cost = request[r].cost
  BY <1>1 DEF Pipeline
<1> HIDE DEF p
<1>3. /\ AccountOf(request[r]) = [state |-> "admitted", cost |-> request[r].cost]
      /\ AccountOf(p) = [state |-> "recorded", cost |-> request[r].cost]
  BY <1>1, <1>2 DEF AccountOf, Stage
<1>4. Accounts[r] = [state |-> "admitted", cost |-> request[r].cost]
  BY <1>3, AccountsNow DEF Accounts
<1>5. Accounts' = [Accounts EXCEPT ![r] = [state |-> "recorded", cost |-> request[r].cost]]
  BY <1>1, <1>3, AccountChanges
<1>6. Accounts' = [Accounts EXCEPT ![r].state = "recorded"]
  <2>1. [Accounts[r] EXCEPT !.state = "recorded"]
           = [state |-> "recorded", cost |-> request[r].cost]
    BY <1>4
  <2> QED
    BY <1>5, <2>1
<1>7. Ledger!Record(r)
  BY <1>1, <1>4, <1>6 DEF Ledger!Record, Accounts
<1> QED
  BY <1>7 DEF Ledger!Next

LEMMA DeductIsCharge ==
    ASSUME ComputeIInv, ComputeIInv', NEW r \in Requests, Deduct(r)
    PROVE  Ledger!Next
<1>1. /\ Stage(r) = "saved" /\ request[r].kind = "compute"
      /\ request' = [request EXCEPT ![r] = Idle]
      /\ credits' = credits - request[r].cost
  BY DEF ComputeIInv, OnlyComputesSearch, Deduct, End, Stage
<1>2. /\ AccountOf(request[r]) = [state |-> "recorded", cost |-> request[r].cost]
      /\ AccountOf(Idle) = [state |-> "none", cost |-> 0]
  BY <1>1 DEF AccountOf, Stage, Idle
<1>3. Accounts[r] = [state |-> "recorded", cost |-> request[r].cost]
  BY <1>2, AccountsNow DEF Accounts
<1>4. Accounts' = [Accounts EXCEPT ![r] = [state |-> "none", cost |-> 0]]
  BY <1>1, <1>2, AccountChanges
<1>5. Ledger!Charge(r)
  BY <1>1, <1>3, <1>4 DEF Ledger!Charge, Accounts
<1> QED
  BY <1>5 DEF Ledger!Next

LEMMA StepKeepsTheBooks ==
    ASSUME ComputeIInv, ComputeIInv', [ComputeNext]_computeVars
    PROVE  Ledger!Next \/ UNCHANGED <<credits, Accounts>>
<1>1. CASE UNCHANGED <<credits, request>>
  BY <1>1, AccountsStay
<1>2. CASE Grant
  <2>1. PICK n \in 1 .. (MaxCredits - credits) : credits' = credits + n
    BY <1>2 DEF Grant
  <2>2. credits' - credits \in Nat
    BY <2>1, BoundsAssumption DEF ComputeIInv, ComputeTypeOK
  <2>3. UNCHANGED Accounts
    BY <1>2, AccountsStay DEF Grant
  <2>4. Ledger!Grant
    BY <2>2, <2>3 DEF Ledger!Grant, Accounts
  <2> QED
    BY <2>4 DEF Ledger!Next
<1>3. ASSUME NEW r \in Requests, NEW c \in Offers, BeginCompute(r, c)
      PROVE  Ledger!Next \/ UNCHANGED <<credits, Accounts>>
  <2>1. c > 0 /\ c <= credits /\ Admit(r, "compute", c)
    BY <1>3, OffersAssumption DEF BeginCompute, Covered
  <2> QED
    BY <2>1, AdmitIsLedgerStep
<1>4. ASSUME NEW r \in Requests, BeginValidate(r)
      PROVE  Ledger!Next \/ UNCHANGED <<credits, Accounts>>
  BY <1>4, AdmitIsLedgerStep DEF BeginValidate
<1>5. ASSUME NEW r \in Requests, Check(r) \/ Abort(r)
      PROVE  Ledger!Next
  BY <1>5, EndIsLedgerStep DEF Check, Abort
<1> QED
  BY <1>1, <1>2, <1>3, <1>4, <1>5, ReadIsLedgerStep, SaveIsRecord, DeductIsCharge
     DEF ComputeNext, Pipelines, Tick, computeVars, pipelineVars

\* The pipelines implement the ledger: credits are deducted at most once for a
\* request, by what it was admitted for, after its schedule was recorded.
THEOREM BooksAreKept == ComputeSpec => KeepsTheBooks
<1>1. ComputeInit => Ledger!Init
  <2> SUFFICES ASSUME ComputeInit PROVE Ledger!Init
    OBVIOUS
  <2>1. credits \in Nat
    BY BoundsAssumption DEF ComputeInit
  <2>2. \A r \in Requests : Account(r) = [state |-> "none", cost |-> 0]
    BY DEF ComputeInit, Account, Idle
  <2> QED
    BY <2>1, <2>2 DEF Ledger!Init
<1>2. ComputeIInv /\ ComputeIInv' /\ [ComputeNext]_computeVars
         => [Ledger!Next]_<<credits, Accounts>>
  BY StepKeepsTheBooks
<1>3. ComputeIInv /\ ComputeIInv' /\ [ComputeNext]_computeVars => [Ledger!Next]_Ledger!ledgerVars
  BY <1>2 DEF Ledger!ledgerVars, Accounts
<1> QED
  BY <1>1, <1>3, ComputeInvariant, PTL DEF ComputeSpec, KeepsTheBooks, Ledger!Spec

-----------------------------------------------------------------------------
(* The page.                                                               *)

Saves == [kind : {"saveCalendar"}, name : Names, blocked : Blocked]
Deletions == [kind : {"deleteCalendar"}, name : Names, delete : Deletes]
MeetingSaves == [kind : {"saveMeeting"}, created : Created, participants : SUBSET Names]
MeetingDeletions == [kind : {"deleteMeeting"}, created : Created]
PageRequest == Saves \cup Deletions \cup MeetingSaves \cup MeetingDeletions

\* A request decides what the calendar of n, or the meeting m, will be.
OfCalendar(r, n) == r.kind \in {"saveCalendar", "deleteCalendar"} /\ r.name = n
OfMeeting(r, m) == r.kind \in {"saveMeeting", "deleteMeeting"} /\ r.created = m

Brings(r) == IF r.kind = "saveCalendar" THEN r.blocked ELSE Absent
Makes(r) == IF r.kind = "saveMeeting" THEN r.participants ELSE Absent

After(i) == {j \in DOMAIN requests : i < j}

LastOfCalendar(i, n) ==
    OfCalendar(requests[i], n) /\ \A j \in After(i) : ~OfCalendar(requests[j], n)
LastOfMeeting(i, m) ==
    OfMeeting(requests[i], m) /\ \A j \in After(i) : ~OfMeeting(requests[j], m)

\* Whose calendars are deleted by requests after the i-th.
Leaving(i) ==
    {n \in Names : \E j \in After(i) : requests[j].kind = "deleteCalendar" /\ requests[j].name = n}

\* What is left of a meeting when some participants have gone.
Without(meeting, gone) ==
    IF meeting = Absent \/ (meeting # {} /\ meeting \subseteq gone) THEN Absent
    ELSE meeting \ gone

\* A calendar that the page need not have sent yet is there all the same.
Agrees(n, calendar) ==
    /\ calendar = Absent <=> participants[n] = Absent
    /\ n \notin participantSaveQueue \cup unsaved => calendar = participants[n]

\* Answered in order, the requests make the tables what the page shows.
CalendarsArrive ==
    \A n \in Names :
        /\ \A i \in DOMAIN requests : LastOfCalendar(i, n) => Agrees(n, Brings(requests[i]))
        /\ (\A i \in DOMAIN requests : ~OfCalendar(requests[i], n)) => Agrees(n, calendars[n])

MeetingsArrive ==
    \A m \in Created :
        /\ meetings[m] # {}
        /\ \A i \in DOMAIN requests : LastOfMeeting(i, m) =>
              pageMeetings[m] = Without(Makes(requests[i]), Leaving(i))
        /\ (\A i \in DOMAIN requests : ~OfMeeting(requests[i], m)) =>
              pageMeetings[m] = Without(meetings[m], Leaving(0))

\* A deletion is one request until it has ended, and what it has read is up to date.
DeletionsAreCurrent ==
    /\ \A d \in Deletes : deleting[d].stage = "ready" => ~disturbed[d]
    /\ \A i \in DOMAIN requests : requests[i].kind = "deleteCalendar" =>
          LET d == requests[i].delete IN
          /\ deleting[d].stage = "read" => deleting[d].name = requests[i].name
          /\ ~astray /\ deleting[d].stage = "read" =>
                ~Overtakes(i) /\ (Created # {} => ~disturbed[d])
          /\ \A j \in DOMAIN requests :
                requests[j].kind = "deleteCalendar" /\ requests[j].delete = d => i = j

QueueIsFinite == IsFiniteSet(participantSaveQueue)

RequestsTyped == requests \in Seq(PageRequest)

\* The page and its own load agree with the tables.
Booked == ~astray /\ ~muddled /\ loaded

\* Until it is loaded or used, the page is blank, and the tables wait for its load,
\* unless something went astray before.
CoverHides ==
    ~loaded /\ ~muddled =>
        /\ participants = NoCalendars /\ pageMeetings = NoMeetings
        /\ validatedName = Absent /\ participantSaveQueue = {}
        /\ ~astray =>
              /\ requests = <<>>
              /\ \A m \in Created : meetings[m] # Absent =>
                    \A n \in meetings[m] : calendars[n] # Absent
              /\ "calendars" \in initialLoad.read => initialLoad.data.calendars = calendars
              /\ "meetings" \in initialLoad.read => initialLoad.data.meetings = meetings

LoadedOnce == loaded /\ ~muddled => ~initialLoad.underWay

PageInv ==
    /\ TypeOK /\ RequestsTyped /\ QueueIsFinite
    /\ NoEditStranded
    /\ NoCalendarOverwritten
    /\ TablesIInv
    /\ DeletionsAreCurrent
    /\ Booked => CalendarsArrive /\ MeetingsArrive
    /\ MeetingsAreOfParticipants
    /\ CoverHides /\ LoadedOnce
-----------------------------------------------------------------------------
LEMMA PageTyped ==
    ASSUME TypeOK
    PROVE  /\ participants \in [Names -> Blocked \cup {Absent}]
           /\ pageMeetings \in [Created -> {Absent} \cup SUBSET Names]
           /\ calendars \in [Names -> Blocked \cup {Absent}]
           /\ meetings \in [Created -> {Absent} \cup SUBSET Names]
           /\ deleting \in [Deletes -> Delete] /\ disturbed \in [Deletes -> BOOLEAN]
           /\ participantSaveQueue \subseteq Names /\ unsaved \subseteq Names
           /\ meetingParticipants \subseteq Names
           /\ loaded \in BOOLEAN /\ muddled \in BOOLEAN /\ astray \in BOOLEAN
           /\ initialLoad \in InitialLoad /\ earlierLoads \in Nat
           /\ Absent \notin Names /\ Absent \notin Blocked /\ {} # Absent
           /\ \A them \in SUBSET Names : them # Absent
  BY AbsentAssumption DEF TypeOK, TablesTypeOK

LEMMA RequestTyped ==
    ASSUME NEW r \in PageRequest
    PROVE  /\ r.kind \in {"saveCalendar", "deleteCalendar", "saveMeeting", "deleteMeeting"}
           /\ r.kind = "saveCalendar" => r.name \in Names /\ r.blocked \in Blocked
           /\ r.kind = "deleteCalendar" => r.name \in Names /\ r.delete \in Deletes
           /\ r.kind = "saveMeeting" =>
                 r.created \in Created /\ r.participants \subseteq Names
           /\ r.kind = "deleteMeeting" => r.created \in Created
  BY DEF PageRequest, Saves, Deletions, MeetingSaves, MeetingDeletions

\* Taking out the k-th request leaves the others in their order.
Moved(k, j) == IF j < k THEN j ELSE j + 1

LEMMA RemovedOne ==
    ASSUME NEW s \in Seq(PageRequest), NEW k \in DOMAIN s
    PROVE  /\ RemoveAt(s, k) \in Seq(PageRequest)
           /\ Len(RemoveAt(s, k)) = Len(s) - 1
           /\ DOMAIN RemoveAt(s, k) = 1 .. Len(s) - 1
           /\ \A j \in 1 .. Len(s) - 1 : RemoveAt(s, k)[j] = s[Moved(k, j)]
  <1>1. k \in 1 .. Len(s) /\ Len(s) \in Nat
    OBVIOUS
  <1> DEFINE before == SubSeq(s, 1, k - 1)
             behind == SubSeq(s, k + 1, Len(s))
  <1>2. /\ before \in Seq(PageRequest) /\ Len(before) = k - 1
        /\ \A j \in 1 .. k - 1 : before[j] = s[j]
    <2>1. \A j \in 1 .. k - 1 : s[j] \in PageRequest
      BY <1>1
    <2> QED
      BY <1>1, <2>1, SubSeqProperties
  <1>3. /\ behind \in Seq(PageRequest) /\ Len(behind) = Len(s) - k
        /\ \A j \in 1 .. Len(s) - k : behind[j] = s[k + j]
    BY <1>1, SubSeqProperties
  <1>4. RemoveAt(s, k) = before \o behind
    BY DEF RemoveAt
  <1> HIDE DEF before, behind
  <1>5. /\ RemoveAt(s, k) \in Seq(PageRequest)
        /\ Len(RemoveAt(s, k)) = Len(before) + Len(behind)
        /\ \A j \in 1 .. Len(before) + Len(behind) :
              RemoveAt(s, k)[j] = IF j <= Len(before) THEN before[j] ELSE behind[j - Len(before)]
    <2>1. PICK x \in Seq(PageRequest) : x = before
      BY <1>2
    <2>2. PICK y \in Seq(PageRequest) : y = behind
      BY <1>3
    <2>3. /\ x \o y \in Seq(PageRequest)
          /\ Len(x \o y) = Len(x) + Len(y)
          /\ \A j \in 1 .. Len(x) + Len(y) :
                (x \o y)[j] = IF j <= Len(x) THEN x[j] ELSE y[j - Len(x)]
      BY ConcatProperties
    <2> QED
      BY <1>4, <2>1, <2>2, <2>3
  <1>6. Len(before) + Len(behind) = Len(s) - 1
    BY <1>1, <1>2, <1>3
  <1>7. ASSUME NEW j \in 1 .. Len(s) - 1
        PROVE  RemoveAt(s, k)[j] = s[Moved(k, j)]
    <2>1. CASE j < k
      BY <1>1, <1>2, <1>5, <1>6, <2>1 DEF Moved
    <2>2. CASE ~(j < k)
      <3>1. /\ j - Len(before) \in 1 .. Len(s) - k
            /\ k + (j - Len(before)) = j + 1
            /\ ~(j <= Len(before))
        BY <1>1, <1>2, <2>2
      <3>2. RemoveAt(s, k)[j] = behind[j - Len(before)]
        BY <1>5, <1>6, <3>1
      <3> QED
        BY <1>3, <2>2, <3>1, <3>2 DEF Moved
    <2> QED
      BY <2>1, <2>2
  <1>8. PICK rest : rest = RemoveAt(s, k)
    OBVIOUS
  <1>9. rest \in Seq(PageRequest) /\ Len(rest) = Len(s) - 1
    BY <1>5, <1>6, <1>8
  <1>10. DOMAIN rest = 1 .. Len(s) - 1
    BY <1>9
  <1>11. \A j \in 1 .. Len(s) - 1 : rest[j] = s[Moved(k, j)]
    BY <1>7, <1>8
  <1> QED
    BY <1>8, <1>9, <1>10, <1>11, Zenon

\* The requests that stay when the k-th has been taken out.
LEMMA RequestsAfter ==
    ASSUME RequestsTyped, NEW k \in DOMAIN requests, requests' = RemoveAt(requests, k)
    PROVE  /\ RequestsTyped'
           /\ \A j \in DOMAIN requests' :
                 /\ Moved(k, j) \in DOMAIN requests \ {k}
                 /\ requests'[j] = requests[Moved(k, j)]
           /\ \A i \in DOMAIN requests \ {k} : \E j \in DOMAIN requests' : i = Moved(k, j)
           /\ \A j, l \in DOMAIN requests' : Moved(k, j) < Moved(k, l) <=> j < l
  <1>1. k \in 1 .. Len(requests) /\ Len(requests) \in Nat /\ DOMAIN requests = 1 .. Len(requests)
    BY DEF RequestsTyped
  <1>2. /\ requests' \in Seq(PageRequest)
        /\ DOMAIN requests' = 1 .. Len(requests) - 1
        /\ \A j \in 1 .. Len(requests) - 1 : requests'[j] = requests[Moved(k, j)]
    BY RemovedOne DEF RequestsTyped
  <1>3. \A j \in DOMAIN requests' : Moved(k, j) \in DOMAIN requests \ {k}
    BY <1>1, <1>2 DEF Moved
  <1>4. ASSUME NEW i \in DOMAIN requests \ {k}
        PROVE  \E j \in DOMAIN requests' : i = Moved(k, j)
    <2>1. CASE i < k
      BY <1>1, <1>2, <2>1 DEF Moved
    <2>2. CASE ~(i < k)
      <3>1. i - 1 \in DOMAIN requests' /\ i = Moved(k, i - 1)
        BY <1>1, <1>2, <2>2 DEF Moved
      <3> QED
        BY <3>1
    <2> QED
      BY <2>1, <2>2
  <1>5. \A j, l \in DOMAIN requests' : Moved(k, j) < Moved(k, l) <=> j < l
    BY <1>1, <1>2 DEF Moved
  <1>6. RequestsTyped'
    BY <1>2 DEF RequestsTyped, PageRequest, Saves, Deletions, MeetingSaves, MeetingDeletions
  <1> QED
    BY <1>2, <1>3, <1>4, <1>5, <1>6

\* The requests after some are added.
LEMMA RequestsAdded ==
    ASSUME RequestsTyped, NEW added \in Seq(PageRequest), requests' = requests \o added
    PROVE  /\ RequestsTyped'
           /\ Len(requests) \in Nat /\ DOMAIN requests = 1 .. Len(requests)
           /\ DOMAIN requests' = 1 .. Len(requests) + Len(added)
           /\ \A i \in DOMAIN requests : i \in DOMAIN requests' /\ requests'[i] = requests[i]
           /\ \A k \in DOMAIN added : /\ Len(requests) + k \in DOMAIN requests'
                                      /\ requests'[Len(requests) + k] = added[k]
           /\ \A i \in DOMAIN requests' \ DOMAIN requests :
                 \E k \in DOMAIN added : i = Len(requests) + k
  <1>1. /\ Len(requests) \in Nat /\ DOMAIN requests = 1 .. Len(requests)
        /\ Len(added) \in Nat /\ DOMAIN added = 1 .. Len(added)
    BY DEF RequestsTyped
  <1>2. /\ requests' \in Seq(PageRequest)
        /\ Len(requests') = Len(requests) + Len(added)
        /\ \A i \in 1 .. Len(requests) + Len(added) :
              requests'[i] = IF i <= Len(requests) THEN requests[i] ELSE added[i - Len(requests)]
    BY ConcatProperties DEF RequestsTyped
  <1>3. DOMAIN requests' = 1 .. Len(requests) + Len(added)
    BY <1>2
  <1>4. \A i \in DOMAIN requests : i \in DOMAIN requests' /\ requests'[i] = requests[i]
    BY <1>1, <1>2, <1>3
  <1>5. ASSUME NEW k \in DOMAIN added
        PROVE  /\ Len(requests) + k \in DOMAIN requests'
               /\ requests'[Len(requests) + k] = added[k]
    <2>1. /\ Len(requests) + k \in 1 .. Len(requests) + Len(added)
          /\ ~(Len(requests) + k <= Len(requests))
          /\ (Len(requests) + k) - Len(requests) = k
      BY <1>1
    <2> QED
      BY <1>2, <1>3, <2>1
  <1>6. ASSUME NEW i \in DOMAIN requests' \ DOMAIN requests
        PROVE  \E k \in DOMAIN added : i = Len(requests) + k
    <2>1. i - Len(requests) \in DOMAIN added /\ i = Len(requests) + (i - Len(requests))
      BY <1>1, <1>3
    <2> QED
      BY <2>1
  <1>7. RequestsTyped'
    BY <1>2 DEF RequestsTyped, PageRequest, Saves, Deletions, MeetingSaves, MeetingDeletions
  <1> QED
    BY <1>1, <1>3, <1>4, <1>5, <1>6, <1>7

\* An order of a finite set has each of its elements.
LEMMA OrderHasAll ==
    ASSUME NEW S, IsFiniteSet(S), NEW order \in SetToSeqs(S)
    PROVE  /\ order \in Seq(S)
           /\ \A x \in S : \E k \in DOMAIN order : order[k] = x
  <1> DEFINE D == 1 .. Cardinality(S)
  <1>1. Cardinality(S) \in Nat
    BY FS_CardinalityType
  <1>2. order \in [D -> S] /\ \A i, j \in D : i # j => order[i] # order[j]
    BY DEF SetToSeqs
  <1>3. order \in Injection(D, S)
    BY <1>2 DEF Injection, IsInjective
  <1>4. IsFiniteSet(D) /\ Cardinality(D) = Cardinality(S)
    <2>1. /\ IsFiniteSet(1 .. Cardinality(S))
          /\ Cardinality(1 .. Cardinality(S)) =
                IF 1 > Cardinality(S) THEN 0 ELSE Cardinality(S) - 1 + 1
      BY <1>1, FS_Interval
    <2> QED
      BY <1>1, <2>1
  <1>5. order \in Surjection(D, S)
    BY <1>3, <1>4, FS_Injection
  <1>6. \A x \in S : \E k \in D : order[k] = x
    BY <1>5 DEF Surjection
  <1>7. DOMAIN order = D
    BY <1>2
  <1>8. order \in Seq(S)
    BY <1>1, <1>2
  <1> QED
    BY <1>6, <1>7, <1>8
-----------------------------------------------------------------------------
\* Two requests about the same calendar or meeting do not overtake each other
\* unnoticed, and a deletion waits for the meetings, and they for it.
LEMMA Conflicts ==
    ASSUME RequestsTyped, NEW i \in DOMAIN requests, ~Overtakes(i),
           NEW j \in DOMAIN requests, j < i
    PROVE  /\ Footprint(requests[j]) \cap Footprint(requests[i]) = {}
           /\ \A n \in Names : ~(OfCalendar(requests[i], n) /\ OfCalendar(requests[j], n))
           /\ \A m \in Created :
                 /\ ~(OfMeeting(requests[i], m) /\ OfMeeting(requests[j], m))
                 /\ requests[i].kind = "deleteCalendar" => ~OfMeeting(requests[j], m)
                 /\ OfMeeting(requests[i], m) => requests[j].kind # "deleteCalendar"
                 /\ ~(requests[i].kind = "deleteCalendar" /\ requests[j].kind = "deleteCalendar")
  <1>1. Footprint(requests[j]) \cap Footprint(requests[i]) = {}
    <2>1. j \in 1 .. i - 1
      BY DEF RequestsTyped
    <2> QED
      BY <2>1 DEF Overtakes
  <1>2. ASSUME NEW n \in Names, OfCalendar(requests[i], n), OfCalendar(requests[j], n)
        PROVE  FALSE
    <2>1. n \in Footprint(requests[i]) /\ n \in Footprint(requests[j])
      BY <1>2 DEF Footprint, OfCalendar
    <2> QED
      BY <1>1, <2>1
  <1>3. ASSUME NEW m \in Created, NEW r, r.kind = "deleteCalendar" \/ OfMeeting(r, m)
        PROVE  m \in Footprint(r)
    BY <1>3 DEF Footprint, OfMeeting
  <1> QED
    BY <1>1, <1>2, <1>3

\* Answering a request in its turn makes the calendars arrive.
LEMMA CalendarsAfter ==
    ASSUME RequestsTyped, CalendarsArrive,
           NEW k \in DOMAIN requests, ~Overtakes(k), requests' = RemoveAt(requests, k),
           UNCHANGED <<participants, participantSaveQueue, unsaved>>,
           \A n \in Names : calendars'[n] = IF OfCalendar(requests[k], n) THEN Brings(requests[k])
                                            ELSE calendars[n]
    PROVE  CalendarsArrive'
  <1> SUFFICES ASSUME NEW n \in Names
               PROVE  /\ \A j \in DOMAIN requests' :
                            LastOfCalendar(j, n)' => Agrees(n, Brings(requests[j]))'
                      /\ (\A j \in DOMAIN requests' : ~OfCalendar(requests'[j], n)) =>
                            Agrees(n, calendars[n])'
    BY DEF CalendarsArrive, OfCalendar
  <1>1. /\ \A i \in DOMAIN requests : LastOfCalendar(i, n) => Agrees(n, Brings(requests[i]))
        /\ (\A i \in DOMAIN requests : ~OfCalendar(requests[i], n)) => Agrees(n, calendars[n])
    BY DEF CalendarsArrive
  <1>2. DOMAIN requests \subseteq Int /\ DOMAIN requests' \subseteq Int
    <2>1. RequestsTyped'
      BY RequestsAfter
    <2> QED
      BY <2>1 DEF RequestsTyped
  <1>3. ASSUME NEW j \in DOMAIN requests', LastOfCalendar(j, n)'
        PROVE  Agrees(n, Brings(requests[j]))'
    <2> DEFINE i == Moved(k, j)
    <2>1. i \in DOMAIN requests /\ requests'[j] = requests[i] /\ i # k
      BY RequestsAfter
    <2> HIDE DEF i
    <2>2. OfCalendar(requests[i], n)
      BY <1>3, <2>1 DEF LastOfCalendar, OfCalendar
    <2>3. ASSUME NEW l \in DOMAIN requests, i < l
          PROVE  ~OfCalendar(requests[l], n)
      <3>1. CASE l = k
        BY <2>1, <2>2, <2>3, <3>1, Conflicts
      <3>2. CASE l # k
        <4>1. PICK h \in DOMAIN requests' : l = Moved(k, h)
          BY <3>2, RequestsAfter
        <4>2. j < h
          BY <2>3, <4>1, RequestsAfter DEF i
        <4>3. requests'[h] = requests[l]
          BY <4>1, RequestsAfter
        <4>4. ~OfCalendar(requests'[h], n)
          BY <1>3, <4>2 DEF LastOfCalendar, After, OfCalendar
        <4> QED
          BY <4>3, <4>4 DEF OfCalendar
      <3> QED
        BY <3>1, <3>2
    <2>4. LastOfCalendar(i, n)
      BY <2>2, <2>3 DEF LastOfCalendar, After
    <2>5. Agrees(n, Brings(requests[i]))
      BY <1>1, <2>1, <2>4
    <2> QED
      BY <2>1, <2>5 DEF Agrees, Brings
  <1>4. ASSUME \A j \in DOMAIN requests' : ~OfCalendar(requests'[j], n)
        PROVE  Agrees(n, calendars[n])'
    <2>1. ASSUME NEW i \in DOMAIN requests, i # k
          PROVE  ~OfCalendar(requests[i], n)
      <3>1. PICK j \in DOMAIN requests' : i = Moved(k, j)
        BY <2>1, RequestsAfter
      <3> QED
        BY <1>4, <3>1, RequestsAfter DEF OfCalendar
    <2>2. CASE OfCalendar(requests[k], n)
      <3>1. LastOfCalendar(k, n)
        BY <1>2, <2>1, <2>2 DEF LastOfCalendar, After
      <3>2. Agrees(n, Brings(requests[k]))
        BY <1>1, <3>1
      <3> QED
        BY <2>2, <3>2 DEF Agrees, OfCalendar
    <2>3. CASE ~OfCalendar(requests[k], n)
      <3>1. Agrees(n, calendars[n])
        BY <1>1, <2>1, <2>3
      <3> QED
        BY <2>3, <3>1 DEF Agrees, OfCalendar
    <2> QED
      BY <2>2, <2>3
  <1> QED
    BY <1>3, <1>4

\* What the i-th request is followed by when the k-th has been answered.
LEMMA LeavingAfter ==
    ASSUME RequestsTyped, NEW k \in DOMAIN requests, requests' = RemoveAt(requests, k)
    PROVE  /\ \A j \in DOMAIN requests' :
                 requests[k].kind # "deleteCalendar" \/ k < Moved(k, j) =>
                    Leaving(j)' = Leaving(Moved(k, j))
           /\ requests[k].kind # "deleteCalendar" => Leaving(0)' = Leaving(0)
           /\ requests[k].kind = "deleteCalendar" =>
                 Leaving(0) = Leaving(0)' \cup {requests[k].name}
  <1>1. DOMAIN requests = 1 .. Len(requests) /\ DOMAIN requests' = 1 .. Len(requests')
        /\ Len(requests) \in Nat /\ Len(requests') \in Nat
    <2>1. RequestsTyped'
      BY RequestsAfter
    <2> QED
      BY <2>1 DEF RequestsTyped
  <1>2. ASSUME NEW j \in DOMAIN requests',
               requests[k].kind # "deleteCalendar" \/ k < Moved(k, j)
        PROVE  Leaving(j)' = Leaving(Moved(k, j))
    <2>1. ASSUME NEW n \in Leaving(j)'
          PROVE  n \in Leaving(Moved(k, j))
      <3>1. PICK l \in DOMAIN requests' : /\ j < l /\ n \in Names
                                          /\ requests'[l].kind = "deleteCalendar"
                                          /\ requests'[l].name = n
        BY DEF Leaving, After
      <3>2. Moved(k, l) \in DOMAIN requests /\ Moved(k, j) < Moved(k, l)
            /\ requests'[l] = requests[Moved(k, l)]
        BY <3>1, RequestsAfter
      <3> QED
        BY <3>1, <3>2 DEF Leaving, After
    <2>2. ASSUME NEW n \in Leaving(Moved(k, j))
          PROVE  n \in Leaving(j)'
      <3>1. PICK h \in DOMAIN requests : /\ Moved(k, j) < h /\ n \in Names
                                         /\ requests[h].kind = "deleteCalendar"
                                         /\ requests[h].name = n
        BY DEF Leaving, After
      <3>2. h # k
        BY <1>1, <1>2, <3>1, RequestsAfter
      <3>3. PICK l \in DOMAIN requests' : h = Moved(k, l)
        BY <3>2, RequestsAfter
      <3>4. j < l /\ requests'[l] = requests[h]
        BY <3>1, <3>3, RequestsAfter
      <3> QED
        BY <3>1, <3>4 DEF Leaving, After
    <2> QED
      BY <2>1, <2>2
  <1>3. ASSUME NEW n \in Leaving(0)'
        PROVE  n \in Leaving(0)
    <2>1. PICK l \in DOMAIN requests' : /\ n \in Names
                                        /\ requests'[l].kind = "deleteCalendar"
                                        /\ requests'[l].name = n
      BY DEF Leaving, After
    <2>2. Moved(k, l) \in DOMAIN requests /\ 0 < Moved(k, l)
          /\ requests'[l] = requests[Moved(k, l)]
      BY <1>1, <2>1, RequestsAfter
    <2> QED
      BY <2>1, <2>2 DEF Leaving, After
  <1>4. ASSUME NEW n \in Leaving(0)
        PROVE  n \in Leaving(0)' \/ (requests[k].kind = "deleteCalendar" /\ n = requests[k].name)
    <2>1. PICK h \in DOMAIN requests : /\ n \in Names
                                       /\ requests[h].kind = "deleteCalendar"
                                       /\ requests[h].name = n
      BY DEF Leaving, After
    <2>2. CASE h = k
      BY <2>1, <2>2
    <2>3. CASE h # k
      <3>1. PICK l \in DOMAIN requests' : h = Moved(k, l)
        BY <2>3, RequestsAfter
      <3>2. 0 < l /\ requests'[l] = requests[h]
        BY <1>1, <3>1, RequestsAfter
      <3> QED
        BY <2>1, <3>2 DEF Leaving, After
    <2> QED
      BY <2>2, <2>3
  <1>5. requests[k].kind = "deleteCalendar" => requests[k].name \in Leaving(0)
    <2>1. requests[k].kind = "deleteCalendar" => requests[k].name \in Names
      BY RequestTyped DEF RequestsTyped
    <2> QED
      BY <1>1, <2>1 DEF Leaving, After
  <1> QED
    BY <1>2, <1>3, <1>4, <1>5

\* Which requests are the last of a meeting when the k-th has been answered in its turn.
LEMMA LastOfMeetingAfter ==
    ASSUME RequestsTyped,
           NEW k \in DOMAIN requests, ~Overtakes(k), requests' = RemoveAt(requests, k),
           NEW m \in Created
    PROVE  /\ \A j \in DOMAIN requests' : LastOfMeeting(j, m)' => LastOfMeeting(Moved(k, j), m)
           /\ (\A j \in DOMAIN requests' : ~OfMeeting(requests'[j], m)) =>
                 \/ LastOfMeeting(k, m)
                 \/ \A i \in DOMAIN requests : ~OfMeeting(requests[i], m)
  <1>1. ASSUME NEW j \in DOMAIN requests', LastOfMeeting(j, m)'
        PROVE  LastOfMeeting(Moved(k, j), m)
    <2> DEFINE i == Moved(k, j)
    <2>1. i \in DOMAIN requests /\ requests'[j] = requests[i] /\ i # k
      BY RequestsAfter
    <2> HIDE DEF i
    <2>2. OfMeeting(requests[i], m)
      BY <1>1, <2>1 DEF LastOfMeeting, OfMeeting
    <2>3. ASSUME NEW l \in DOMAIN requests, i < l
          PROVE  ~OfMeeting(requests[l], m)
      <3>1. CASE l = k
        BY <2>1, <2>2, <2>3, <3>1, Conflicts
      <3>2. CASE l # k
        <4>1. PICK h \in DOMAIN requests' : l = Moved(k, h)
          BY <3>2, RequestsAfter
        <4>2. j < h
          BY <2>3, <4>1, RequestsAfter DEF i
        <4>3. requests'[h] = requests[l]
          BY <4>1, RequestsAfter
        <4>4. ~OfMeeting(requests'[h], m)
          BY <1>1, <4>2 DEF LastOfMeeting, After, OfMeeting
        <4> QED
          BY <4>3, <4>4 DEF OfMeeting
      <3> QED
        BY <3>1, <3>2
    <2> QED
      BY <2>2, <2>3 DEF LastOfMeeting, After, i
  <1>2. ASSUME \A j \in DOMAIN requests' : ~OfMeeting(requests'[j], m),
               ~LastOfMeeting(k, m), NEW i \in DOMAIN requests
        PROVE  ~OfMeeting(requests[i], m)
    <2>1. ASSUME NEW h \in DOMAIN requests, h # k
          PROVE  ~OfMeeting(requests[h], m)
      <3>1. PICK j \in DOMAIN requests' : h = Moved(k, j)
        BY <2>1, RequestsAfter
      <3> QED
        BY <1>2, <3>1, RequestsAfter DEF OfMeeting
    <2>2. ~OfMeeting(requests[k], m)
      <3>1. k \in Nat
        BY DEF RequestsTyped
      <3> QED
        BY <1>2, <2>1, <3>1 DEF LastOfMeeting, After
    <2> QED
      BY <2>1, <2>2
  <1> QED
    BY <1>1, <1>2

\* Participants may leave one after the other, and somebody is left.
LEMMA WithoutSome ==
    ASSUME NEW meeting \in {Absent} \cup SUBSET Names, NEW gone
    PROVE  /\ Without(meeting, {}) = meeting
           /\ meeting # {} => Without(meeting, gone) # {}
           /\ Without(meeting, gone) \in {Absent} \cup SUBSET Names
  BY AbsentAssumption DEF Without

LEMMA WithoutOne ==
    ASSUME NEW meeting \in {Absent} \cup SUBSET Names, NEW n
    PROVE  Without(meeting, {n}) = IF meeting \in {Absent, {n}} THEN Absent ELSE meeting \ {n}
  BY AbsentAssumption DEF Without

LEMMA WithoutMore ==
    ASSUME NEW meeting \in {Absent} \cup SUBSET Names, NEW gone, NEW more
    PROVE  Without(Without(meeting, gone), more) = Without(meeting, gone \cup more)
  <1>1. CASE meeting \in {Absent, {}}
    BY <1>1, AbsentAssumption DEF Without
  <1>2. CASE meeting \notin {Absent, {}} /\ meeting \subseteq gone \cup more
    <2>1. meeting \ gone \subseteq more /\ meeting \in SUBSET Names
      BY <1>2
    <2>2. CASE meeting \subseteq gone
      BY <1>2, <2>2 DEF Without
    <2>3. CASE ~(meeting \subseteq gone)
      <3>1. meeting \ gone # {} /\ meeting \ gone # Absent
        BY <2>1, <2>3, AbsentAssumption
      <3> QED
        BY <1>2, <2>1, <2>3, <3>1 DEF Without
    <2> QED
      BY <2>2, <2>3
  <1>3. CASE meeting \notin {Absent, {}} /\ ~(meeting \subseteq gone \cup more)
    <2>1. meeting \in SUBSET Names
      BY <1>3
    <2>2. /\ ~(meeting \subseteq gone) /\ ~(meeting \ gone \subseteq more)
          /\ (meeting \ gone) \ more = meeting \ (gone \cup more)
          /\ meeting \ gone \in SUBSET Names
      BY <1>3, <2>1
    <2>3. meeting \ gone # Absent
      BY <2>2, AbsentAssumption
    <2> QED
      BY <1>3, <2>2, <2>3 DEF Without
  <1> QED
    BY <1>1, <1>2, <1>3

\* Answering a request of a single call in its turn makes the meetings arrive.
LEMMA MeetingsAfterCall ==
    ASSUME RequestsTyped, MeetingsArrive, UNCHANGED pageMeetings,
           NEW k \in DOMAIN requests, ~Overtakes(k), requests' = RemoveAt(requests, k),
           requests[k].kind # "deleteCalendar", Makes(requests[k]) # {},
           \A m \in Created : meetings'[m] = IF OfMeeting(requests[k], m) THEN Makes(requests[k])
                                             ELSE meetings[m]
    PROVE  MeetingsArrive'
  <1> SUFFICES ASSUME NEW m \in Created
               PROVE  /\ meetings'[m] # {}
                      /\ \A j \in DOMAIN requests' : LastOfMeeting(j, m)' =>
                            pageMeetings[m] = Without(Makes(requests'[j]), Leaving(j)')
                      /\ (\A j \in DOMAIN requests' : ~OfMeeting(requests'[j], m)) =>
                            pageMeetings[m] = Without(meetings'[m], Leaving(0)')
    BY DEF MeetingsArrive, OfMeeting, Makes, Without
  <1>1. /\ meetings[m] # {}
        /\ \A i \in DOMAIN requests : LastOfMeeting(i, m) =>
              pageMeetings[m] = Without(Makes(requests[i]), Leaving(i))
        /\ (\A i \in DOMAIN requests : ~OfMeeting(requests[i], m)) =>
              pageMeetings[m] = Without(meetings[m], Leaving(0))
    BY DEF MeetingsArrive
  <1>2. meetings'[m] # {}
    BY <1>1
  <1>3. ASSUME NEW j \in DOMAIN requests', LastOfMeeting(j, m)'
        PROVE  pageMeetings[m] = Without(Makes(requests'[j]), Leaving(j)')
    <2>1. /\ Moved(k, j) \in DOMAIN requests
          /\ requests'[j] = requests[Moved(k, j)]
          /\ LastOfMeeting(Moved(k, j), m)
      BY <1>3, RequestsAfter, LastOfMeetingAfter
    <2>2. Leaving(j)' = Leaving(Moved(k, j))
      BY LeavingAfter
    <2> QED
      BY <1>1, <2>1, <2>2
  <1>4. ASSUME \A j \in DOMAIN requests' : ~OfMeeting(requests'[j], m)
        PROVE  pageMeetings[m] = Without(meetings'[m], Leaving(0)')
    <2>1. Leaving(0)' = Leaving(0)
      BY LeavingAfter
    <2>2. CASE LastOfMeeting(k, m)
      <3>1. OfMeeting(requests[k], m)
        BY <2>2 DEF LastOfMeeting
      <3>2. Leaving(0) = Leaving(k)
        <4>1. ASSUME NEW l \in DOMAIN requests, requests[l].kind = "deleteCalendar"
              PROVE  0 < l /\ k < l
          <5>1. l \in Nat \ {0} /\ k \in Nat /\ l # k
            BY <4>1 DEF RequestsTyped
          <5>2. ~(l < k)
            BY <3>1, <4>1, Conflicts
          <5> QED
            BY <5>1, <5>2
        <4> QED
          BY <4>1 DEF Leaving, After
      <3> QED
        BY <1>1, <2>1, <2>2, <3>1, <3>2
    <2>3. CASE \A i \in DOMAIN requests : ~OfMeeting(requests[i], m)
      BY <1>1, <2>1, <2>3
    <2> QED
      BY <1>4, <2>2, <2>3, LastOfMeetingAfter
  <1> QED
    BY <1>2, <1>3, <1>4

\* A deletion in its turn makes the meetings arrive.
LEMMA MeetingsAfterDelete ==
    ASSUME RequestsTyped, MeetingsArrive, UNCHANGED pageMeetings,
           meetings \in [Created -> {Absent} \cup SUBSET Names],
           NEW k \in DOMAIN requests, ~Overtakes(k), requests' = RemoveAt(requests, k),
           requests[k].kind = "deleteCalendar", meetings' = MeetingsWithout(requests[k].name)
    PROVE  MeetingsArrive'
  <1> SUFFICES ASSUME NEW m \in Created
               PROVE  /\ meetings'[m] # {}
                      /\ \A j \in DOMAIN requests' : LastOfMeeting(j, m)' =>
                            pageMeetings[m] = Without(Makes(requests'[j]), Leaving(j)')
                      /\ (\A j \in DOMAIN requests' : ~OfMeeting(requests'[j], m)) =>
                            pageMeetings[m] = Without(meetings'[m], Leaving(0)')
    BY DEF MeetingsArrive, OfMeeting, Makes, Without
  <1> DEFINE n == requests[k].name
  <1>0. meetings[m] \in {Absent} \cup SUBSET Names
    OBVIOUS
  <1>1. /\ meetings[m] # {}
        /\ \A i \in DOMAIN requests : LastOfMeeting(i, m) =>
              pageMeetings[m] = Without(Makes(requests[i]), Leaving(i))
        /\ (\A i \in DOMAIN requests : ~OfMeeting(requests[i], m)) =>
              pageMeetings[m] = Without(meetings[m], Leaving(0))
    BY DEF MeetingsArrive
  <1>2. meetings'[m] = Without(meetings[m], {n}) /\ meetings'[m] # {}
    <2>1. meetings'[m] = IF meetings[m] \in {Absent, {n}} THEN Absent ELSE meetings[m] \ {n}
      BY DEF MeetingsWithout
    <2>2. Without(meetings[m], {n}) =
             IF meetings[m] \in {Absent, {n}} THEN Absent ELSE meetings[m] \ {n}
      BY <1>0, <1>1, WithoutOne
    <2>3. Without(meetings[m], {n}) # {}
      BY <1>0, <1>1, WithoutSome
    <2> QED
      BY <2>1, <2>2, <2>3
  <1>3. ASSUME NEW j \in DOMAIN requests', LastOfMeeting(j, m)'
        PROVE  pageMeetings[m] = Without(Makes(requests'[j]), Leaving(j)')
    <2> DEFINE i == Moved(k, j)
    <2>1. /\ i \in DOMAIN requests /\ i # k
          /\ requests'[j] = requests[i]
          /\ LastOfMeeting(i, m)
      BY <1>3, RequestsAfter, LastOfMeetingAfter
    <2>2. k < i
      <3>1. i \in Nat /\ k \in Nat
        BY <2>1 DEF RequestsTyped
      <3>2. ~(i < k)
        BY <2>1, Conflicts DEF LastOfMeeting
      <3> QED
        BY <2>1, <3>1, <3>2
    <2>3. Leaving(j)' = Leaving(i)
      BY <2>2, LeavingAfter
    <2> QED
      BY <1>1, <2>1, <2>3
  <1>4. ASSUME \A j \in DOMAIN requests' : ~OfMeeting(requests'[j], m)
        PROVE  pageMeetings[m] = Without(meetings'[m], Leaving(0)')
    <2>1. \A i \in DOMAIN requests : ~OfMeeting(requests[i], m)
      BY <1>4, LastOfMeetingAfter DEF LastOfMeeting, OfMeeting
    <2>2. Leaving(0) = {n} \cup Leaving(0)'
      BY LeavingAfter
    <2>3. Without(Without(meetings[m], {n}), Leaving(0)') = Without(meetings[m], Leaving(0))
      BY <1>0, <2>2, WithoutMore
    <2> QED
      BY <1>1, <1>2, <2>1, <2>3
  <1> QED
    BY <1>2, <1>3, <1>4
-----------------------------------------------------------------------------
\* Requests that the page adds leave the calendars on their way, if whoever they
\* are about agrees with them and nobody else comes to disagree.
LEMMA CalendarsAdded ==
    ASSUME RequestsTyped, CalendarsArrive, UNCHANGED calendars,
           NEW added \in Seq(PageRequest), requests' = requests \o added,
           \A n \in Names : \A k \in DOMAIN added :
              OfCalendar(added[k], n) => Agrees(n, Brings(added[k]))',
           \A n \in Names :
              \/ \E k \in DOMAIN added : OfCalendar(added[k], n)
              \/ /\ participants'[n] = Absent <=> participants[n] = Absent
                 /\ n \notin (participantSaveQueue \cup unsaved)' =>
                       \/ participants[n] = Absent
                       \/ /\ participants'[n] = participants[n]
                          /\ n \notin participantSaveQueue \cup unsaved
    PROVE  CalendarsArrive'
  <1> SUFFICES ASSUME NEW n \in Names
               PROVE  /\ \A j \in DOMAIN requests' :
                            LastOfCalendar(j, n)' => Agrees(n, Brings(requests[j]))'
                      /\ (\A j \in DOMAIN requests' : ~OfCalendar(requests'[j], n)) =>
                            Agrees(n, calendars[n])'
    BY DEF CalendarsArrive, OfCalendar
  <1>1. /\ \A i \in DOMAIN requests : LastOfCalendar(i, n) => Agrees(n, Brings(requests[i]))
        /\ (\A i \in DOMAIN requests : ~OfCalendar(requests[i], n)) => Agrees(n, calendars[n])
    BY DEF CalendarsArrive
  <1>2. ASSUME \A k \in DOMAIN added : ~OfCalendar(added[k], n), NEW x, Agrees(n, x)
        PROVE  Agrees(n, x)'
    <2>1. /\ participants'[n] = Absent <=> participants[n] = Absent
          /\ n \notin (participantSaveQueue \cup unsaved)' =>
                \/ participants[n] = Absent
                \/ /\ participants'[n] = participants[n]
                   /\ n \notin participantSaveQueue \cup unsaved
      BY <1>2
    <2> QED
      BY <1>2, <2>1 DEF Agrees
  <1>3. ASSUME NEW j \in DOMAIN requests', LastOfCalendar(j, n)'
        PROVE  Agrees(n, Brings(requests[j]))'
    <2>1. CASE j \in DOMAIN requests
      <3>1. requests'[j] = requests[j] /\ OfCalendar(requests[j], n)
        BY <1>3, <2>1, RequestsAdded DEF LastOfCalendar, OfCalendar
      <3>2. ASSUME NEW i \in DOMAIN requests, j < i
            PROVE  ~OfCalendar(requests[i], n)
        BY <1>3, <3>2, RequestsAdded DEF LastOfCalendar, OfCalendar, After
      <3>3. ASSUME NEW k \in DOMAIN added
            PROVE  ~OfCalendar(added[k], n)
        <4>1. /\ j < Len(requests) + k
              /\ Len(requests) + k \in DOMAIN requests'
              /\ requests'[Len(requests) + k] = added[k]
          BY <2>1, RequestsAdded
        <4>2. ~OfCalendar(requests'[Len(requests) + k], n)
          BY <1>3, <4>1 DEF LastOfCalendar, OfCalendar, After
        <4> QED
          BY <4>1, <4>2
      <3>4. Agrees(n, Brings(requests[j]))
        BY <1>1, <2>1, <3>1, <3>2 DEF LastOfCalendar, After
      <3>5. PICK x : x = Brings(requests[j])
        OBVIOUS
      <3>6. Agrees(n, x)'
        BY <1>2, <3>3, <3>4, <3>5
      <3> QED
        BY <3>1, <3>5, <3>6 DEF Brings, Agrees
    <2>2. CASE j \notin DOMAIN requests
      <3>1. PICK k \in DOMAIN added : j = Len(requests) + k
        BY <2>2, RequestsAdded
      <3>2. requests'[j] = added[k]
        BY <3>1, RequestsAdded
      <3>3. OfCalendar(added[k], n)
        BY <1>3, <3>2 DEF LastOfCalendar, OfCalendar
      <3>4. Agrees(n, Brings(added[k]))'
        BY <3>3
      <3> QED
        BY <3>2, <3>4 DEF Brings, Agrees
    <2> QED
      BY <2>1, <2>2
  <1>4. ASSUME \A j \in DOMAIN requests' : ~OfCalendar(requests'[j], n)
        PROVE  Agrees(n, calendars[n])'
    <2>1. \A i \in DOMAIN requests : ~OfCalendar(requests[i], n)
      BY <1>4, RequestsAdded DEF OfCalendar
    <2>2. \A k \in DOMAIN added : ~OfCalendar(added[k], n)
      BY <1>4, RequestsAdded DEF OfCalendar
    <2>3. PICK x : x = calendars[n]
      OBVIOUS
    <2>4. Agrees(n, x)'
      BY <1>1, <1>2, <2>1, <2>2, <2>3
    <2> QED
      BY <2>3, <2>4 DEF Agrees
  <1> QED
    BY <1>3, <1>4

\* So do they the meetings, if the page takes out whom they delete and makes of
\* a meeting what they make of it.
LEMMA MeetingsAdded ==
    ASSUME RequestsTyped, MeetingsArrive, UNCHANGED meetings,
           meetings \in [Created -> {Absent} \cup SUBSET Names],
           NEW added \in Seq(PageRequest), requests' = requests \o added,
           \A m \in Created : \A k \in DOMAIN added : OfMeeting(added[k], m) =>
              Len(added) = 1 /\ pageMeetings'[m] = Makes(added[k]),
           NEW gone,
           gone = {n \in Names : \E k \in DOMAIN added : 
                                    added[k].kind = "deleteCalendar" /\ added[k].name = n},
           \A m \in Created : \/ \E k \in DOMAIN added : OfMeeting(added[k], m)
                              \/ pageMeetings'[m] = Without(pageMeetings[m], gone)
    PROVE  MeetingsArrive'
  <1> SUFFICES ASSUME NEW m \in Created
               PROVE  /\ meetings[m] # {}
                      /\ \A j \in DOMAIN requests' : LastOfMeeting(j, m)' =>
                            pageMeetings'[m] = Without(Makes(requests'[j]), Leaving(j)')
                      /\ (\A j \in DOMAIN requests' : ~OfMeeting(requests'[j], m)) =>
                            pageMeetings'[m] = Without(meetings[m], Leaving(0)')
    BY DEF MeetingsArrive, OfMeeting, Makes, Without
  <1>1. /\ meetings[m] # {}
        /\ \A i \in DOMAIN requests : LastOfMeeting(i, m) =>
              pageMeetings[m] = Without(Makes(requests[i]), Leaving(i))
        /\ (\A i \in DOMAIN requests : ~OfMeeting(requests[i], m)) =>
              pageMeetings[m] = Without(meetings[m], Leaving(0))
    BY DEF MeetingsArrive
  <1>2. ASSUME NEW i \in DOMAIN requests \cup {0}
        PROVE  Leaving(i)' = Leaving(i) \cup gone
    <2>1. ASSUME NEW n \in Leaving(i)'
          PROVE  n \in Leaving(i) \cup gone
      <3>1. PICK l \in DOMAIN requests' : /\ i < l /\ n \in Names
                                          /\ requests'[l].kind = "deleteCalendar"
                                          /\ requests'[l].name = n
        BY DEF Leaving, After
      <3>2. CASE l \in DOMAIN requests
        BY <3>1, <3>2, RequestsAdded DEF Leaving, After
      <3>3. CASE l \notin DOMAIN requests
        <4>1. PICK k \in DOMAIN added : l = Len(requests) + k
          BY <3>3, RequestsAdded
        <4> QED
          BY <3>1, <4>1, RequestsAdded
      <3> QED
        BY <3>2, <3>3
    <2>2. Leaving(i) \subseteq Leaving(i)'
      BY RequestsAdded DEF Leaving, After
    <2>3. ASSUME NEW n \in gone
          PROVE  n \in Leaving(i)'
      <3>1. PICK k \in DOMAIN added : added[k].kind = "deleteCalendar" /\ added[k].name = n
        BY <2>3
      <3>2. /\ Len(requests) + k \in DOMAIN requests'
            /\ requests'[Len(requests) + k] = added[k]
            /\ i < Len(requests) + k
        BY RequestsAdded
      <3> QED
        BY <3>1, <3>2 DEF Leaving, After
    <2> QED
      BY <2>1, <2>2, <2>3
  <1>3. ASSUME NEW made \in {Absent} \cup SUBSET Names, NEW i \in DOMAIN requests \cup {0},
               pageMeetings[m] = Without(made, Leaving(i)),
               \A k \in DOMAIN added : ~OfMeeting(added[k], m)
        PROVE  pageMeetings'[m] = Without(made, Leaving(i)')
    <2> DEFINE before == Leaving(i)
    <2>1. pageMeetings'[m] = Without(Without(made, before), gone)
      BY <1>3
    <2>2. Leaving(i)' = before \cup gone
      BY <1>2
    <2> HIDE DEF before
    <2>3. Without(Without(made, before), gone) = Without(made, before \cup gone)
      BY WithoutMore
    <2> QED
      BY <2>1, <2>2, <2>3
  <1>4. ASSUME NEW j \in DOMAIN requests', LastOfMeeting(j, m)'
        PROVE  pageMeetings'[m] = Without(Makes(requests'[j]), Leaving(j)')
    <2>1. CASE j \in DOMAIN requests
      <3>1. requests'[j] = requests[j] /\ OfMeeting(requests[j], m)
        BY <1>4, <2>1, RequestsAdded DEF LastOfMeeting, OfMeeting
      <3>2. ASSUME NEW i \in DOMAIN requests, j < i
            PROVE  ~OfMeeting(requests[i], m)
        BY <1>4, <3>2, RequestsAdded DEF LastOfMeeting, OfMeeting, After
      <3>3. ASSUME NEW k \in DOMAIN added
            PROVE  ~OfMeeting(added[k], m)
        <4>1. /\ j < Len(requests) + k
              /\ Len(requests) + k \in DOMAIN requests'
              /\ requests'[Len(requests) + k] = added[k]
          BY <2>1, RequestsAdded
        <4>2. ~OfMeeting(requests'[Len(requests) + k], m)
          BY <1>4, <4>1 DEF LastOfMeeting, OfMeeting, After
        <4> QED
          BY <4>1, <4>2
      <3>4. pageMeetings[m] = Without(Makes(requests[j]), Leaving(j))
        BY <1>1, <2>1, <3>1, <3>2 DEF LastOfMeeting, After
      <3>5. Makes(requests[j]) \in {Absent} \cup SUBSET Names
        <4>1. requests[j].kind = "saveMeeting" => requests[j].participants \subseteq Names
          BY <2>1, RequestTyped DEF RequestsTyped
        <4> QED
          BY <4>1 DEF Makes
      <3> QED
        BY <1>3, <2>1, <3>1, <3>3, <3>4, <3>5
    <2>2. CASE j \notin DOMAIN requests
      <3>1. PICK k \in DOMAIN added : j = Len(requests) + k
        BY <2>2, RequestsAdded
      <3>2. requests'[j] = added[k]
        BY <3>1, RequestsAdded
      <3>3. OfMeeting(added[k], m)
        BY <1>4, <3>2 DEF LastOfMeeting, OfMeeting
      <3>4. Len(added) = 1 /\ pageMeetings'[m] = Makes(added[k])
        BY <3>3
      <3>5. Leaving(j)' = {}
        <4>0. DOMAIN requests' = 1 .. Len(requests) + Len(added) /\ Len(requests) \in Nat
          BY RequestsAdded
        <4>1. DOMAIN requests' = 1 .. Len(requests) + 1 /\ k = 1 /\ Len(requests) \in Nat
          BY <3>4, <4>0
        <4>2. ~ \E l \in DOMAIN requests' : j < l
          BY <3>1, <4>1
        <4> QED
          BY <4>2 DEF Leaving, After
      <3>6. Makes(added[k]) \in {Absent} \cup SUBSET Names
        <4>1. added[k] \in PageRequest
          OBVIOUS
        <4>2. added[k].kind = "saveMeeting" => added[k].participants \subseteq Names
          BY <4>1, RequestTyped
        <4> QED
          BY <4>2 DEF Makes
      <3> QED
        BY <3>2, <3>4, <3>5, <3>6, WithoutSome
    <2> QED
      BY <2>1, <2>2
  <1>5. ASSUME \A j \in DOMAIN requests' : ~OfMeeting(requests'[j], m)
        PROVE  pageMeetings'[m] = Without(meetings[m], Leaving(0)')
    <2>1. \A i \in DOMAIN requests : ~OfMeeting(requests[i], m)
      BY <1>5, RequestsAdded DEF OfMeeting
    <2>2. \A k \in DOMAIN added : ~OfMeeting(added[k], m)
      BY <1>5, RequestsAdded DEF OfMeeting
    <2> QED
      BY <1>1, <1>3, <2>1, <2>2
  <1> QED
    BY <1>1, <1>4, <1>5
-----------------------------------------------------------------------------
\* No table disturbs a deletion that has read nothing.
LEMMA ReadyUndisturbed ==
    ASSUME TablesTypeOK, \A d \in Deletes : deleting[d].stage = "ready" => ~disturbed[d],
           [TablesNext]_tablesVars
    PROVE  \A d \in Deletes : deleting'[d].stage = "ready" => ~disturbed'[d]
  BY DEF TablesTypeOK, Delete, TablesNext, tablesVars, SaveCalendar, SaveMeeting, DeleteMeeting,
         MeetingsChange, GetAffected, DeleteTransaction, AbandonDelete

LEMMA OvertakesAfter ==
    ASSUME RequestsTyped, NEW k \in DOMAIN requests, requests' = RemoveAt(requests, k),
           NEW j \in DOMAIN requests', Overtakes(j)'
    PROVE  Overtakes(Moved(k, j))
  <1>1. PICK l \in 1 .. j - 1 : Footprint(requests'[l]) \cap Footprint(requests'[j]) # {}
    BY DEF Overtakes, Footprint
  <1>2. RequestsTyped'
    BY RequestsAfter
  <1>3. l \in DOMAIN requests' /\ l < j
    BY <1>2 DEF RequestsTyped
  <1>4. /\ Moved(k, l) \in DOMAIN requests /\ Moved(k, j) \in DOMAIN requests
        /\ Moved(k, l) < Moved(k, j)
        /\ requests'[l] = requests[Moved(k, l)] /\ requests'[j] = requests[Moved(k, j)]
    BY <1>3, RequestsAfter
  <1>5. Moved(k, l) \in 1 .. Moved(k, j) - 1
    BY <1>4 DEF RequestsTyped
  <1> QED
    BY <1>1, <1>4, <1>5 DEF Overtakes

\* An answer leaves the deletions up to date that it does not disturb.
LEMMA DeletionsAfter ==
    ASSUME RequestsTyped, DeletionsAreCurrent,
           \A d \in Deletes : deleting'[d].stage = "ready" => ~disturbed'[d],
           NEW k \in DOMAIN requests, requests' = RemoveAt(requests, k),
           ~astray' => ~astray,
           \A i \in DOMAIN requests \ {k} : requests[i].kind = "deleteCalendar" =>
              LET d == requests[i].delete IN
              /\ deleting'[d] = deleting[d]
              /\ ~astray' /\ deleting[d].stage = "read" /\ Created # {} =>
                    disturbed'[d] = disturbed[d]
    PROVE  DeletionsAreCurrent'
  <1>1. ASSUME NEW j \in DOMAIN requests', requests'[j].kind = "deleteCalendar"
        PROVE  LET d == requests'[j].delete IN
               /\ deleting'[d].stage = "read" => deleting'[d].name = requests'[j].name
               /\ ~astray' /\ deleting'[d].stage = "read" =>
                     ~Overtakes(j)' /\ (Created # {} => ~disturbed'[d])
               /\ \A l \in DOMAIN requests' :
                     requests'[l].kind = "deleteCalendar" /\ requests'[l].delete = d => j = l
    <2> DEFINE i == Moved(k, j)
               d == requests[i].delete
    <2>1. i \in DOMAIN requests \ {k} /\ requests'[j] = requests[i]
      BY RequestsAfter
    <2>2. /\ deleting[d].stage = "read" => deleting[d].name = requests[i].name
          /\ ~astray /\ deleting[d].stage = "read" =>
                ~Overtakes(i) /\ (Created # {} => ~disturbed[d])
          /\ \A l \in DOMAIN requests :
                requests[l].kind = "deleteCalendar" /\ requests[l].delete = d => i = l
      BY <1>1, <2>1 DEF DeletionsAreCurrent
    <2>3. /\ deleting'[d] = deleting[d]
          /\ ~astray' /\ deleting[d].stage = "read" /\ Created # {} =>
                disturbed'[d] = disturbed[d]
      BY <1>1, <2>1
    <2>4. Overtakes(j)' => Overtakes(i)
      BY OvertakesAfter
    <2>5. ASSUME NEW l \in DOMAIN requests',
                 requests'[l].kind = "deleteCalendar", requests'[l].delete = d
          PROVE  j = l
      <3>1. Moved(k, l) \in DOMAIN requests /\ requests'[l] = requests[Moved(k, l)]
        BY RequestsAfter
      <3>2. Moved(k, l) = Moved(k, j)
        BY <2>2, <2>5, <3>1
      <3>3. j \in Nat /\ l \in Nat /\ k \in Nat
        <4>1. RequestsTyped'
          BY RequestsAfter
        <4> QED
          BY <4>1 DEF RequestsTyped
      <3> QED
        BY <3>2, <3>3 DEF Moved
    <2> HIDE DEF d, i
    <2>6. requests'[j].delete = d /\ requests'[j].name = requests[i].name
      BY <2>1 DEF d
    <2> QED
      BY <2>2, <2>3, <2>4, <2>5, <2>6
  <1> QED
    BY <1>1 DEF DeletionsAreCurrent

\* So does the page that asks for one more, which has read nothing yet.
LEMMA DeletionsAdded ==
    ASSUME RequestsTyped, DeletionsAreCurrent, UNCHANGED <<deleting, disturbed, astray>>,
           NEW added \in Seq(PageRequest), requests' = requests \o added,
           \A k \in DOMAIN added : added[k].kind = "deleteCalendar" =>
              /\ Len(added) = 1
              /\ deleting[added[k].delete].stage = "ready"
              /\ \A i \in DOMAIN requests :
                    requests[i].kind = "deleteCalendar" => requests[i].delete # added[k].delete
    PROVE  DeletionsAreCurrent'
  <1>1. /\ DOMAIN requests = 1 .. Len(requests) /\ Len(requests) \in Nat
        /\ \A i \in DOMAIN requests : i \in DOMAIN requests' /\ requests'[i] = requests[i]
        /\ DOMAIN requests' = 1 .. Len(requests) + Len(added)
        /\ \A i \in DOMAIN requests' \ DOMAIN requests :
              \E k \in DOMAIN added : i = Len(requests) + k /\ requests'[i] = added[k]
    <2>1. \A i \in DOMAIN requests' \ DOMAIN requests :
             \E k \in DOMAIN added : i = Len(requests) + k
      BY RequestsAdded
    <2> QED
      BY <2>1, RequestsAdded
  <1>2. ASSUME NEW i \in DOMAIN requests, Overtakes(i)'
        PROVE  Overtakes(i)
    <2>1. PICK l \in 1 .. i - 1 : Footprint(requests'[l]) \cap Footprint(requests'[i]) # {}
      BY <1>2 DEF Overtakes, Footprint
    <2>2. l \in DOMAIN requests
      BY <1>1
    <2>3. requests'[l] = requests[l] /\ requests'[i] = requests[i]
      BY <1>1, <2>2
    <2> QED
      BY <2>1, <2>3 DEF Overtakes
  <1>3. ASSUME NEW i \in DOMAIN requests', requests'[i].kind = "deleteCalendar",
               NEW j \in DOMAIN requests', requests'[j].kind = "deleteCalendar",
               requests'[i].delete = requests'[j].delete
        PROVE  i = j
    <2>1. CASE i \in DOMAIN requests /\ j \in DOMAIN requests
      BY <1>1, <1>3, <2>1 DEF DeletionsAreCurrent
    <2>2. CASE i \in DOMAIN requests /\ j \notin DOMAIN requests
      BY <1>1, <1>3, <2>2
    <2>3. CASE i \notin DOMAIN requests /\ j \in DOMAIN requests
      BY <1>1, <1>3, <2>3
    <2>4. CASE i \notin DOMAIN requests /\ j \notin DOMAIN requests
      <3>1. PICK k \in DOMAIN added : i = Len(requests) + k /\ requests'[i] = added[k]
        BY <1>1, <2>4
      <3>2. Len(added) = 1
        BY <1>3, <3>1
      <3> QED
        BY <1>1, <2>4, <3>2
    <2> QED
      BY <2>1, <2>2, <2>3, <2>4
  <1>4. ASSUME NEW i \in DOMAIN requests', requests'[i].kind = "deleteCalendar"
        PROVE  LET d == requests'[i].delete IN
               /\ deleting[d].stage = "read" => deleting[d].name = requests'[i].name
               /\ ~astray /\ deleting[d].stage = "read" =>
                     ~Overtakes(i)' /\ (Created # {} => ~disturbed[d])
    <2>1. CASE i \in DOMAIN requests
      <3>1. requests'[i] = requests[i]
        BY <1>1, <2>1
      <3> QED
        BY <1>2, <1>4, <2>1, <3>1 DEF DeletionsAreCurrent
    <2>2. CASE i \notin DOMAIN requests
      BY <1>1, <1>4, <2>2
    <2> QED
      BY <2>1, <2>2
  <1> QED
    BY <1>3, <1>4 DEF DeletionsAreCurrent
-----------------------------------------------------------------------------
\* Whatever the page and its requests do, to the tables it is one of their steps.
LEMMA TablesStep ==
    ASSUME PageInv, [Next]_vars
    PROVE  [TablesNext]_tablesVars /\ TablesIInv'
  <1>1. [TablesNext]_tablesVars
    <2>1. ASSUME UNCHANGED tablesState
          PROVE  UNCHANGED tablesVars
      BY <2>1 DEF tablesState, tables, tablesVars
    <2>2. ASSUME NEW i \in DOMAIN requests
          PROVE  /\ AnswerCall(i) => TablesNext
                 /\ BeginDelete(i) => TablesNext
                 /\ EndDelete(i) => TablesNext
                 /\ LoseRequest(i) => TablesNext \/ UNCHANGED tablesState
      <3>1. requests[i] \in PageRequest
        BY DEF PageInv, RequestsTyped
      <3> QED
        BY <3>1, RequestTyped
           DEF AnswerCall, AnswerSaveCalendar, AnswerSaveMeeting, AnswerDeleteMeeting,
               BeginDelete, EndDelete, LoseRequest, TablesNext
    <2>3. CASE UNCHANGED vars
      BY <2>3, <2>1 DEF vars
    <2>4. CASE Next
      BY <2>1, <2>2, <2>4
         DEF Next, Reload, ReadCalendars, ReadMeetings, OwnDataLoaded, EarlierDataLoaded,
             InitialDataLoaded, LoseLoad, SelectParticipant, ChangeParticipantName, SelectMeetingParticipant,
             SaveMsg, UnsavedMsg, ChangeCalendar, SaveParticipantQueue, SubmitNewParticipant,
             DeleteParticipant, CreateMeeting, PageDeleteMeeting
    <2> QED
      BY <2>3, <2>4
  <1>2. TablesIInv'
    BY <1>1, TablesNextTypeOK, NextReading, NextRemain DEF PageInv, TablesIInv
  <1> QED
    BY <1>1, <1>2

LEMMA MeetingsStay ==
    ASSUME MeetingsArrive, UNCHANGED <<requests, meetings, pageMeetings>>
    PROVE  MeetingsArrive'
  <1> SUFFICES ASSUME NEW m \in Created
               PROVE  /\ meetings[m] # {}
                      /\ \A i \in DOMAIN requests : LastOfMeeting(i, m)' =>
                            pageMeetings[m] = Without(Makes(requests[i]), Leaving(i)')
                      /\ (\A i \in DOMAIN requests : ~OfMeeting(requests[i], m)) =>
                            pageMeetings[m] = Without(meetings[m], Leaving(0)')
    BY DEF MeetingsArrive, OfMeeting, Makes, Without
  <1>1. ASSUME NEW i
        PROVE  Leaving(i)' = Leaving(i)
    BY DEF Leaving, After
  <1>2. ASSUME NEW i \in DOMAIN requests, LastOfMeeting(i, m)'
        PROVE  LastOfMeeting(i, m)
    BY <1>2 DEF LastOfMeeting, After, OfMeeting
  <1> QED
    BY <1>1, <1>2 DEF MeetingsArrive

\* A page that has been loaded or used is neither hidden nor loaded by its own load.
LEMMA UsedPage ==
    ASSUME PageInv, UNCHANGED <<loaded, initialLoad>>, muddled => muddled', loaded \/ muddled'
    PROVE  CoverHides' /\ LoadedOnce'
  <1>1. CoverHides'
    BY Zenon DEF CoverHides
  <1>2. LoadedOnce'
    BY Zenon DEF LoadedOnce, PageInv
  <1> QED
    BY <1>1, <1>2

\* Somebody or something on the page shows that it has been loaded or used.
LEMMA Uncovered ==
    ASSUME PageInv
    PROVE  /\ Present # {} => loaded \/ muddled
           /\ validatedName # Absent => loaded \/ muddled
           /\ (\E m \in Created : pageMeetings[m] # Absent) => loaded \/ muddled
  BY DEF PageInv, CoverHides, NoCalendars, NoMeetings, Present

\* Actions of the page that leave its calendars, its meetings, its queue, the requests
\* and the tables alone.
LEMMA SelectingStep ==
    ASSUME PageInv, Booked' => Booked,
           UNCHANGED <<participants, pageMeetings, participantSaveQueue, timers, unsaved,
                       requests, astray, calendars, meetings, deleting, disturbed>>
    PROVE  /\ TablesTypeOK' /\ RequestsTyped' /\ QueueIsFinite' /\ NoEditStranded'
           /\ TablesIInv' /\ DeletionsAreCurrent'
           /\ Booked' => CalendarsArrive' /\ MeetingsArrive'
  <1> USE DEF PageInv
  <1>1. TablesIInv' /\ TablesTypeOK'
    BY DEF TablesIInv, TablesTypeOK, ReadingIsCurrent, ParticipantsRemain, OnlyOf, SharedBy,
           Participates
  <1>2. RequestsTyped' /\ QueueIsFinite' /\ NoEditStranded'
    BY DEF RequestsTyped, QueueIsFinite, NoEditStranded
  <1>3. DeletionsAreCurrent'
    BY DEF DeletionsAreCurrent, Overtakes
  <1>4. CalendarsArrive => CalendarsArrive'
    BY DEF CalendarsArrive, LastOfCalendar, After, Agrees
  <1>5. MeetingsArrive => MeetingsArrive'
    BY MeetingsStay
  <1> QED
    BY <1>1, <1>2, <1>3, <1>4, <1>5

LEMMA SelectParticipantStep ==
    ASSUME PageInv, NEW n \in Names, SelectParticipant(n)
    PROVE  PageInv'
  <1>1. /\ UNCHANGED <<participants, pageMeetings, participantSaveQueue, timers, unsaved,
                       requests, astray, calendars, meetings, deleting, disturbed>>
        /\ UNCHANGED <<loaded, initialLoad, earlierLoads, muddled>>
    BY DEF SelectParticipant, tablesState, tables, visit
  <1>2. Booked' <=> Booked
    BY <1>1 DEF Booked
  <1>3. TypeOK' /\ NoCalendarOverwritten' /\ MeetingsAreOfParticipants'
    BY <1>1, <1>2, SelectingStep, PageTyped
       DEF PageInv, TypeOK, SelectParticipant, NoCalendarOverwritten, MeetingsAreOfParticipants,
           Present
  <1>4. loaded \/ muddled
    BY Uncovered DEF SelectParticipant
  <1>5. CoverHides' /\ LoadedOnce'
    BY <1>1, <1>4, UsedPage
  <1> QED
    BY <1>1, <1>2, <1>3, <1>5, SelectingStep DEF PageInv

LEMMA ChangeParticipantNameStep ==
    ASSUME PageInv, NEW n \in Names, ChangeParticipantName(n)
    PROVE  PageInv'
  <1>1. /\ UNCHANGED <<participants, pageMeetings, participantSaveQueue, timers, unsaved,
                       requests, astray, calendars, meetings, deleting, disturbed>>
        /\ UNCHANGED <<loaded, initialLoad, earlierLoads>>
        /\ UNCHANGED <<selectedParticipant, participantCalendar, meetingParticipants>>
        /\ validatedName' = IF n \in Present THEN Absent ELSE n
    BY DEF ChangeParticipantName, tablesState, tables, selection
  <1>2. /\ muddled' \in BOOLEAN
        /\ muddled => muddled'
        /\ loaded \/ muddled'
    BY PageTyped DEF PageInv, ChangeParticipantName
  <1>3. Booked' => Booked
    BY <1>1, <1>2, Zenon DEF Booked
  <1>4. TypeOK'
    BY <1>1, <1>2, <1>3, SelectingStep, PageTyped DEF PageInv, TypeOK
  <1>5. NoCalendarOverwritten'
    BY <1>1, <1>2, PageTyped DEF PageInv, NoCalendarOverwritten, Present
  <1>6. MeetingsAreOfParticipants'
    BY <1>1, <1>2, <1>4 DEF PageInv, MeetingsAreOfParticipants, Present
  <1>7. CoverHides' /\ LoadedOnce'
    BY <1>1, <1>2, UsedPage
  <1> QED
    BY <1>1, <1>3, <1>4, <1>5, <1>6, <1>7, SelectingStep DEF PageInv

LEMMA SelectMeetingParticipantStep ==
    ASSUME PageInv, NEW n \in Names, SelectMeetingParticipant(n)
    PROVE  PageInv'
  <1>1. /\ UNCHANGED <<participants, pageMeetings, participantSaveQueue, timers, unsaved,
                       requests, astray, calendars, meetings, deleting, disturbed>>
        /\ UNCHANGED <<loaded, initialLoad, earlierLoads, muddled>>
    BY DEF SelectMeetingParticipant, tablesState, tables, visit
  <1>2. Booked' <=> Booked
    BY <1>1 DEF Booked
  <1>3. TypeOK' /\ NoCalendarOverwritten' /\ MeetingsAreOfParticipants'
    BY <1>1, <1>2, SelectingStep, PageTyped
       DEF PageInv, TypeOK, SelectMeetingParticipant, NoCalendarOverwritten,
           MeetingsAreOfParticipants, Present, selection
  <1>4. loaded \/ muddled
    BY Uncovered DEF SelectMeetingParticipant
  <1>5. CoverHides' /\ LoadedOnce'
    BY <1>1, <1>4, UsedPage
  <1> QED
    BY <1>1, <1>2, <1>3, <1>5, SelectingStep DEF PageInv
-----------------------------------------------------------------------------
\* The tables that a page leaves behind, whose calendars and meetings have arrived, hold
\* no meeting of somebody without a calendar.
LEMMA TablesLeft ==
    ASSUME PageInv, ~astray, ~muddled, requests = <<>>
    PROVE  \A m \in Created : meetings[m] # Absent => \A n \in meetings[m] : calendars[n] # Absent
  <1> USE DEF PageInv
  <1>1. CASE ~loaded
    BY <1>1 DEF CoverHides
  <1>2. CASE loaded
    <2>1. CalendarsArrive /\ MeetingsArrive
      BY <1>2 DEF Booked
    <2>2. DOMAIN requests = {} /\ Leaving(0) = {}
      BY DEF Leaving, After
    <2>3. ASSUME NEW m \in Created, meetings[m] # Absent, NEW n \in meetings[m]
          PROVE  calendars[n] # Absent
      <3>1. meetings[m] \in {Absent} \cup SUBSET Names
        BY PageTyped
      <3>2. pageMeetings[m] = Without(meetings[m], {})
        BY <2>1, <2>2 DEF MeetingsArrive
      <3>3. pageMeetings[m] = meetings[m]
        BY <3>1, <3>2, WithoutSome
      <3>4. n \in Present /\ n \in Names
        BY <2>3, <3>1, <3>3 DEF MeetingsAreOfParticipants
      <3>5. Agrees(n, calendars[n])
        BY <2>1, <2>2, <3>4 DEF CalendarsArrive
      <3> QED
        BY <3>4, <3>5 DEF Agrees, Present
    <2> QED
      BY <2>3
  <1> QED
    BY <1>1, <1>2

\* A page that is loaded anew is blank.
LEMMA ReloadStep ==
    ASSUME PageInv, TablesIInv', Reload
    PROVE  PageInv'
  <1> USE DEF PageInv
  <1>0. UNCHANGED <<requests, calendars, meetings, deleting, disturbed>>
    BY DEF Reload, tablesState, tables
  <1>1. /\ participants' = NoCalendars /\ pageMeetings' = NoMeetings /\ meetingParticipants' = {}
        /\ participantSaveQueue' = {} /\ unsaved' = {} /\ validatedName' = Absent
        /\ selectedParticipant' = Absent /\ participantCalendar' = Free
        /\ loaded' = FALSE /\ muddled' = FALSE
        /\ timers' \in 0 .. timers /\ initialLoad' = RequestInitialLoad
    BY DEF Reload
  <1>2. /\ ~astray' => ~astray /\ ~muddled /\ requests = <<>>
        /\ astray' \in BOOLEAN
    BY PageTyped DEF Reload
  <1>3. TypeOK'
    <2>1. NoCalendars \in [Names -> Blocked \cup {Absent}]
      BY DEF NoCalendars
    <2>2. NoMeetings \in [Created -> {Absent} \cup SUBSET Names]
      BY DEF NoMeetings
    <2>3. initialLoad' \in InitialLoad
      BY <1>1, <2>1, <2>2 DEF InitialLoad, RequestInitialLoad, InitialData
    <2>4. earlierLoads' \in Nat /\ timers' \in Nat
      BY <1>1 DEF Reload, TypeOK
    <2> QED
      BY <1>1, <1>2, <2>1, <2>2, <2>3, <2>4, FreeAssumption DEF TypeOK, TablesIInv
  <1>4. RequestsTyped' /\ QueueIsFinite' /\ NoEditStranded'
    BY <1>0, <1>1, FS_EmptySet DEF RequestsTyped, QueueIsFinite, NoEditStranded
  <1>5. NoCalendarOverwritten'
    BY <1>1, PageTyped DEF NoCalendarOverwritten, Present
  <1>6. DeletionsAreCurrent'
    BY <1>0, <1>2 DEF DeletionsAreCurrent, Overtakes
  <1>7. ~Booked'
    BY <1>1 DEF Booked
  <1>8. MeetingsAreOfParticipants'
    BY <1>1, <1>3 DEF MeetingsAreOfParticipants, NoMeetings
  <1>9. CoverHides'
    <2>1. ~astray' => \A m \in Created : meetings'[m] # Absent =>
                         \A n \in meetings'[m] : calendars'[n] # Absent
      BY <1>0, <1>2, TablesLeft
    <2>2. initialLoad'.read = {}
      BY <1>1 DEF RequestInitialLoad
    <2> QED
      BY <1>0, <1>1, <1>2, <2>1, <2>2 DEF CoverHides, NoCalendars, NoMeetings
  <1>10. LoadedOnce'
    BY <1>1 DEF LoadedOnce
  <1> QED
    BY <1>3, <1>4, <1>5, <1>6, <1>7, <1>8, <1>9, <1>10

\* What only the load under way sees.
LEMMA LoadingStep ==
    ASSUME PageInv, UNCHANGED <<page, loaded, earlierLoads, muddled, requests, astray, tablesState>>,
           initialLoad' \in InitialLoad, CoverHides', LoadedOnce'
    PROVE  PageInv'
  <1>1. /\ UNCHANGED <<participants, pageMeetings, participantSaveQueue, timers, unsaved,
                       requests, astray, calendars, meetings, deleting, disturbed>>
        /\ UNCHANGED <<selectedParticipant, participantCalendar, validatedName,
                       meetingParticipants, loaded, earlierLoads, muddled>>
    BY DEF page, selection, tablesState, tables
  <1>2. Booked' <=> Booked
    BY <1>1 DEF Booked
  <1>3. TypeOK'
    BY <1>1, <1>2, SelectingStep DEF PageInv, TypeOK
  <1>4. NoCalendarOverwritten' /\ MeetingsAreOfParticipants'
    BY <1>1, <1>3 DEF PageInv, NoCalendarOverwritten, MeetingsAreOfParticipants, Present
  <1> QED
    BY <1>1, <1>2, <1>3, <1>4, SelectingStep DEF PageInv

LEMMA ReadStep ==
    ASSUME PageInv, ReadCalendars \/ ReadMeetings
    PROVE  PageInv'
  <1> USE DEF PageInv
  <1>0. initialLoad \in InitialLoad /\ initialLoad.underWay
    BY PageTyped DEF ReadCalendars, ReadMeetings
  <1>1. /\ UNCHANGED <<page, loaded, earlierLoads, muddled, requests, astray, tablesState>>
        /\ UNCHANGED <<participants, pageMeetings, participantSaveQueue, validatedName, requests,
                       calendars, meetings>>
    BY DEF ReadCalendars, ReadMeetings, page, tablesState, tables
  <1>2. CASE ReadCalendars
    <2>1. initialLoad' = [initialLoad EXCEPT !.read = @ \cup {"calendars"},
                                             !.data.calendars = calendars]
      BY <1>2 DEF ReadCalendars
    <2>2. initialLoad' \in InitialLoad
      BY <1>0, <2>1, PageTyped DEF InitialLoad, InitialData
    <2>3. /\ initialLoad'.underWay = initialLoad.underWay
          /\ initialLoad'.data.calendars = calendars
          /\ initialLoad'.data.meetings = initialLoad.data.meetings
          /\ "meetings" \in initialLoad'.read => "meetings" \in initialLoad.read
      BY <1>0, <2>1 DEF InitialLoad, InitialData
    <2>4. CoverHides' /\ LoadedOnce'
      BY <1>0, <1>1, <2>3 DEF CoverHides, LoadedOnce, NoCalendars, NoMeetings
    <2> QED
      BY <1>1, <2>2, <2>4, LoadingStep
  <1>3. CASE ReadMeetings
    <2>1. initialLoad' = [initialLoad EXCEPT !.read = @ \cup {"meetings"},
                                             !.data.meetings = meetings]
      BY <1>3 DEF ReadMeetings
    <2>2. initialLoad' \in InitialLoad
      BY <1>0, <2>1, PageTyped DEF InitialLoad, InitialData
    <2>3. /\ initialLoad'.underWay = initialLoad.underWay
          /\ initialLoad'.data.meetings = meetings
          /\ initialLoad'.data.calendars = initialLoad.data.calendars
          /\ "calendars" \in initialLoad'.read => "calendars" \in initialLoad.read
      BY <1>0, <2>1 DEF InitialLoad, InitialData
    <2>4. CoverHides' /\ LoadedOnce'
      BY <1>0, <1>1, <2>3 DEF CoverHides, LoadedOnce, NoCalendars, NoMeetings
    <2> QED
      BY <1>1, <2>2, <2>4, LoadingStep
  <1> QED
    BY <1>2, <1>3

LEMMA LoadEndedTyped == LoadEnded \in InitialLoad /\ LoadEnded.underWay = FALSE /\ LoadEnded.read = {}
  <1>1. NoCalendars \in [Names -> Blocked \cup {Absent}]
    BY DEF NoCalendars
  <1>2. NoMeetings \in [Created -> {Absent} \cup SUBSET Names]
    BY DEF NoMeetings
  <1> QED
    BY <1>1, <1>2 DEF LoadEnded, RequestInitialLoad, InitialLoad, InitialData

LEMMA LoseLoadStep ==
    ASSUME PageInv, LoseLoad
    PROVE  PageInv'
  <1> USE DEF PageInv
  <1>1. /\ UNCHANGED <<page, loaded, earlierLoads, muddled, requests, astray, tablesState>>
        /\ UNCHANGED <<participants, pageMeetings, participantSaveQueue, validatedName,
                       calendars, meetings>>
        /\ initialLoad' = LoadEnded
    BY DEF LoseLoad, page, tablesState, tables
  <1>2. CoverHides' /\ LoadedOnce'
    BY <1>1, LoadEndedTyped DEF CoverHides, LoadedOnce, NoCalendars, NoMeetings
  <1> QED
    BY <1>1, <1>2, LoadEndedTyped, LoadingStep

\* What an initial load brings is shown.  If it is the page's own, and the page was not
\* used before, it is what the tables hold.
LEMMA InitialDataStep ==
    ASSUME PageInv, TablesIInv', NEW data \in InitialData, InitialDataLoaded(data),
           initialLoad' \in InitialLoad, earlierLoads' \in Nat, muddled' \in BOOLEAN, LoadedOnce',
           ~muddled' => ~muddled /\ ~loaded,
           ~astray /\ ~muddled' => data.calendars = calendars /\ data.meetings = meetings
    PROVE  PageInv'
  <1> USE DEF PageInv
  <1>0. /\ UNCHANGED <<validatedName, meetingParticipants, participantSaveQueue, timers, unsaved,
                       requests, astray, calendars, meetings, deleting, disturbed>>
        /\ participants' = data.calendars /\ pageMeetings' = data.meetings
        /\ loaded' = TRUE
        /\ \A m \in Created : data.meetings[m] # {}
    BY DEF InitialDataLoaded, tablesState, tables
  <1>1. PICK n \in Names \cup {Absent} :
           /\ selectedParticipant' = n
           /\ participantCalendar' = IF n = Absent THEN participantCalendar
                                     ELSE data.calendars[n]
           /\ n # Absent => data.calendars[n] # Absent
    BY DEF InitialDataLoaded, Shows
  <1>2. /\ data.calendars \in [Names -> Blocked \cup {Absent}]
        /\ data.meetings \in [Created -> {Absent} \cup SUBSET Names]
    BY DEF InitialData
  <1>3. TypeOK'
    BY <1>0, <1>1, <1>2, PageTyped DEF TypeOK, TablesIInv
  <1>4. RequestsTyped' /\ QueueIsFinite' /\ NoEditStranded'
    BY <1>0 DEF RequestsTyped, QueueIsFinite, NoEditStranded
  <1>5. DeletionsAreCurrent'
    BY <1>0 DEF DeletionsAreCurrent, Overtakes
  <1>6. ASSUME ~astray, ~muddled'
        PROVE  /\ requests = <<>> /\ validatedName = Absent /\ participantSaveQueue = {}
               /\ participants' = calendars /\ pageMeetings' = meetings
               /\ meetingParticipants = {}
               /\ \A m \in Created : meetings[m] # Absent =>
                     \A o \in meetings[m] : calendars[o] # Absent
    <2>1. ~muddled /\ ~loaded /\ data.calendars = calendars /\ data.meetings = meetings
      BY <1>6
    <2>2. meetingParticipants \subseteq Present /\ Present = {}
      BY <1>6, <2>1 DEF MeetingsAreOfParticipants, CoverHides, NoCalendars, Present
    <2> QED
      BY <1>0, <1>6, <2>1, <2>2 DEF CoverHides
  <1>7. NoCalendarOverwritten'
    <2>1. ASSUME selectedParticipant' # Absent
          PROVE  /\ selectedParticipant' \in Present'
                 /\ participants'[selectedParticipant'] = participantCalendar'
      BY <1>0, <1>1, <2>1 DEF Present
    <2>2. ASSUME ~muddled'
          PROVE  validatedName' \notin Present'
      <3>1. validatedName = Absent
        BY <2>2 DEF CoverHides
      <3> QED
        BY <1>0, <3>1, PageTyped DEF Present
    <2> QED
      BY <2>1, <2>2 DEF NoCalendarOverwritten
  <1>8. MeetingsAreOfParticipants'
    <2>1. ASSUME ~astray', ~muddled'
          PROVE  /\ meetingParticipants' \subseteq Present'
                 /\ \A m \in Created : pageMeetings'[m] # Absent =>
                       pageMeetings'[m] \subseteq Present'
      <3>1. ~astray
        BY <1>0, <2>1
      <3>2. ASSUME NEW m \in Created, pageMeetings'[m] # Absent
            PROVE  pageMeetings'[m] \subseteq Present'
        <4>1. meetings[m] \in SUBSET Names /\ pageMeetings'[m] = meetings[m]
          BY <1>6, <2>1, <3>1, <3>2, PageTyped
        <4> QED
          BY <1>6, <2>1, <3>1, <3>2, <4>1 DEF Present
      <3> QED
        BY <1>0, <1>6, <2>1, <3>1, <3>2
    <2> QED
      BY <1>3, <2>1 DEF MeetingsAreOfParticipants
  <1>9. ASSUME Booked'
        PROVE  CalendarsArrive' /\ MeetingsArrive'
    <2>1. /\ requests' = <<>> /\ DOMAIN requests' = {}
          /\ participants' = calendars' /\ pageMeetings' = meetings'
      BY <1>0, <1>6, <1>9 DEF Booked
    <2>2. CalendarsArrive'
      BY <2>1 DEF CalendarsArrive, Agrees
    <2>3. Leaving(0)' = {}
      BY <2>1 DEF Leaving, After
    <2>4. ASSUME NEW m \in Created
          PROVE  /\ meetings'[m] # {} /\ pageMeetings'[m] = Without(meetings'[m], {})
      <3>1. meetings'[m] = data.meetings[m] /\ meetings'[m] \in {Absent} \cup SUBSET Names
        BY <1>0, <1>2, <2>1
      <3> QED
        BY <1>0, <2>1, <3>1, WithoutSome
    <2>5. MeetingsArrive'
      BY <2>1, <2>3, <2>4 DEF MeetingsArrive, Without
    <2> QED
      BY <2>2, <2>5
  <1>10. CoverHides'
    BY <1>0 DEF CoverHides
  <1> QED
    BY <1>3, <1>4, <1>5, <1>7, <1>8, <1>9, <1>10

LEMMA OwnDataLoadedStep ==
    ASSUME PageInv, TablesIInv', OwnDataLoaded
    PROVE  PageInv'
  <1> USE DEF PageInv
  <1>1. initialLoad \in InitialLoad /\ initialLoad.data \in InitialData
    BY PageTyped DEF InitialLoad
  <1>2. /\ initialLoad.underWay /\ initialLoad.read = {"calendars", "meetings"}
        /\ initialLoad' = LoadEnded /\ UNCHANGED <<earlierLoads, muddled>>
        /\ InitialDataLoaded(initialLoad.data)
    BY DEF OwnDataLoaded
  <1>3. LoadedOnce'
    BY <1>2, LoadEndedTyped DEF LoadedOnce
  <1>4. ~muddled => ~loaded
    BY <1>2, Zenon DEF LoadedOnce
  <1>6. ASSUME ~astray, ~muddled
        PROVE  initialLoad.data.calendars = calendars /\ initialLoad.data.meetings = meetings
    BY <1>2, <1>4, <1>6 DEF CoverHides
  <1>5. PICK data \in InitialData : data = initialLoad.data
    BY <1>1
  <1> QED
    BY <1>2, <1>3, <1>4, <1>5, <1>6, LoadEndedTyped, PageTyped, InitialDataStep

LEMMA EarlierDataLoadedStep ==
    ASSUME PageInv, TablesIInv', NEW data \in EarlierData, EarlierDataLoaded(data)
    PROVE  PageInv'
  <1> USE DEF PageInv
  <1>1. data \in InitialData
    BY EarlierDataAssumption
  <1>2. /\ InitialDataLoaded(data) /\ muddled' = TRUE /\ UNCHANGED initialLoad
        /\ earlierLoads' \in Nat
    BY PageTyped DEF EarlierDataLoaded
  <1>3. LoadedOnce'
    BY <1>2 DEF LoadedOnce
  <1> QED
    BY <1>1, <1>2, <1>3, PageTyped, InitialDataStep
-----------------------------------------------------------------------------
\* Edits, which send nothing.
LEMMA EditStep ==
    ASSUME PageInv, TablesIInv', NEW blocked \in Blocked, ChangeCalendar(blocked),
           participantSaveQueue' \in {participantSaveQueue, Queued},
           unsaved' \in {unsaved \ {selectedParticipant}, unsaved \cup {selectedParticipant}},
           selectedParticipant \in participantSaveQueue' \cup unsaved',
           timers' \in Nat, participantSaveQueue' # {} => timers' > 0
    PROVE  PageInv'
  <1> DEFINE n == selectedParticipant
  <1> USE DEF PageInv
  <1>0. /\ UNCHANGED <<selectedParticipant, validatedName, meetingParticipants, pageMeetings,
                       requests, astray, calendars, meetings, deleting, disturbed>>
        /\ UNCHANGED <<loaded, initialLoad, earlierLoads, muddled>>
        /\ participantCalendar' = blocked
    BY DEF ChangeCalendar, tablesState, tables, visit
  <1>1. n \in Names /\ n # Absent /\ participants[n] # Absent /\ blocked # Absent
    BY PageTyped DEF ChangeCalendar, NoCalendarOverwritten, Present, TypeOK
  <1>2. participants' = [participants EXCEPT ![n] = blocked]
    BY <1>1 DEF ChangeCalendar
  <1>3. TypeOK'
    BY <1>0, <1>1, <1>2, PageTyped DEF TypeOK, TablesIInv, Queued
  <1>4. RequestsTyped' /\ NoEditStranded'
    BY <1>0 DEF RequestsTyped, NoEditStranded
  <1>5. QueueIsFinite'
    BY FS_AddElement DEF QueueIsFinite, Queued
  <1>6. \A o \in Names : participants'[o] = IF o = n THEN blocked ELSE participants[o]
    BY <1>2, PageTyped
  <1>7. Present' = Present
    BY <1>1, <1>6 DEF Present
  <1>8. NoCalendarOverwritten'
    BY <1>0, <1>1, <1>6, <1>7 DEF NoCalendarOverwritten
  <1>9. MeetingsAreOfParticipants'
    BY <1>0, <1>3, <1>7 DEF MeetingsAreOfParticipants
  <1>10. DeletionsAreCurrent'
    BY <1>0 DEF DeletionsAreCurrent, Overtakes
  <1>11. ASSUME NEW o \in Names, NEW x, Agrees(o, x)
         PROVE  Agrees(o, x)'
    BY <1>1, <1>6, <1>11 DEF Agrees, Queued
  <1>12. ASSUME CalendarsArrive
         PROVE  CalendarsArrive'
    <2>1. ASSUME NEW i, NEW o
          PROVE  LastOfCalendar(i, o)' <=> LastOfCalendar(i, o)
      BY <1>0 DEF LastOfCalendar, After, OfCalendar
    <2>2. ASSUME NEW o \in Names, NEW i \in DOMAIN requests, LastOfCalendar(i, o)
          PROVE  Agrees(o, Brings(requests[i]))'
      <3>1. PICK x : x = Brings(requests[i])
        OBVIOUS
      <3>2. Agrees(o, x)'
        BY <1>11, <1>12, <2>2, <3>1 DEF CalendarsArrive
      <3> QED
        BY <1>0, <3>1, <3>2 DEF Agrees, Brings
    <2>3. ASSUME NEW o \in Names, \A i \in DOMAIN requests : ~OfCalendar(requests[i], o)
          PROVE  Agrees(o, calendars[o])'
      <3>1. PICK x : x = calendars[o]
        OBVIOUS
      <3>2. Agrees(o, x)'
        BY <1>11, <1>12, <2>3, <3>1 DEF CalendarsArrive
      <3> QED
        BY <1>0, <3>1, <3>2 DEF Agrees
    <2> QED
      BY <1>0, <2>1, <2>2, <2>3 DEF CalendarsArrive, OfCalendar
  <1>13. ASSUME MeetingsArrive
         PROVE  MeetingsArrive'
    BY <1>0, <1>13, MeetingsStay
  <1>14. CoverHides' /\ LoadedOnce'
    <2>1. loaded \/ muddled
      BY <1>1, Uncovered DEF Present
    <2> QED
      BY <1>0, <2>1, UsedPage
  <1>15. Booked' <=> Booked
    BY <1>0 DEF Booked
  <1> QED
    BY <1>3, <1>4, <1>5, <1>8, <1>9, <1>10, <1>12, <1>13, <1>14, <1>15

LEMMA SaveMsgStep ==
    ASSUME PageInv, TablesIInv', NEW blocked \in Blocked, SaveMsg(blocked)
    PROVE  PageInv'
  <1>1. timers \in Nat /\ (participantSaveQueue # {} => timers > 0)
    BY DEF PageInv, TypeOK, NoEditStranded
  <1>2. timers' \in Nat /\ timers' > 0
    BY <1>1 DEF SaveMsg, StartsTimer
  <1> QED
    BY <1>2, EditStep DEF SaveMsg, Queued

LEMMA UnsavedMsgStep ==
    ASSUME PageInv, TablesIInv', NEW blocked \in Blocked, UnsavedMsg(blocked)
    PROVE  PageInv'
  <1>1. timers \in Nat /\ (participantSaveQueue # {} => timers > 0)
    BY DEF PageInv, TypeOK, NoEditStranded
  <1> QED
    BY <1>1, EditStep DEF UnsavedMsg
-----------------------------------------------------------------------------
\* One request more.
LEMMA SendsOne ==
    ASSUME RequestsTyped, NEW r \in PageRequest, requests' = Append(requests, r)
    PROVE  \E added \in Seq(PageRequest) :
              /\ requests' = requests \o added
              /\ Len(added) = 1 /\ DOMAIN added = {1} /\ added[1] = r
  <1>1. /\ <<r>> \in Seq(PageRequest) /\ Len(<<r>>) = 1 /\ DOMAIN <<r>> = {1} /\ <<r>>[1] = r
    OBVIOUS
  <1>2. Append(requests, r) = requests \o <<r>>
    BY AppendIsConcat DEF RequestsTyped
  <1> QED
    BY <1>1, <1>2

\* The queue is sent, without those who are gone.
LEMMA SendsQueue ==
    ASSUME PageInv, SaveParticipantQueue
    PROVE  \E added \in Seq(PageRequest) :
              /\ requests' = requests \o added
              /\ \A k \in DOMAIN added :
                    /\ added[k].kind = "saveCalendar" /\ added[k].name \in Names
                    /\ added[k].name \in participantSaveQueue
                    /\ added[k].blocked = participants[added[k].name]
              /\ \A n \in participantSaveQueue : participants[n] # Absent =>
                    \E k \in DOMAIN added : OfCalendar(added[k], n)
  <1> USE DEF PageInv
  <1> DEFINE queued == {n \in participantSaveQueue : participants[n] # Absent}
             Save(n) == [kind |-> "saveCalendar", name |-> n, blocked |-> participants[n]]
             saves == {Save(n) : n \in queued}
  <1>1. UNCHANGED participants
    BY DEF SaveParticipantQueue
  <1>2. PICK order \in SetToSeqs(saves) : requests' = requests \o order
    BY <1>1 DEF SaveParticipantQueue, SaveRequest
  <1>3. /\ queued \subseteq Names /\ queued \subseteq participantSaveQueue
        /\ \A n \in queued : participants[n] \in Blocked
    BY PageTyped
  <1>4. saves \subseteq PageRequest
    BY <1>3 DEF PageRequest, Saves
  <1>5. IsFiniteSet(queued)
    BY FS_Subset DEF QueueIsFinite
  <1>6. IsFiniteSet(saves)
    <2>1. [n \in queued |-> Save(n)] \in Surjection(queued, saves)
      BY DEF Surjection
    <2> QED
      BY <1>5, <2>1, FS_Surjection
  <1> HIDE DEF queued
  <1>7. order \in Seq(saves) /\ \A x \in saves : \E k \in DOMAIN order : order[k] = x
    <2>1. PICK all : all = saves
      OBVIOUS
    <2>2. order \in SetToSeqs(all) /\ IsFiniteSet(all)
      BY <1>2, <1>6, <2>1
    <2>3. order \in Seq(all) /\ \A x \in all : \E k \in DOMAIN order : order[k] = x
      BY <2>2, OrderHasAll
    <2> QED
      BY <2>1, <2>3
  <1>8. \A k \in DOMAIN order : order[k] \in saves
    BY <1>7
  <1>9. order \in Seq(PageRequest)
    BY <1>4, <1>7
  <1>10. ASSUME NEW k \in DOMAIN order
         PROVE  /\ order[k].kind = "saveCalendar" /\ order[k].name \in Names
                /\ order[k].name \in participantSaveQueue
                /\ order[k].blocked = participants[order[k].name]
    BY <1>3, <1>8
  <1>11. ASSUME NEW n \in participantSaveQueue, participants[n] # Absent
         PROVE  \E k \in DOMAIN order : OfCalendar(order[k], n)
    <2>1. Save(n) \in saves
      BY <1>11 DEF queued
    <2>2. PICK k \in DOMAIN order : order[k] = Save(n)
      BY <1>7, <2>1
    <2> QED
      BY <2>2 DEF OfCalendar
  <1> QED
    BY <1>2, <1>9, <1>10, <1>11

LEMMA SaveParticipantQueueStep ==
    ASSUME PageInv, TablesIInv', SaveParticipantQueue
    PROVE  PageInv'
  <1> USE DEF PageInv
  <1>0. /\ UNCHANGED <<participants, selectedParticipant, participantCalendar, validatedName,
                       meetingParticipants, pageMeetings, astray, calendars, meetings, deleting,
                       disturbed>>
        /\ participantSaveQueue' = {} /\ unsaved' = unsaved \ participantSaveQueue
        /\ timers > 0 /\ timers' = timers - 1
        /\ UNCHANGED <<loaded, initialLoad, earlierLoads, muddled>>
    BY DEF SaveParticipantQueue, QueueAfterSave, selection, tablesState, tables, visit
  <1>1. PICK added \in Seq(PageRequest) :
           /\ requests' = requests \o added
           /\ \A k \in DOMAIN added :
                 /\ added[k].kind = "saveCalendar" /\ added[k].name \in Names
                 /\ added[k].name \in participantSaveQueue
                 /\ added[k].blocked = participants[added[k].name]
           /\ \A n \in participantSaveQueue : participants[n] # Absent =>
                 \E k \in DOMAIN added : OfCalendar(added[k], n)
    BY SendsQueue
  <1>2. TypeOK'
    BY <1>0, PageTyped DEF TypeOK, TablesIInv
  <1>3. RequestsTyped' /\ QueueIsFinite' /\ NoEditStranded'
    BY <1>0, <1>1, RequestsAdded, FS_EmptySet DEF QueueIsFinite, NoEditStranded
  <1>4. NoCalendarOverwritten' /\ MeetingsAreOfParticipants'
    BY <1>0, <1>2 DEF NoCalendarOverwritten, MeetingsAreOfParticipants, Present
  <1>5. DeletionsAreCurrent'
    BY <1>0, <1>1, DeletionsAdded
  <1>6. ASSUME CalendarsArrive
        PROVE  CalendarsArrive'
    <2>1. ASSUME NEW n \in Names, NEW k \in DOMAIN added, OfCalendar(added[k], n)
          PROVE  Agrees(n, Brings(added[k]))'
      BY <1>0, <1>1, <2>1 DEF Agrees, Brings, OfCalendar
    <2>2. ASSUME NEW n \in Names, ~ \E k \in DOMAIN added : OfCalendar(added[k], n)
          PROVE  /\ participants'[n] = Absent <=> participants[n] = Absent
                 /\ n \notin (participantSaveQueue \cup unsaved)' =>
                       \/ participants[n] = Absent
                       \/ /\ participants'[n] = participants[n]
                          /\ n \notin participantSaveQueue \cup unsaved
      BY <1>0, <1>1, <2>2
    <2> QED
      BY <1>0, <1>1, <1>6, <2>1, <2>2, CalendarsAdded
  <1>7. ASSUME MeetingsArrive
        PROVE  MeetingsArrive'
    <2>1. {n \in Names : \E k \in DOMAIN added :
              added[k].kind = "deleteCalendar" /\ added[k].name = n} = {}
      BY <1>1
    <2>2. \A m \in Created : \A k \in DOMAIN added : ~OfMeeting(added[k], m)
      BY <1>1 DEF OfMeeting
    <2>3. \A m \in Created : pageMeetings'[m] = Without(pageMeetings[m], {})
      BY <1>0, PageTyped, WithoutSome
    <2>4. RequestsTyped /\ UNCHANGED meetings /\ meetings \in [Created -> {Absent} \cup SUBSET Names]
      BY <1>0, PageTyped
    <2>5. PICK gone : gone = {n \in Names : \E k \in DOMAIN added :
                                added[k].kind = "deleteCalendar" /\ added[k].name = n}
      OBVIOUS
    <2>6. \A m \in Created : pageMeetings'[m] = Without(pageMeetings[m], gone)
      BY <2>1, <2>3, <2>5
    <2> QED
      BY <1>1, <1>7, <2>2, <2>4, <2>5, <2>6, MeetingsAdded
  <1>8. CoverHides' /\ LoadedOnce'
    <2>1. CASE loaded \/ muddled
      BY <1>0, <2>1, UsedPage
    <2>2. CASE ~loaded /\ ~muddled
      <3>1. participantSaveQueue = {} /\ (~astray => requests = <<>>)
        BY <2>2 DEF CoverHides
      <3>2. DOMAIN added = {}
        BY <1>1, <3>1
      <3>3. ~astray => requests' = <<>>
        BY <1>1, <3>1, <3>2
      <3>4. CoverHides'
        BY <1>0, <2>2, <3>1, <3>3 DEF CoverHides, NoCalendars, NoMeetings
      <3>5. LoadedOnce'
        BY <1>0, <2>2 DEF LoadedOnce
      <3> QED
        BY <3>4, <3>5
    <2> QED
      BY <2>1, <2>2, PageTyped
  <1>9. Booked' <=> Booked
    BY <1>0 DEF Booked
  <1> QED
    BY <1>2, <1>3, <1>4, <1>5, <1>6, <1>7, <1>8, <1>9

LEMMA SubmitNewParticipantStep ==
    ASSUME PageInv, TablesIInv', SubmitNewParticipant
    PROVE  PageInv'
  <1> USE DEF PageInv
  <1> DEFINE n == validatedName
  <1>0. /\ UNCHANGED <<selectedParticipant, participantCalendar, meetingParticipants,
                       pageMeetings, participantSaveQueue, timers, astray, calendars, meetings,
                       deleting, disturbed>>
        /\ n \in Names /\ n # Absent
        /\ validatedName' = Absent /\ unsaved' = unsaved \ {n}
        /\ UNCHANGED <<loaded, initialLoad, earlierLoads, muddled>>
    BY DEF SubmitNewParticipant, NameAfterSubmit, selection, tablesState, tables, visit, TypeOK
  <1>1. /\ \A o \in Names : participants'[o] = IF o = n THEN Free ELSE participants[o]
        /\ participants' \in [Names -> Blocked \cup {Absent}]
    BY <1>0, PageTyped, FreeAssumption DEF SubmitNewParticipant
  <1>2. /\ participants'[n] = Free /\ Free # Absent /\ Free \in Blocked
        /\ ~muddled => participants[n] = Absent
    BY <1>0, <1>1, FreeAssumption, PageTyped DEF NoCalendarOverwritten, Present
  <1>3. PICK r \in PageRequest : /\ r.kind = "saveCalendar" /\ r.name = n /\ r.blocked = Free
                                 /\ requests' = Append(requests, r)
    <2>1. SaveRequest(n) = [kind |-> "saveCalendar", name |-> n, blocked |-> Free]
      BY <1>2 DEF SaveRequest
    <2>2. SaveRequest(n) \in PageRequest
      BY <1>0, <1>2, <2>1 DEF PageRequest, Saves
    <2> QED
      BY <2>1, <2>2 DEF SubmitNewParticipant, Send
  <1>4. PICK added \in Seq(PageRequest) :
           requests' = requests \o added /\ Len(added) = 1 /\ DOMAIN added = {1} /\ added[1] = r
    BY <1>3, SendsOne
  <1>5. TypeOK'
    BY <1>0, <1>1, PageTyped DEF TypeOK, TablesIInv
  <1>6. RequestsTyped' /\ QueueIsFinite' /\ NoEditStranded'
    BY <1>0, <1>4, RequestsAdded DEF QueueIsFinite, NoEditStranded
  <1>7. NoCalendarOverwritten' /\ MeetingsAreOfParticipants'
    <2>1. Present' = Present \cup {n}
      BY <1>0, <1>1, <1>2 DEF Present
    <2>2. NoCalendarOverwritten'
      BY <1>0, <1>1, <1>2, <2>1, PageTyped DEF NoCalendarOverwritten, Present
    <2>3. MeetingsAreOfParticipants'
      BY <1>0, <1>5, <2>1 DEF MeetingsAreOfParticipants
    <2> QED
      BY <2>2, <2>3
  <1>8. DeletionsAreCurrent'
    BY <1>0, <1>3, <1>4, DeletionsAdded
  <1>9. ASSUME CalendarsArrive
        PROVE  CalendarsArrive'
    <2>1. ASSUME NEW o \in Names, NEW k \in DOMAIN added, OfCalendar(added[k], o)
          PROVE  Agrees(o, Brings(added[k]))'
      BY <1>2, <1>3, <1>4, <2>1 DEF Agrees, Brings, OfCalendar
    <2>2. ASSUME NEW o \in Names, ~ \E k \in DOMAIN added : OfCalendar(added[k], o)
          PROVE  /\ o # n
                 /\ participants'[o] = Absent <=> participants[o] = Absent
                 /\ o \notin (participantSaveQueue \cup unsaved)' =>
                       \/ participants[o] = Absent
                       \/ /\ participants'[o] = participants[o]
                          /\ o \notin participantSaveQueue \cup unsaved
      <3>1. o # n
        BY <1>3, <1>4, <2>2 DEF OfCalendar
      <3> QED
        BY <1>0, <1>1, <3>1
    <2> QED
      BY <1>0, <1>4, <1>9, <2>1, <2>2, CalendarsAdded
  <1>10. ASSUME MeetingsArrive
         PROVE  MeetingsArrive'
    <2>1. {o \in Names : \E k \in DOMAIN added :
              added[k].kind = "deleteCalendar" /\ added[k].name = o} = {}
      BY <1>3, <1>4
    <2>2. \A m \in Created : \A k \in DOMAIN added : ~OfMeeting(added[k], m)
      BY <1>3, <1>4 DEF OfMeeting
    <2>3. \A m \in Created : pageMeetings'[m] = Without(pageMeetings[m], {})
      BY <1>0, PageTyped, WithoutSome
    <2> QED
      BY <1>0, <1>4, <1>10, <2>1, <2>2, <2>3, PageTyped, MeetingsAdded
  <1>11. CoverHides' /\ LoadedOnce'
    <2>1. loaded \/ muddled
      BY <1>0, Uncovered
    <2> QED
      BY <1>0, <2>1, UsedPage
  <1>12. Booked' <=> Booked
    BY <1>0 DEF Booked
  <1> QED
    BY <1>5, <1>6, <1>7, <1>8, <1>9, <1>10, <1>11, <1>12

LEMMA DeleteParticipantStep ==
    ASSUME PageInv, TablesIInv', NEW n \in Names, NEW d \in Deletes,
           DeleteParticipant(n, d)
    PROVE  PageInv'
  <1> USE DEF PageInv
  <1>0. /\ UNCHANGED <<validatedName, participantSaveQueue, timers, astray, calendars, meetings,
                       deleting, disturbed>>
        /\ n # Absent
        /\ UNCHANGED <<loaded, initialLoad, earlierLoads, muddled>>
        /\ ~muddled => n \in Present
        /\ meetingParticipants' = meetingParticipants \ {n}
        /\ pageMeetings' = PageMeetingsWithout(n)
        /\ unsaved' = unsaved \ {n}
        /\ participants' = [participants EXCEPT ![n] = Absent]
    BY PageTyped DEF DeleteParticipant, TickedWithout, tablesState, tables, visit
  <1>1. /\ \A o \in Names : participants'[o] = IF o = n THEN Absent ELSE participants[o]
        /\ participants' \in [Names -> Blocked \cup {Absent}]
    BY <1>0, PageTyped
  <1>2. Present' = Present \ {n}
    BY <1>1 DEF Present
  <1>3. PICK next \in Names \cup {Absent} :
           /\ selectedParticipant' = next
           /\ participantCalendar' = IF next = Absent THEN Free ELSE participants'[next]
           /\ next # Absent => participants'[next] # Absent
    BY DEF DeleteParticipant, Shows
  <1>4. PICK r \in PageRequest : /\ r.kind = "deleteCalendar" /\ r.name = n /\ r.delete = d
                                 /\ requests' = Append(requests, r)
    <2>1. DeleteRequest(n, d) \in PageRequest
      BY <1>0 DEF DeleteRequest, PageRequest, Deletions
    <2> QED
      BY <2>1 DEF DeleteParticipant, Send, DeleteRequest
  <1>5. PICK added \in Seq(PageRequest) :
           requests' = requests \o added /\ Len(added) = 1 /\ DOMAIN added = {1} /\ added[1] = r
    BY <1>4, SendsOne
  <1>6. \A m \in Created :
           /\ pageMeetings'[m] = IF pageMeetings[m] \in {Absent, {n}} THEN Absent
                                 ELSE pageMeetings[m] \ {n}
           /\ pageMeetings[m] \in {Absent} \cup SUBSET Names
    BY <1>0, PageTyped DEF PageMeetingsWithout
  <1>7. TypeOK'
    <2>1. participantCalendar' \in Blocked
      BY <1>1, <1>3, FreeAssumption
    <2>2. pageMeetings' \in [Created -> {Absent} \cup SUBSET Names]
      BY <1>0, <1>6 DEF PageMeetingsWithout
    <2> QED
      BY <1>0, <1>1, <1>3, <2>1, <2>2 DEF TypeOK, TablesIInv
  <1>8. RequestsTyped' /\ QueueIsFinite' /\ NoEditStranded'
    BY <1>0, <1>5, RequestsAdded DEF QueueIsFinite, NoEditStranded
  <1>9. NoCalendarOverwritten'
    <2>1. next # Absent => next \in Present'
      BY <1>3 DEF Present
    <2> QED
      BY <1>0, <1>2, <1>3, <2>1 DEF NoCalendarOverwritten
  <1>10. MeetingsAreOfParticipants'
    <2>1. ASSUME ~astray, ~muddled
          PROVE  meetingParticipants' \subseteq Present'
      BY <1>0, <1>2, <2>1 DEF MeetingsAreOfParticipants
    <2>2. ASSUME ~astray, ~muddled, NEW m \in Created, pageMeetings'[m] # Absent
          PROVE  pageMeetings'[m] \subseteq Present'
      <3>1. pageMeetings[m] # Absent /\ pageMeetings'[m] = pageMeetings[m] \ {n}
        BY <1>6, <2>2
      <3>2. pageMeetings[m] \subseteq Present
        BY <2>2, <3>1 DEF MeetingsAreOfParticipants
      <3> QED
        BY <1>2, <3>1, <3>2
    <2> QED
      BY <1>0, <1>7, <2>1, <2>2 DEF MeetingsAreOfParticipants
  <1>11. DeletionsAreCurrent'
    <2>1. /\ deleting[d].stage = "ready"
          /\ \A i \in DOMAIN requests :
                requests[i].kind = "deleteCalendar" => requests[i].delete # d
      BY DEF DeleteParticipant
    <2> QED
      BY <1>0, <1>4, <1>5, <2>1, DeletionsAdded
  <1>12. ASSUME CalendarsArrive
         PROVE  CalendarsArrive'
    <2>1. ASSUME NEW o \in Names, NEW k \in DOMAIN added, OfCalendar(added[k], o)
          PROVE  Agrees(o, Brings(added[k]))'
      BY <1>1, <1>4, <1>5, <2>1 DEF Agrees, Brings, OfCalendar
    <2>2. ASSUME NEW o \in Names, ~ \E k \in DOMAIN added : OfCalendar(added[k], o)
          PROVE  /\ o # n
                 /\ participants'[o] = Absent <=> participants[o] = Absent
                 /\ o \notin (participantSaveQueue \cup unsaved)' =>
                       \/ participants[o] = Absent
                       \/ /\ participants'[o] = participants[o]
                          /\ o \notin participantSaveQueue \cup unsaved
      <3>1. o # n
        BY <1>4, <1>5, <2>2 DEF OfCalendar
      <3> QED
        BY <1>0, <1>1, <3>1
    <2> QED
      BY <1>0, <1>5, <1>12, <2>1, <2>2, CalendarsAdded
  <1>13. ASSUME MeetingsArrive
         PROVE  MeetingsArrive'
    <2>1. {o \in Names : \E k \in DOMAIN added :
              added[k].kind = "deleteCalendar" /\ added[k].name = o} = {n}
      BY <1>0, <1>4, <1>5
    <2>2. \A m \in Created : \A k \in DOMAIN added : ~OfMeeting(added[k], m)
      BY <1>4, <1>5 DEF OfMeeting
    <2>3. ASSUME NEW m \in Created
          PROVE  pageMeetings'[m] = Without(pageMeetings[m], {n})
      <3>1. Without(pageMeetings[m], {n}) =
               IF pageMeetings[m] \in {Absent, {n}} THEN Absent ELSE pageMeetings[m] \ {n}
        BY <1>6, WithoutOne
      <3> QED
        BY <1>6, <3>1
    <2>4. PICK gone : gone = {n}
      OBVIOUS
    <2>5. /\ gone = {o \in Names : \E k \in DOMAIN added :
                        added[k].kind = "deleteCalendar" /\ added[k].name = o}
          /\ \A m \in Created : pageMeetings'[m] = Without(pageMeetings[m], gone)
      BY <2>1, <2>3, <2>4
    <2> QED
      BY <1>0, <1>5, <1>13, <2>2, <2>5, PageTyped, MeetingsAdded
  <1>14. CoverHides' /\ LoadedOnce'
    <2>1. loaded \/ muddled
      BY <1>0, Uncovered, PageTyped
    <2> QED
      BY <1>0, <2>1, UsedPage
  <1>15. Booked' <=> Booked
    BY <1>0 DEF Booked
  <1> QED
    BY <1>7, <1>8, <1>9, <1>10, <1>11, <1>12, <1>13, <1>14, <1>15

\* What the page makes of one meeting, and asks to be made of it.
LEMMA OneMeetingStep ==
    ASSUME PageInv, TablesIInv', NEW m \in Created,
           NEW r \in PageRequest, OfMeeting(r, m), requests' = Append(requests, r),
           pageMeetings' = [pageMeetings EXCEPT ![m] = Makes(r)],
           ~astray /\ ~muddled' /\ Makes(r) # Absent => Makes(r) \subseteq Present,
           UNCHANGED <<participants, selection, validatedName, meetingParticipants,
                       participantSaveQueue, timers, unsaved, loaded, initialLoad,
                       earlierLoads, astray, tablesState>>,
           muddled' \in BOOLEAN, muddled => muddled', loaded \/ muddled'
    PROVE  PageInv'
  <1> USE DEF PageInv
  <1>0. UNCHANGED <<participants, selectedParticipant, participantCalendar, validatedName,
                    meetingParticipants, participantSaveQueue, timers, unsaved, astray,
                    loaded, initialLoad, earlierLoads, calendars, meetings, deleting, disturbed>>
    BY DEF selection, tablesState, tables
  <1>1. PICK added \in Seq(PageRequest) :
           requests' = requests \o added /\ Len(added) = 1 /\ DOMAIN added = {1} /\ added[1] = r
    BY SendsOne
  <1>2. Makes(r) \in {Absent} \cup SUBSET Names
    BY RequestTyped, AbsentAssumption DEF Makes
  <1>3. \A o \in Created : pageMeetings'[o] = IF o = m THEN Makes(r) ELSE pageMeetings[o]
    BY PageTyped
  <1>4. TypeOK'
    BY <1>0, <1>2, PageTyped DEF TypeOK, TablesIInv
  <1>5. RequestsTyped' /\ QueueIsFinite' /\ NoEditStranded'
    BY <1>0, <1>1, RequestsAdded DEF QueueIsFinite, NoEditStranded
  <1>6. Present' = Present
    BY <1>0 DEF Present
  <1>7. NoCalendarOverwritten'
    BY <1>0, <1>6 DEF NoCalendarOverwritten
  <1>8. MeetingsAreOfParticipants'
    BY <1>0, <1>2, <1>3, <1>4, <1>6 DEF MeetingsAreOfParticipants
  <1>9. DeletionsAreCurrent'
    BY <1>0, <1>1, DeletionsAdded DEF OfMeeting
  <1>10. ASSUME CalendarsArrive
         PROVE  CalendarsArrive'
    <2>1. ASSUME NEW o \in Names, NEW k \in DOMAIN added
          PROVE  ~OfCalendar(added[k], o)
      BY <1>1 DEF OfCalendar, OfMeeting
    <2>2. ASSUME NEW o \in Names
          PROVE  /\ participants'[o] = Absent <=> participants[o] = Absent
                 /\ o \notin (participantSaveQueue \cup unsaved)' =>
                       \/ participants[o] = Absent
                       \/ /\ participants'[o] = participants[o]
                          /\ o \notin participantSaveQueue \cup unsaved
      BY <1>0
    <2> QED
      BY <1>0, <1>1, <1>10, <2>1, <2>2, CalendarsAdded
  <1>11. ASSUME MeetingsArrive
         PROVE  MeetingsArrive'
    <2>1. {o \in Names : \E k \in DOMAIN added :
              added[k].kind = "deleteCalendar" /\ added[k].name = o} = {}
      BY <1>1 DEF OfMeeting
    <2>2. ASSUME NEW o \in Created, NEW k \in DOMAIN added, OfMeeting(added[k], o)
          PROVE  Len(added) = 1 /\ pageMeetings'[o] = Makes(added[k])
      BY <1>1, <1>3, <2>2 DEF OfMeeting
    <2>3. ASSUME NEW o \in Created
          PROVE  \/ \E k \in DOMAIN added : OfMeeting(added[k], o)
                 \/ pageMeetings'[o] = Without(pageMeetings[o], {})
      <3>1. CASE o = m
        BY <1>1, <3>1
      <3>2. CASE o # m
        <4>1. pageMeetings[o] \in {Absent} \cup SUBSET Names
          BY PageTyped
        <4> QED
          BY <1>3, <3>2, <4>1, WithoutSome
      <3> QED
        BY <3>1, <3>2
    <2> QED
      BY <1>0, <1>1, <1>11, <2>1, <2>2, <2>3, PageTyped, MeetingsAdded
  <1>12. CoverHides' /\ LoadedOnce'
    BY <1>0, UsedPage
  <1>13. Booked' => Booked
    <2>1. (astray' <=> astray) /\ (loaded' <=> loaded)
      BY <1>0
    <2>2. muddled => muddled'
      OBVIOUS
    <2> QED
      BY <2>1, <2>2, Zenon DEF Booked
  <1> QED
    BY <1>4, <1>5, <1>7, <1>8, <1>9, <1>10, <1>11, <1>12, <1>13

LEMMA CreateMeetingStep ==
    ASSUME PageInv, TablesIInv', NEW m \in Created, CreateMeeting(m)
    PROVE  PageInv'
  <1> USE DEF PageInv
  <1>1. /\ meetingParticipants \subseteq Names
        /\ ~astray /\ ~muddled => meetingParticipants \subseteq Present
    BY PageTyped DEF MeetingsAreOfParticipants
  <1>2. PICK r : r = SaveMeetingRequest(m)
    OBVIOUS
  <1>3. r \in PageRequest
    BY <1>1, <1>2 DEF SaveMeetingRequest, PageRequest, MeetingSaves
  <1>4. OfMeeting(r, m) /\ Makes(r) = meetingParticipants
    BY <1>2 DEF SaveMeetingRequest, OfMeeting, Makes
  <1>5. requests' = Append(requests, r)
    BY <1>2 DEF CreateMeeting, Send
  <1>6. muddled' \in BOOLEAN /\ (muddled => muddled') /\ (loaded \/ muddled')
    BY PageTyped DEF CreateMeeting
  <1> QED
    BY <1>1, <1>3, <1>4, <1>5, <1>6, OneMeetingStep DEF CreateMeeting

LEMMA PageDeleteMeetingStep ==
    ASSUME PageInv, TablesIInv', NEW m \in Created, PageDeleteMeeting(m)
    PROVE  PageInv'
  <1>1. /\ UNCHANGED <<loaded, initialLoad, earlierLoads, muddled>>
        /\ muddled \in BOOLEAN
        /\ loaded \/ muddled
    BY Uncovered, PageTyped DEF PageDeleteMeeting, visit, PageInv
  <1>2. PICK r : r = DeleteMeetingRequest(m)
    OBVIOUS
  <1>3. r \in PageRequest
    BY <1>2 DEF DeleteMeetingRequest, PageRequest, MeetingDeletions
  <1>4. OfMeeting(r, m) /\ Makes(r) = Absent
    BY <1>2 DEF DeleteMeetingRequest, OfMeeting, Makes
  <1>5. requests' = Append(requests, r)
    BY <1>2 DEF PageDeleteMeeting, Send
  <1> QED
    BY <1>1, <1>3, <1>4, <1>5, OneMeetingStep DEF PageDeleteMeeting
-----------------------------------------------------------------------------
\* An answer changes nothing of the page.
LEMMA AnswerLeavesPage ==
    ASSUME PageInv, TablesIInv', UNCHANGED <<page, visit>>, NEW k \in DOMAIN requests,
           astray' \in BOOLEAN, ~astray' => ~astray
    PROVE  /\ TypeOK' /\ QueueIsFinite' /\ NoEditStranded' /\ NoCalendarOverwritten'
           /\ MeetingsAreOfParticipants' /\ CoverHides' /\ LoadedOnce'
           /\ UNCHANGED <<participants, pageMeetings, participantSaveQueue, unsaved>>
           /\ Booked' => ~astray' /\ Booked
  <1> USE DEF PageInv
  <1>0. UNCHANGED <<participants, selectedParticipant, participantCalendar, validatedName,
                    meetingParticipants, pageMeetings, participantSaveQueue, timers, unsaved,
                    loaded, initialLoad, earlierLoads, muddled>>
    BY DEF page, selection, visit
  <1>1. TypeOK'
    BY <1>0 DEF TypeOK, TablesIInv
  <1>2. Present' = Present
    BY <1>0 DEF Present
  <1>3. QueueIsFinite' /\ NoEditStranded' /\ NoCalendarOverwritten'
    BY <1>0, <1>2 DEF QueueIsFinite, NoEditStranded, NoCalendarOverwritten
  <1>4. MeetingsAreOfParticipants'
    BY <1>0, <1>1, <1>2 DEF MeetingsAreOfParticipants
  <1>5. CoverHides'
    <2>1. ~loaded /\ ~muddled => astray
      <3>1. requests # <<>>
        OBVIOUS
      <3> QED
        BY <3>1, PageTyped DEF CoverHides
    <2>2. ~loaded /\ ~muddled => astray'
      BY <2>1
    <2> QED
      BY <1>0, <2>2 DEF CoverHides, NoCalendars, NoMeetings
  <1>6. LoadedOnce'
    BY <1>0 DEF LoadedOnce
  <1>7. Booked' => ~astray' /\ Booked
    BY <1>0 DEF Booked
  <1> QED
    BY <1>0, <1>1, <1>3, <1>4, <1>5, <1>6, <1>7

\* What a single call writes, and that it disturbs only who reads what it writes.
LEMMA CallWrites ==
    ASSUME PageInv, NEW k \in DOMAIN requests, AnswerCall(k)
    PROVE  /\ requests[k] \in PageRequest /\ requests[k].kind # "deleteCalendar"
           /\ UNCHANGED deleting
           /\ \A n \in Names : calendars'[n] = IF OfCalendar(requests[k], n)
                                               THEN Brings(requests[k]) ELSE calendars[n]
           /\ \A m \in Created : meetings'[m] = IF OfMeeting(requests[k], m)
                                                THEN Makes(requests[k]) ELSE meetings[m]
           /\ (\A m \in Created : ~OfMeeting(requests[k], m)) => UNCHANGED disturbed
           /\ Makes(requests[k]) # {}
  <1> DEFINE r == requests[k]
  <1>0. r \in PageRequest /\ r.kind # "deleteCalendar"
    BY DEF AnswerCall, AnswerSaveCalendar, AnswerSaveMeeting, AnswerDeleteMeeting,
           RequestsTyped, PageInv
  <1>1. UNCHANGED deleting
    BY DEF AnswerCall, AnswerSaveCalendar, AnswerSaveMeeting, AnswerDeleteMeeting,
           SaveCalendar, SaveMeeting, DeleteMeeting
  <1>2. CASE r.kind = "saveCalendar"
    <2>1. /\ r.name \in Names /\ UNCHANGED <<meetings, disturbed>>
          /\ calendars' = [calendars EXCEPT ![r.name] = r.blocked]
      BY <1>0, <1>2, RequestTyped
         DEF AnswerCall, AnswerSaveCalendar, AnswerSaveMeeting, AnswerDeleteMeeting, SaveCalendar
    <2>2. \A n \in Names : calendars'[n] = IF OfCalendar(r, n) THEN Brings(r) ELSE calendars[n]
      BY <1>2, <2>1, PageTyped DEF OfCalendar, Brings, PageInv
    <2>3. \A m \in Created : meetings'[m] = IF OfMeeting(r, m) THEN Makes(r) ELSE meetings[m]
      BY <1>2, <2>1 DEF OfMeeting
    <2>4. Makes(r) # {}
      BY <1>2, AbsentAssumption DEF Makes
    <2> QED
      BY <1>0, <1>1, <2>1, <2>2, <2>3, <2>4
  <1>3. CASE r.kind \in {"saveMeeting", "deleteMeeting"}
    <2>1. /\ r.created \in Created /\ UNCHANGED calendars
          /\ meetings' = [meetings EXCEPT ![r.created] = Makes(r)]
      BY <1>0, <1>3, RequestTyped
         DEF AnswerCall, AnswerSaveCalendar, AnswerSaveMeeting, AnswerDeleteMeeting,
             SaveMeeting, DeleteMeeting, Makes
    <2>2. \A n \in Names : calendars'[n] = IF OfCalendar(r, n) THEN Brings(r) ELSE calendars[n]
      BY <1>3, <2>1 DEF OfCalendar
    <2>3. \A m \in Created : meetings'[m] = IF OfMeeting(r, m) THEN Makes(r) ELSE meetings[m]
      BY <1>3, <2>1, PageTyped DEF OfMeeting, PageInv
    <2>4. OfMeeting(r, r.created)
      BY <1>3 DEF OfMeeting
    <2>5. Makes(r) # {}
      BY <1>3, PageTyped
         DEF AnswerCall, AnswerSaveCalendar, AnswerSaveMeeting, AnswerDeleteMeeting,
             SaveMeeting, Makes, PageInv
    <2> QED
      BY <1>0, <1>1, <2>1, <2>2, <2>3, <2>4, <2>5
  <1> QED
    BY <1>0, <1>2, <1>3, RequestTyped

LEMMA AnswerCallStep ==
    ASSUME PageInv, TablesIInv', NEW k \in DOMAIN requests, AnswerCall(k)
    PROVE  PageInv'
  <1> USE DEF PageInv
  <1>0. /\ UNCHANGED <<page, visit>> /\ requests' = RemoveAt(requests, k)
        /\ astray' = (astray \/ Overtakes(k)) /\ astray' \in BOOLEAN
        /\ ~astray' => ~astray /\ ~Overtakes(k)
    BY DEF AnswerCall, AnswerSaveCalendar, AnswerSaveMeeting, AnswerDeleteMeeting, Answered,
           TypeOK, Overtakes
  <1>1. /\ TypeOK' /\ QueueIsFinite' /\ NoEditStranded' /\ NoCalendarOverwritten'
        /\ MeetingsAreOfParticipants' /\ CoverHides' /\ LoadedOnce'
        /\ UNCHANGED <<participants, pageMeetings, participantSaveQueue, unsaved>>
        /\ Booked' => ~astray' /\ Booked
    BY <1>0, AnswerLeavesPage
  <1>2. RequestsTyped'
    BY <1>0, RequestsAfter
  <1>3. DeletionsAreCurrent'
    <2>1. \A d \in Deletes : deleting'[d].stage = "ready" => ~disturbed'[d]
      <3>1. Next
        BY DEF Next
      <3>2. [TablesNext]_tablesVars
        BY <3>1, TablesStep
      <3> QED
        BY <3>2, ReadyUndisturbed DEF DeletionsAreCurrent, TypeOK
    <2>2. ASSUME NEW i \in DOMAIN requests \ {k}, requests[i].kind = "deleteCalendar",
                 deleting[requests[i].delete].stage = "read", ~astray'
          PROVE  \A m \in Created : ~OfMeeting(requests[k], m)
      <3>1. ~Overtakes(i) /\ ~Overtakes(k)
        BY <1>0, <2>2 DEF DeletionsAreCurrent
      <3>2. i < k \/ k < i
        BY DEF RequestsTyped
      <3> QED
        BY <2>2, <3>1, <3>2, Conflicts
    <2>3. ASSUME NEW i \in DOMAIN requests \ {k}, requests[i].kind = "deleteCalendar"
          PROVE  LET d == requests[i].delete IN
                 /\ deleting'[d] = deleting[d]
                 /\ ~astray' /\ deleting[d].stage = "read" /\ Created # {} =>
                       disturbed'[d] = disturbed[d]
      BY <2>2, <2>3, CallWrites
    <2> QED
      BY <1>0, <2>1, <2>3, DeletionsAfter
  <1>4. ASSUME Booked'
        PROVE  CalendarsArrive' /\ MeetingsArrive'
    <2>1. CalendarsArrive /\ MeetingsArrive /\ ~Overtakes(k)
      BY <1>0, <1>1, <1>4
    <2>2. CalendarsArrive'
      BY <1>0, <1>1, <2>1, CallWrites, CalendarsAfter
    <2>3. MeetingsArrive'
      BY <1>0, <1>1, <2>1, CallWrites, MeetingsAfterCall
    <2> QED
      BY <2>2, <2>3
  <1> QED
    BY <1>1, <1>2, <1>3, <1>4

LEMMA BeginDeleteStep ==
    ASSUME PageInv, TablesIInv', NEW k \in DOMAIN requests, BeginDelete(k)
    PROVE  PageInv'
  <1> USE DEF PageInv
  <1> DEFINE e == requests[k].delete
  <1>0. /\ UNCHANGED <<page, visit>> /\ UNCHANGED <<requests, calendars, meetings, disturbed>>
        /\ astray' \in BOOLEAN
        /\ ~astray' => ~astray /\ ~Overtakes(k)
        /\ requests[k].kind = "deleteCalendar" /\ e \in Deletes
        /\ deleting[e].stage = "ready"
    <2>1. /\ UNCHANGED <<page, visit>> /\ UNCHANGED <<requests, calendars, meetings, disturbed>>
          /\ requests[k].kind = "deleteCalendar" /\ deleting[e].stage = "ready"
      BY DEF BeginDelete, GetAffected
    <2>2. e \in Deletes
      BY <2>1, RequestTyped DEF RequestsTyped
    <2>3. astray \in BOOLEAN /\ Overtakes(k) \in BOOLEAN /\ astray' = (astray \/ Overtakes(k))
      BY DEF BeginDelete, TypeOK, Overtakes
    <2> QED
      BY <2>1, <2>2, <2>3
  <1>1. /\ TypeOK' /\ QueueIsFinite' /\ NoEditStranded' /\ NoCalendarOverwritten'
        /\ MeetingsAreOfParticipants' /\ CoverHides' /\ LoadedOnce'
        /\ UNCHANGED <<participants, pageMeetings, participantSaveQueue, unsaved>>
        /\ Booked' => ~astray' /\ Booked
    BY <1>0, AnswerLeavesPage
  <1>2. RequestsTyped'
    BY <1>0 DEF RequestsTyped
  <1>3. /\ deleting'[e].stage = "read" /\ deleting'[e].name = requests[k].name
        /\ \A d \in Deletes \ {e} : deleting'[d] = deleting[d]
    BY <1>0, PageTyped DEF BeginDelete, GetAffected
  <1>4. DeletionsAreCurrent'
    <2>1. \A d \in Deletes : deleting'[d].stage = "ready" => ~disturbed'[d]
      BY <1>0, <1>3 DEF DeletionsAreCurrent
    <2>2. ASSUME NEW i \in DOMAIN requests, requests[i].kind = "deleteCalendar"
          PROVE  LET d == requests[i].delete IN
                 /\ deleting'[d].stage = "read" => deleting'[d].name = requests[i].name
                 /\ ~astray' /\ deleting'[d].stage = "read" =>
                       ~Overtakes(i) /\ (Created # {} => ~disturbed[d])
                 /\ \A j \in DOMAIN requests :
                       requests[j].kind = "deleteCalendar" /\ requests[j].delete = d => i = j
      <3>1. requests[i].delete \in Deletes
        BY <2>2, RequestTyped DEF RequestsTyped
      <3>2. CASE i = k
        BY <1>0, <1>3, <2>2, <3>2 DEF DeletionsAreCurrent
      <3>3. CASE i # k
        <4>1. requests[i].delete # e
          BY <1>0, <2>2, <3>3 DEF DeletionsAreCurrent
        <4> QED
          BY <1>0, <1>3, <2>2, <3>1, <4>1 DEF DeletionsAreCurrent
      <3> QED
        BY <3>2, <3>3
    <2> QED
      BY <1>0, <2>1, <2>2 DEF DeletionsAreCurrent, Overtakes
  <1>5. CalendarsArrive => CalendarsArrive'
    BY <1>0, <1>1 DEF CalendarsArrive, LastOfCalendar, After, Agrees
  <1>6. MeetingsArrive => MeetingsArrive'
    BY <1>0, <1>1, MeetingsStay
  <1> QED
    BY <1>0, <1>1, <1>2, <1>4, <1>5, <1>6

LEMMA EndDeleteStep ==
    ASSUME PageInv, TablesIInv', NEW k \in DOMAIN requests, EndDelete(k)
    PROVE  PageInv'
  <1> USE DEF PageInv
  <1> DEFINE e == requests[k].delete
             n == requests[k].name
  <1>0. /\ UNCHANGED <<page, visit>> /\ requests' = RemoveAt(requests, k) /\ UNCHANGED astray
        /\ requests[k].kind = "deleteCalendar" /\ e \in Deletes /\ n \in Names
        /\ DeleteTransaction(e) /\ deleting[e].stage = "read"
        /\ astray' \in BOOLEAN
    BY RequestTyped DEF EndDelete, TypeOK, DeleteTransaction, RequestsTyped
  <1>1. /\ TypeOK' /\ QueueIsFinite' /\ NoEditStranded' /\ NoCalendarOverwritten'
        /\ MeetingsAreOfParticipants' /\ CoverHides' /\ LoadedOnce'
        /\ UNCHANGED <<participants, pageMeetings, participantSaveQueue, unsaved>>
        /\ Booked' => ~astray' /\ Booked
    BY <1>0, AnswerLeavesPage
  <1>2. RequestsTyped'
    BY <1>0, RequestsAfter
  <1>3. /\ deleting[e].name = n
        /\ ~astray => ~Overtakes(k) /\ (Created # {} => ~disturbed[e])
    BY <1>0 DEF DeletionsAreCurrent
  <1>4. DeletionsAreCurrent'
    <2>1. \A d \in Deletes : deleting'[d].stage = "ready" => ~disturbed'[d]
      <3>1. Next
        BY DEF Next
      <3>2. [TablesNext]_tablesVars
        BY <3>1, TablesStep
      <3> QED
        BY <3>2, ReadyUndisturbed DEF DeletionsAreCurrent, TypeOK
    <2>2. ASSUME NEW i \in DOMAIN requests \ {k}, requests[i].kind = "deleteCalendar"
          PROVE  LET d == requests[i].delete IN
                 /\ deleting'[d] = deleting[d]
                 /\ ~astray' /\ deleting[d].stage = "read" /\ Created # {} =>
                       disturbed'[d] = disturbed[d]
      <3> DEFINE d == requests[i].delete
      <3>1. d \in Deletes /\ d # e
        BY <1>0, <2>2, RequestTyped DEF DeletionsAreCurrent, RequestsTyped
      <3>2. deleting'[d] = deleting[d]
        BY <1>0, <3>1, PageTyped DEF DeleteTransaction
      <3>3. ASSUME ~astray, deleting[d].stage = "read", NEW m \in Created
            PROVE  FALSE
        <4>1. ~Overtakes(i) /\ ~Overtakes(k)
          BY <1>3, <2>2, <3>3 DEF DeletionsAreCurrent
        <4>2. i < k \/ k < i
          BY DEF RequestsTyped
        <4> QED
          BY <1>0, <2>2, <4>1, <4>2, Conflicts
      <3> QED
        BY <1>0, <3>2, <3>3
    <2> QED
      BY <1>0, <2>1, <2>2, DeletionsAfter
  <1>5. ASSUME Booked'
        PROVE  CalendarsArrive' /\ MeetingsArrive'
    <2>1. CalendarsArrive /\ MeetingsArrive /\ ~Overtakes(k)
      BY <1>0, <1>1, <1>3, <1>5
    <2>2. \A o \in Names : calendars'[o] = IF OfCalendar(requests[k], o) THEN Brings(requests[k])
                                           ELSE calendars[o]
      BY <1>0, <1>3, PageTyped DEF DeleteTransaction, OfCalendar, Brings
    <2>3. CalendarsArrive'
      BY <1>0, <1>1, <2>1, <2>2, CalendarsAfter
    <2>4. CASE Created # {}
      <3>1. meetings' = MeetingsWithout(n)
        BY <1>0, <1>1, <1>3, <1>5, <2>4, UndisturbedTransaction
      <3> QED
        BY <1>0, <1>1, <2>1, <2>3, <3>1, PageTyped, MeetingsAfterDelete
    <2>5. CASE Created = {}
      BY <2>3, <2>5 DEF MeetingsArrive
    <2> QED
      BY <2>4, <2>5
  <1> QED
    BY <1>1, <1>2, <1>4, <1>5

LEMMA LoseRequestStep ==
    ASSUME PageInv, TablesIInv', NEW k \in DOMAIN requests, LoseRequest(k)
    PROVE  PageInv'
  <1> USE DEF PageInv
  <1>0. UNCHANGED <<page, visit>> /\ requests' = RemoveAt(requests, k) /\ astray'
    BY DEF LoseRequest
  <1>1. /\ TypeOK' /\ QueueIsFinite' /\ NoEditStranded' /\ NoCalendarOverwritten'
        /\ MeetingsAreOfParticipants' /\ CoverHides' /\ LoadedOnce'
        /\ Booked' => ~astray'
    <2>1. astray' = TRUE
      BY DEF LoseRequest
    <2> QED
      BY <1>0, <2>1, AnswerLeavesPage
  <1>2. RequestsTyped'
    BY <1>0, RequestsAfter
  <1>3. \A d \in Deletes : deleting'[d].stage = "ready" => ~disturbed'[d]
    <2>1. Next
      BY DEF Next
    <2>2. [TablesNext]_tablesVars
      BY <2>1, TablesStep
    <2> QED
      BY <2>2, ReadyUndisturbed DEF DeletionsAreCurrent, TypeOK
  <1>4. ASSUME NEW i \in DOMAIN requests \ {k}, requests[i].kind = "deleteCalendar"
        PROVE  deleting'[requests[i].delete] = deleting[requests[i].delete]
    <2>1. CASE requests[k].kind = "deleteCalendar"
      <3>1. requests[i].delete \in Deletes /\ requests[i].delete # requests[k].delete
        BY <1>4, <2>1, RequestTyped DEF DeletionsAreCurrent, RequestsTyped
      <3> QED
        BY <2>1, <3>1, PageTyped DEF LoseRequest, AbandonDelete
    <2>2. CASE requests[k].kind # "deleteCalendar"
      BY <2>2 DEF LoseRequest, tablesState
    <2> QED
      BY <2>1, <2>2
  <1>5. DeletionsAreCurrent'
    BY <1>0, <1>3, <1>4, DeletionsAfter
  <1> QED
    BY <1>0, <1>1, <1>2, <1>5
-----------------------------------------------------------------------------
LEMMA PageInitInv == Init => PageInv
  <1> SUFFICES ASSUME Init
               PROVE  PageInv
    OBVIOUS
  <1>1. TablesIInv
    BY TablesInitInv DEF Init
  <1>2. /\ participants = NoCalendars
        /\ pageMeetings = NoMeetings /\ meetings = NoMeetings
        /\ selectedParticipant = Absent /\ participantCalendar = Free /\ validatedName = Absent
        /\ meetingParticipants = {} /\ participantSaveQueue = {} /\ timers = 0
        /\ requests = <<>> /\ unsaved = {} /\ astray = FALSE
        /\ loaded = FALSE /\ muddled = FALSE /\ initialLoad = RequestInitialLoad
        /\ earlierLoads = 0
    BY DEF Init, TablesInit
  <1>3. TypeOK
    <2>1. NoCalendars \in [Names -> Blocked \cup {Absent}]
      BY DEF NoCalendars
    <2>2. NoMeetings \in [Created -> {Absent} \cup SUBSET Names]
      BY DEF NoMeetings
    <2>3. initialLoad \in InitialLoad
      BY <1>2, <2>1, <2>2 DEF InitialLoad, RequestInitialLoad, InitialData
    <2> QED
      BY <1>1, <1>2, <2>1, <2>2, <2>3, FreeAssumption DEF TypeOK, TablesIInv
  <1>4. RequestsTyped /\ QueueIsFinite /\ NoEditStranded
    BY <1>2, FS_EmptySet DEF RequestsTyped, QueueIsFinite, NoEditStranded
  <1>5. NoCalendarOverwritten /\ MeetingsAreOfParticipants
    BY <1>2, <1>3 DEF NoCalendarOverwritten, MeetingsAreOfParticipants, NoCalendars, NoMeetings, Present
  <1>6. DeletionsAreCurrent
    BY <1>2 DEF DeletionsAreCurrent, Init, TablesInit
  <1>7. ~Booked
    BY <1>2 DEF Booked
  <1>8. CoverHides
    <2>1. initialLoad.read = {}
      BY <1>2 DEF RequestInitialLoad
    <2> QED
      BY <1>2, <2>1 DEF CoverHides, NoMeetings
  <1>9. LoadedOnce
    BY <1>2 DEF LoadedOnce
  <1> QED
    BY <1>1, <1>3, <1>4, <1>5, <1>6, <1>7, <1>8, <1>9 DEF PageInv

LEMMA PageNextInv == PageInv /\ [Next]_vars => PageInv'
  <1> SUFFICES ASSUME PageInv, [Next]_vars
               PROVE  PageInv'
    OBVIOUS
  <1>0. TablesIInv'
    BY TablesStep
  <1>1. ASSUME NEW n \in Names,
               SelectParticipant(n) \/ ChangeParticipantName(n) \/ SelectMeetingParticipant(n)
        PROVE  PageInv'
    BY <1>1, SelectParticipantStep, ChangeParticipantNameStep, SelectMeetingParticipantStep
  <1>2. ASSUME NEW blocked \in Blocked, SaveMsg(blocked) \/ UnsavedMsg(blocked)
        PROVE  PageInv'
    BY <1>0, <1>2, SaveMsgStep, UnsavedMsgStep
  <1>3. CASE SaveParticipantQueue \/ SubmitNewParticipant
    BY <1>0, <1>3, SaveParticipantQueueStep, SubmitNewParticipantStep
  <1>8. CASE Reload \/ ReadCalendars \/ ReadMeetings \/ OwnDataLoaded \/ LoseLoad
    BY <1>0, <1>8, ReloadStep, ReadStep, OwnDataLoadedStep, LoseLoadStep
  <1>9. ASSUME NEW data \in EarlierData, EarlierDataLoaded(data)
        PROVE  PageInv'
    BY <1>0, <1>9, EarlierDataLoadedStep
  <1>4. ASSUME NEW n \in Names, NEW d \in Deletes, DeleteParticipant(n, d)
        PROVE  PageInv'
    BY <1>0, <1>4, DeleteParticipantStep
  <1>5. ASSUME NEW m \in Created, CreateMeeting(m) \/ PageDeleteMeeting(m)
        PROVE  PageInv'
    BY <1>0, <1>5, CreateMeetingStep, PageDeleteMeetingStep
  <1>6. ASSUME NEW i \in DOMAIN requests,
               AnswerCall(i) \/ BeginDelete(i) \/ EndDelete(i) \/ LoseRequest(i)
        PROVE  PageInv'
    BY <1>0, <1>6, AnswerCallStep, BeginDeleteStep, EndDeleteStep, LoseRequestStep
  <1>7. CASE UNCHANGED vars
    <2>1. UNCHANGED <<participants, pageMeetings, participantSaveQueue, timers, unsaved,
                      requests, astray, calendars, meetings, deleting, disturbed,
                      selectedParticipant, participantCalendar, validatedName,
                      meetingParticipants, loaded, initialLoad, earlierLoads, muddled>>
      BY <1>7 DEF vars, page, selection, visit, tablesState, tables
    <2>2. Booked' <=> Booked
      BY <2>1 DEF Booked
    <2>3. TypeOK' /\ NoCalendarOverwritten' /\ MeetingsAreOfParticipants'
      BY <2>1, <2>2, SelectingStep
         DEF PageInv, TypeOK, NoCalendarOverwritten, MeetingsAreOfParticipants, Present
    <2>4. CoverHides' /\ LoadedOnce'
      BY <2>1 DEF PageInv, CoverHides, LoadedOnce, NoCalendars, NoMeetings
    <2> QED
      BY <2>1, <2>2, <2>3, <2>4, SelectingStep DEF PageInv
  <1> QED
    BY <1>1, <1>2, <1>3, <1>4, <1>5, <1>6, <1>7, <1>8, <1>9 DEF Next

LEMMA PageInvariant == Spec => []PageInv
  BY PageInitInv, PageNextInv, PTL DEF Spec

\* No edit waits in the queue without a timer that will send it, however often the
\* page is left and comes back while timers run.
THEOREM EditsAreSent == Spec => []NoEditStranded
  <1>1. PageInv => NoEditStranded
    BY DEF PageInv
  <1> QED
    BY PageInvariant, <1>1, PTL

\* Whoever is selected is there, and, unless an earlier visit's load was answered or
\* the page was used before its own was, the widget shows the calendar that the next
\* edit will be written to, and the name of a new participant is nobody's.
THEOREM CalendarsAreKept == Spec => []NoCalendarOverwritten
  <1>1. PageInv => NoCalendarOverwritten
    BY DEF PageInv
  <1> QED
    BY PageInvariant, <1>1, PTL

\* Types, and: whoever is ticked or meets is a participant, as long as no request
\* went astray and no earlier visit's load was answered.
THEOREM MeetingsKeepToParticipants == Spec => []MeetingsAreOfParticipants
  <1>1. PageInv => MeetingsAreOfParticipants
    BY DEF PageInv
  <1> QED
    BY PageInvariant, <1>1, PTL

\* Once the page's own load was answered and nothing is queued or under way, the tables
\* hold what the page shows: the load read them in two steps, and the deletions, of two
\* steps each, leave of every meeting what the page left.
THEOREM QuietPageIsSaved == Spec => []QuietIsSaved
  <1>1. ASSUME PageInv, requests = <<>>, participantSaveQueue = {}, loaded, ~astray, ~muddled
        PROVE  /\ \A n \in Names \ unsaved : calendars[n] = participants[n]
               /\ meetings = pageMeetings
    <2>1. TypeOK /\ CalendarsArrive /\ MeetingsArrive /\ DOMAIN requests = {}
      BY <1>1 DEF PageInv, Booked
    <2>2. \A n \in Names \ unsaved : calendars[n] = participants[n]
      BY <1>1, <2>1 DEF CalendarsArrive, Agrees
    <2>3. Leaving(0) = {}
      BY <2>1 DEF Leaving, After
    <2>4. ASSUME NEW m \in Created
          PROVE  meetings[m] = pageMeetings[m]
      <3>1. meetings[m] # {} /\ meetings[m] \in {Absent} \cup SUBSET Names
        BY <2>1, PageTyped DEF MeetingsArrive
      <3>2. pageMeetings[m] = Without(meetings[m], {})
        BY <2>1, <2>3 DEF MeetingsArrive
      <3> QED
        BY <3>1, <3>2, WithoutSome
    <2>5. meetings = pageMeetings
      BY <2>1, <2>4, PageTyped
    <2> QED
      BY <2>2, <2>5
  <1>2. PageInv => QuietIsSaved
    BY <1>1 DEF QuietIsSaved
  <1> QED
    BY PageInvariant, <1>2, PTL
=============================================================================
