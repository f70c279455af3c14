------------------------------ MODULE PageVisits ------------------------------
(***************************************************************************)
(* The schedule page comes and goes with the session: each time it is      *)
(* opened it starts from nothing and asks for the user's data.  Requests   *)
(* outlive the page that sent them, and an answer is given to whichever    *)
(* schedule page is open when it arrives.                                  *)
(***************************************************************************)
EXTENDS Session, Integers

CONSTANTS Requests      \* slots: the requests that can be under way at a time

ASSUME RequestsAssumption == IsFiniteSet(Requests)

VARIABLES
    loaded,      \* has InitialDataLoaded uncovered the page?
    requests,
    turned       \* history: was a request under way when the page was opened?

visitVars == <<loaded, requests, turned>>

\* `who' is the user whose token a request carries, `value' what it is sent or
\* answered with.
None == [kind |-> "none", who |-> NoUser, value |-> 0, stage |-> "sent"]

Request(kinds, stages, values) ==
    {None} \cup [kind : kinds, who : Someone, value : values, stage : stages]

UnderWay(kinds) == {r \in Requests : requests[r].kind \in kinds}
NothingUnderWay == \A r \in Requests : requests[r] = None

SendAmong(those, kind, value) ==
    \E r \in Requests :
       /\ those[r] = None
       /\ requests' = [those EXCEPT ![r] = [kind |-> kind, who |-> jwt', value |-> value,
                                            stage |-> "sent"]]

Send(kind, value) == SendAmong(requests, kind, value)
-----------------------------------------------------------------------------
VisitsInit ==
    /\ SessionInit
    /\ loaded = FALSE
    /\ \E first \in Requests :
          requests = [r \in Requests |->
                         IF r = first /\ route = "schedule"
                         THEN [kind |-> "load", who |-> jwt, value |-> 0, stage |-> "sent"]
                         ELSE None]
    /\ turned = FALSE

OpensPage(those) ==
    /\ loaded' = FALSE
    /\ IF route' = "schedule" THEN SendAmong(those, "load", 0) ELSE requests' = those

\* What a load of the program leaves under way: the browser forgets every answer,
\* but what a request was sent to do may still be done.
LeftBehind(does) == [r \in Requests |-> IF requests[r].kind \in does THEN requests[r] ELSE None]

\* A load of the program, when requests of some kinds do something wherever their
\* answer goes.
LoadProgram(does) ==
    /\ Loads
    /\ OpensPage(LeftBehind(does))
    /\ turned' = (UnderWay(does) # {})

\* ChangedUrl: a page is opened, were it the same again.
TurnPage ==
    /\ Visits \/ (Continues /\ route' # route)
    /\ OpensPage(requests)
    /\ turned' = ~NothingUnderWay

StayOnPage ==
    /\ Continues /\ route' = route
    /\ UNCHANGED visitVars
-----------------------------------------------------------------------------
OnPage == route = "schedule" /\ loaded

Succeeded(r) == requests[r].stage = "ok"

\* A request is over.
Answered(r) == requests' = [requests EXCEPT ![r] = None]

Answer(r, kind) ==
    /\ route = "schedule"
    /\ requests[r].kind = kind /\ requests[r].stage \in {"ok", "failed"}
    /\ Answered(r)

\* An answer that finds no schedule page.
Dropped(r) ==
    /\ route # "schedule"
    /\ requests[r].stage \in {"ok", "failed"}
    /\ Answered(r)

Serve(r, stage, value) ==
    requests' = [requests EXCEPT ![r].stage = stage, ![r].value = value]

\* No network, a refusal, or no time.
Fails(r) ==
    /\ requests[r] # None /\ requests[r].stage = "sent"
    /\ Serve(r, "failed", 0)
=============================================================================
