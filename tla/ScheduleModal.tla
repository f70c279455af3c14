---------------------------- MODULE ScheduleModal ----------------------------
(***************************************************************************)
(* How a schedule is bought on the page: the modal asks for a validation,  *)
(* shows its answer for review, and sends computeSchedule.  Of the         *)
(* pipelines only the answers and the credits matter here.                 *)
(***************************************************************************)
EXTENDS PageVisits

CONSTANTS
    MaxCredits,    \* bound: the credits that a user comes to have elsewhere; and no
                   \* review is opened by a page that shows so many less than none
    MaxUnspent     \* bound: no review is opened with so many others unspent

ASSUME CreditsAssumption == MaxCredits \in Nat /\ MaxUnspent \in Nat

VARIABLES
    modal,        \* "review" has the button Schedule; "closed" stands for other modals, too
    pageCredits,
    credits,      \* the users' credits in the table
    unspent,      \* history: reviews asked for, less the schedules asked for
    drifted,      \* history: did credits change past this page?
    failed        \* history: was this page told that a schedule failed?

modalVars == <<modal, pageCredits, credits, unspent, drifted, failed>>
vars == <<sessionVars, visitVars, modalVars>>

Modals == {"closed", "loading", "review", "refused", "blank"}
Kinds == {"load", "validate", "compute"}
Stages == {"sent", "admitted", "ok", "failed"}
-----------------------------------------------------------------------------
Init ==
    /\ VisitsInit
    /\ modal = "closed" /\ pageCredits = 0
    /\ credits \in [Users -> 0 .. MaxCredits]
    /\ unspent = 0 /\ drifted = FALSE /\ failed = FALSE

NewPage ==
    /\ modal' = "closed"
    /\ pageCredits' = 0
    /\ drifted' = FALSE
    /\ failed' = FALSE
    /\ UNCHANGED credits

\* A computeSchedule left behind by a load is one of Elsewhere.
SessionStep ==
    \/ LoadProgram({}) /\ NewPage /\ unspent' = 0
    \/ TurnPage /\ NewPage /\ UNCHANGED unspent
    \/ StayOnPage /\ UNCHANGED modalVars
-----------------------------------------------------------------------------
\* No modal lies over the button.
BeginScheduleRequest ==
    /\ OnPage /\ modal = "closed"
    /\ unspent < MaxUnspent /\ pageCredits > 0 - MaxCredits
    /\ Send("validate", 0)
    /\ modal' = "loading"
    /\ unspent' = unspent + 1
    /\ UNCHANGED <<pageCredits, credits, drifted, failed>>

\* Mutant: the review stays open, with its button.
ReviewStays == modal

ModalAfterSchedule == "loading"

RequestSchedule ==
    /\ route = "schedule" /\ modal = "review"
    /\ Send("compute", 0)
    /\ modal' = ModalAfterSchedule
    /\ unspent' = unspent - 1
    /\ UNCHANGED <<pageCredits, credits, drifted, failed>>

\* The modal's background.
CloseModal ==
    /\ route = "schedule" /\ modal # "closed"
    /\ modal' = "closed"
    /\ UNCHANGED <<requests, pageCredits, credits, unspent, drifted, failed>>

InitialDataLoaded(r) ==
    /\ Answer(r, "load")
    /\ IF Succeeded(r) THEN loaded' = TRUE /\ pageCredits' = requests[r].value
                       ELSE UNCHANGED <<loaded, pageCredits>>
    /\ UNCHANGED <<modal, credits, unspent, drifted, failed>>

ValidationResponse(r) ==
    /\ Answer(r, "validate")
    /\ modal' = IF modal = "closed" THEN modal
                ELSE IF ~Succeeded(r) THEN "blank"
                ELSE IF requests[r].value = 0 THEN "review" ELSE "refused"
    /\ UNCHANGED <<pageCredits, credits, unspent, drifted, failed>>

\* Mutant: a schedule that failed is counted, too.
CountsAny(r) == pageCredits - 1

CreditsAfter(r) == IF Succeeded(r) THEN pageCredits - 1 ELSE pageCredits

\* An error leaves the modal as it is.
ScheduleResponse(r) ==
    /\ Answer(r, "compute")
    /\ pageCredits' = CreditsAfter(r)
    /\ modal' = IF Succeeded(r) THEN "closed" ELSE modal
    /\ failed' = (failed \/ ~Succeeded(r))
    /\ UNCHANGED <<credits, unspent, drifted>>
-----------------------------------------------------------------------------
\* The queries.
ServeQuery(r) ==
    /\ requests[r].stage = "sent"
    /\ \/ requests[r].kind = "load" /\ Serve(r, "ok", credits[requests[r].who])
       \/ requests[r].kind = "validate" /\ \E error \in {0, 1} : Serve(r, "ok", error)
    /\ UNCHANGED modalVars

\* GetAvailabilityInformation compares the credits.
Admit(r) ==
    /\ requests[r].kind = "compute" /\ requests[r].stage = "sent"
    /\ credits[requests[r].who] >= 1
    /\ Serve(r, "admitted", 0)
    /\ UNCHANGED modalVars

\* DeductCreditsFunction, which may fail and answers all the same; and the answer
\* may be lost.
Compute(r) ==
    /\ requests[r].stage = "admitted"
    /\ \E taken \in {0, 1}, stage \in {"ok", "failed"} :
          /\ Serve(r, stage, 0)
          /\ credits' = [credits EXCEPT ![requests[r].who] = @ - taken]
          /\ drifted' = (drifted \/ (route = "schedule" /\ (taken = 1) # (stage = "ok")))
    /\ UNCHANGED <<modal, pageCredits, unspent, failed>>

\* The webhook, or another tab of the same user.
Elsewhere ==
    /\ \E u \in Users, n \in 0 .. MaxCredits : credits' = [credits EXCEPT ![u] = n]
    /\ drifted' = (route = "schedule")
    /\ UNCHANGED <<modal, requests, pageCredits, unspent, failed>>

Receives(r) == ValidationResponse(r) \/ ScheduleResponse(r)

Proceeds(r) == \/ (Dropped(r) \/ Fails(r)) /\ UNCHANGED modalVars
               \/ ServeQuery(r)
               \/ Admit(r)
               \/ Compute(r)

PageStep ==
    \/ \E r \in Requests : InitialDataLoaded(r)
    \/ /\ \/ BeginScheduleRequest
          \/ RequestSchedule
          \/ CloseModal
          \/ \E r \in Requests : Receives(r) \/ Proceeds(r)
          \/ Elsewhere
       /\ UNCHANGED loaded

Next ==
    \/ SessionStep
    \/ UNCHANGED <<sessionVars, turned>> /\ PageStep

Spec == Init /\ [][Next]_vars
-----------------------------------------------------------------------------
\* Types.
TypeOK ==
    /\ SessionTypeOK
    /\ loaded \in BOOLEAN /\ turned \in BOOLEAN
    /\ requests \in [Requests -> Request(Kinds, Stages, Int)]
    /\ modal \in Modals
    /\ pageCredits \in Int
    /\ credits \in [Users -> Int]
    /\ unspent \in Int
    /\ drifted \in BOOLEAN /\ failed \in BOOLEAN

\* No review buys two schedules: for every schedule that is asked for, and for every
\* button that may ask for one or come to be shown, a review was asked for, though a
\* validation's answer opens whichever review is awaited, and an earlier page's too.
EachReviewBuysOnce ==
    Cardinality(UnderWay({"validate"})) + (IF modal = "review" THEN 1 ELSE 0) <= unspent

\* A page that was opened with nothing under way shows its user's credits once no
\* schedule of its own is under way, unless credits changed past it or logins crossed.
CreditsAsShown ==
    loaded /\ ~turned /\ ~drifted /\ ~crossed /\ UnderWay({"compute"}) = {} =>
        pageCredits = credits[user]

\* While the modal loads something is under way, unless a schedule has failed: that
\* answer leaves it loading.
LoadingEnds == modal = "loading" => UnderWay({"validate", "compute"}) # {} \/ failed
=============================================================================
