------------------------------- MODULE Session -------------------------------
(***************************************************************************)
(* Who is logged in, as one tab of the browser knows it.  Amplify keeps    *)
(* the session in the browser's storage and reaches it asynchronously; the *)
(* Elm program keeps a user and a token of its own, which it learns from   *)
(* the answers that the ports of index.ts send.  An answer names nobody:   *)
(* it is taken for the user who is logged in when it arrives, or dropped   *)
(* if the page that listens to its port has been left.                     *)
(***************************************************************************)
EXTENDS Naturals, FiniteSets

CONSTANTS
    Users,
    NoUser,
    Calls,        \* slots: the calls to Amplify that can be under way at a time
    MaxTimers     \* bound: with so many timers and calls nobody logs in, and nothing else
                  \* starts a timer

ASSUME UsersAssumption == NoUser \notin Users
ASSUME CallsAssumption == IsFiniteSet(Calls)
ASSUME TimersAssumption == MaxTimers \in Nat \ {0}

VARIABLES
    cognito,     \* whose session Amplify keeps
    user,        \* shared.user
    jwt,         \* whose token shared.user.jwt is
    route,       \* the page; "open" stands for those that need no user
    timers,      \* how many delayUntilTimestamp run
    calls,
    crossed,     \* history: did a login or logout overlap with another call?
    strayed,     \* history: did the program miss whom Amplify has logged in or not?
    refused      \* history: has a renewal been refused, and no timer been started since?

sessionVars ==
    <<cognito, user, jwt, route, timers, calls, crossed, strayed, refused>>

Someone == Users \cup {NoUser}

Idle == [op |-> "idle", stage |-> "sent", who |-> NoUser, token |-> NoUser]

Call == [op : {"idle", "signIn", "signOut", "refresh"}, stage : {"sent", "done", "ok", "failed"},
         who : Someone, token : Someone]

Asks(op, who) == [op |-> op, stage |-> "sent", who |-> who, token |-> NoUser]
Busy == \E c \in Calls : calls[c].op # "idle"
IdentityBusy == \E c \in Calls : calls[c].op \in {"signIn", "signOut"}
Refreshing == \E c \in Calls : calls[c].op = "refresh"
Room == timers + Cardinality({c \in Calls : calls[c] # Idle}) < MaxTimers

Begin(c, op, who) ==
    /\ calls[c] = Idle
    /\ calls' = [calls EXCEPT ![c] = Asks(op, who)]

Settle(c, op) ==
    /\ calls[c].op = op
    /\ calls' = [calls EXCEPT ![c] = Idle]

\* The protected page needs a user; the login page sends a user on.
Opened(r, u) ==
    IF r = "schedule" /\ u = NoUser THEN "open"
    ELSE IF r = "login" /\ u # NoUser THEN "schedule" ELSE r

\* delayUntilTimestamp for the expiration of a token, if there is one.
TimersFor(u) == IF u = NoUser THEN 0 ELSE 1
-----------------------------------------------------------------------------
SessionInit ==
    /\ cognito \in Someone
    /\ user = cognito
    /\ jwt = cognito
    /\ route = Opened("schedule", cognito)
    /\ timers = TimersFor(cognito)
    /\ calls = [c \in Calls |-> Idle]
    /\ crossed = FALSE
    /\ strayed = FALSE
    /\ refused = FALSE

\* The browser loads the program, at any address.  What was under way is gone; a
\* session that cannot be read counts as none.
LoadAs(who) ==
    /\ cognito' = who
    /\ user' \in {who, NoUser}
    /\ jwt' = user'
    /\ \E r \in {"login", "schedule", "open"} : route' = Opened(r, user')
    /\ timers' = TimersFor(user')
    /\ calls' = [c \in Calls |-> Idle]
    /\ crossed' = FALSE
    /\ strayed' = (user' # who)
    /\ refused' = FALSE

Load == LoadAs(cognito)

\* Google's page returns to the program, which is loaded anew.
LoginWithGoogle ==
    /\ route = "login"
    /\ \E u \in Users : LoadAs(u)

\* A link, or the browser's back button.
Visit(r) ==
    /\ r # route
    /\ route' = Opened(r, user)
    /\ UNCHANGED <<cognito, user, jwt, timers, calls, crossed, strayed, refused>>

\* By password or, with the code, by SignUpConfirmRequest.  Nothing keeps the
\* button from being used again.
LoginRequest(c, u) ==
    /\ route = "login" /\ Room
    /\ Begin(c, "signIn", u)
    /\ crossed' = Busy
    /\ strayed' = (strayed \/ crossed)
    /\ UNCHANGED <<cognito, user, jwt, route, timers, refused>>

\* Auth.signIn resolves.
Authenticated(c) ==
    /\ calls[c].op = "signIn" /\ calls[c].stage = "sent"
    /\ cognito' = calls[c].who
    /\ calls' = [calls EXCEPT ![c].stage = "done"]
    /\ UNCHANGED <<user, jwt, route, timers, crossed, strayed, refused>>

\* Auth.currentSession resolves, with the token of whoever is logged in by then.
ReadSession(c) ==
    /\ \/ calls[c].op = "signIn" /\ calls[c].stage = "done"
       \/ calls[c].op = "refresh" /\ calls[c].stage = "sent"
    /\ cognito # NoUser
    /\ calls' = [calls EXCEPT ![c].stage = "ok", ![c].token = cognito]
    /\ UNCHANGED <<cognito, user, jwt, route, timers, crossed, strayed, refused>>

\* signInOk: LogInUser, if the login page is still there to hear of it.
LogInUser(c) ==
    /\ calls[c].stage = "ok"
    /\ Settle(c, "signIn")
    /\ IF route = "login"
       THEN /\ user' = calls[c].who
            /\ jwt' = calls[c].token
            /\ route' = "schedule"
            /\ timers' = timers + TimersFor(user')
            /\ strayed' = FALSE
            /\ refused' = FALSE
       ELSE strayed' = TRUE /\ UNCHANGED <<user, jwt, route, timers, refused>>
    /\ UNCHANGED <<cognito, crossed>>

\* signInErr: the password is wrong, or there is no session to be read.
LoginErr(c) ==
    /\ calls[c].stage \in {"sent", "done"}
    /\ Settle(c, "signIn")
    /\ strayed' = (strayed \/ calls[c].stage = "done")
    /\ UNCHANGED <<cognito, user, jwt, route, timers, crossed, refused>>

\* Mutant: the user is forgotten only when the answer has come.
UserStays == user

UserAfterLogout == NoUser

\* The button is there while there is a user.
Logout(c) ==
    /\ user # NoUser
    /\ Begin(c, "signOut", user)
    /\ user' = UserAfterLogout
    /\ jwt' = user'
    /\ route' = Opened(route, user')
    /\ crossed' = (crossed \/ Busy)
    /\ UNCHANGED <<cognito, timers, strayed, refused>>

\* Auth.signOut resolves, whoever is logged in by then.
SignedOut(c) ==
    /\ calls[c].op = "signOut" /\ calls[c].stage = "sent"
    /\ cognito' = NoUser
    /\ calls' = [calls EXCEPT ![c].stage = "ok"]
    /\ UNCHANGED <<user, jwt, route, timers, crossed, strayed, refused>>

\* A user who is there by then is forgotten, and the protected page's redirection
\* is under way along with the one to the login page.
SignOutOk(c) ==
    /\ calls[c].stage = "ok"
    /\ Settle(c, "signOut")
    /\ user' = NoUser
    /\ jwt' = NoUser
    /\ route' \in {"login", Opened(route, NoUser)}
    /\ route = "schedule" \/ route' = "login"
    /\ UNCHANGED <<cognito, timers, crossed, strayed, refused>>

SignOutErr(c) ==
    /\ calls[c].stage = "sent"
    /\ Settle(c, "signOut")
    /\ strayed' = TRUE
    /\ UNCHANGED <<cognito, user, jwt, route, timers, crossed, refused>>

\* RequestRefreshToken, whether there is a user or not.
RequestRefreshToken(c) ==
    /\ timers > 0
    /\ timers' = timers - 1
    /\ Begin(c, "refresh", NoUser)
    /\ crossed' = (crossed \/ IdentityBusy)
    /\ UNCHANGED <<cognito, user, jwt, route, strayed, refused>>

\* Mutant: a timer is started for the first token only.
NoNewTimer == 0

NextTimer == 1

RefreshToken(c) ==
    /\ calls[c].stage = "ok"
    /\ Settle(c, "refresh")
    /\ IF user # NoUser
       THEN /\ jwt' = calls[c].token
            /\ timers' = timers + NextTimer
            /\ refused' = FALSE
       ELSE UNCHANGED <<jwt, timers, refused>>
    /\ UNCHANGED <<cognito, user, route, crossed, strayed>>

\* The promise is rejected, and nobody catches it.
RefreshRefused(c) ==
    /\ calls[c].stage = "sent"
    /\ Settle(c, "refresh")
    /\ refused' = TRUE
    /\ UNCHANGED <<cognito, user, jwt, route, timers, crossed, strayed>>

\* One more timer, beside those that run.
VisibilityChanged ==
    /\ user # NoUser /\ Room
    /\ timers' = timers + 1
    /\ refused' = FALSE
    /\ UNCHANGED <<cognito, user, jwt, route, calls, crossed, strayed>>

Settles(c) ==
    \/ Authenticated(c)
    \/ ReadSession(c)
    \/ LogInUser(c)
    \/ LoginErr(c)
    \/ SignedOut(c)
    \/ SignOutOk(c)
    \/ SignOutErr(c)
    \/ RefreshToken(c)
    \/ RefreshRefused(c)

\* A load leaves nothing of the program, a visit nothing of the page.
Loads == Load \/ LoginWithGoogle

Visits == \E r \in {"login", "schedule", "open"} : Visit(r)

Continues ==
    \/ \E c \in Calls : \/ \E u \in Users : LoginRequest(c, u)
                        \/ Logout(c)
                        \/ RequestRefreshToken(c)
                        \/ Settles(c)
    \/ VisibilityChanged

SessionNext == Loads \/ Visits \/ Continues

\* Timers ring, and Amplify's promises settle.
SessionFairness ==
    /\ WF_sessionVars(\E c \in Calls : RequestRefreshToken(c))
    /\ \A c \in Calls : WF_sessionVars(Settles(c))

SessionSpec == SessionInit /\ [][SessionNext]_sessionVars /\ SessionFairness
-----------------------------------------------------------------------------
\* Types.
SessionTypeOK ==
    /\ {cognito, user, jwt} \subseteq Someone
    /\ {crossed, strayed, refused} \subseteq BOOLEAN
    /\ route \in {"login", "schedule", "open"}
    /\ timers \in Nat
    /\ calls \in [Calls -> Call]

\* Unless a login or a logout overlapped with another call, the user the program
\* shows is the one Amplify has logged in, and sends nobody else's token; and once
\* nothing is under way, the program misses nobody, unless a logout failed or a
\* login's answer was lost.
SessionIsOne ==
    ~crossed =>
        /\ user # NoUser => cognito = user /\ jwt = user
        /\ ~Busy /\ ~strayed => cognito = user

\* While somebody is logged in, a timer or a renewal is under way, until one is
\* refused.
RenewalGoesOn == user # NoUser => timers > 0 \/ Refreshing \/ refused

\* As long as somebody is logged in, the token is renewed again and again, unless a
\* renewal is refused.
TokenIsRenewed == []<>(user = NoUser \/ Refreshing \/ refused)
=============================================================================
