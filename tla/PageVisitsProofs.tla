---------------------------- MODULE PageVisitsProofs ----------------------------
(***************************************************************************)
(* Proofs about the session and what the schedule page does in it: Session *)
(* by itself, then ScheduleModal and AvailableCalendar, which compose it   *)
(* with the visits to the page, for any users, calls, timers, requests,    *)
(* credits and contents.  What the two pages' invariants need of the       *)
(* session (SessionInv, PageHasUser) is proved once; a page's own steps    *)
(* leave it alone.                                                         *)
(***************************************************************************)
EXTENDS ScheduleModal, AvailableCalendar, FiniteSetTheorems, TLAPS

(***************************************************************************)
(* The session.  SessionIsOne speaks of the user and of calls that are not *)
(* there; it holds because of what is known of those that are              *)
(* (OneAtATime): unless calls crossed, a login or a logout is under way    *)
(* alone, and says how Amplify's user and the program's differ.            *)
(***************************************************************************)

\* A login or a logout that is under way is the only call.
Alone ==
    \A c, other \in Calls :
        calls[c].op \in {"signIn", "signOut"} /\ other # c => calls[other].op = "idle"

\* What a call has found out still holds.
AnswersHold ==
    \A c \in Calls :
        /\ calls[c].op = "signIn" /\ calls[c].stage \in {"done", "ok"} => cognito = calls[c].who
        /\ calls[c].op = "signIn" /\ calls[c].stage = "ok" => calls[c].token = calls[c].who
        /\ calls[c].op = "signOut" /\ calls[c].stage = "ok" => cognito = NoUser
        /\ calls[c].op = "refresh" /\ calls[c].stage = "ok" /\ user # NoUser =>
              calls[c].token = cognito

\* Whoever is there is logged in, and on the way to nothing else.
UserLoggedIn == user # NoUser => cognito = user /\ jwt = user /\ ~IdentityBusy

\* A difference has a call that will make up for it.
DifferenceEnds ==
    ~strayed /\ cognito # user =>
        \E c \in Calls : \/ calls[c].op = "signIn" /\ calls[c].stage \in {"done", "ok"}
                         \/ calls[c].op = "signOut" /\ calls[c].stage = "sent"

OneAtATime == ~crossed => Alone /\ AnswersHold /\ UserLoggedIn /\ DifferenceEnds

LoginHasNoUser == route = "login" => user = NoUser

SessionInv == SessionTypeOK /\ LoginHasNoUser /\ OneAtATime /\ RenewalGoesOn
-----------------------------------------------------------------------------
LEMMA CallsTyped ==
    ASSUME SessionTypeOK, NEW c \in Calls
    PROVE  /\ calls[c] \in Call
           /\ calls[c].op \in {"idle", "signIn", "signOut", "refresh"}
           /\ calls[c].stage \in {"sent", "done", "ok", "failed"}
           /\ calls[c].who \in Someone /\ calls[c].token \in Someone
  BY DEF SessionTypeOK, Call

\* What is begun, and what is settled, changes one call only.
LEMMA BeginOne ==
    ASSUME SessionTypeOK, NEW c \in Calls,
           NEW op \in {"signIn", "signOut", "refresh"}, NEW who \in Someone, Begin(c, op, who)
    PROVE  /\ calls' \in [Calls -> Call]
           /\ calls[c].op = "idle" /\ calls'[c] = Asks(op, who)
           /\ calls'[c].op = op /\ calls'[c].stage = "sent"
           /\ \A other \in Calls : other # c => calls'[other] = calls[other]
  <1>1. Asks(op, who) \in Call
    BY DEF Asks, Call, Someone
  <1> QED
    BY <1>1 DEF SessionTypeOK, Begin, Asks, Idle

LEMMA SettleOne ==
    ASSUME SessionTypeOK, NEW c \in Calls, NEW op, Settle(c, op)
    PROVE  /\ calls' \in [Calls -> Call]
           /\ calls[c].op = op /\ calls'[c].op = "idle"
           /\ \A other \in Calls : other # c => calls'[other] = calls[other]
  <1>1. Idle \in Call
    BY DEF Idle, Call, Someone
  <1> QED
    BY <1>1 DEF SessionTypeOK, Settle, Idle
-----------------------------------------------------------------------------
LEMMA InitInv == SessionInit => SessionInv
  <1> SUFFICES ASSUME SessionInit PROVE SessionInv
    OBVIOUS
  <1>1. Idle \in Call /\ Idle.op = "idle"
    BY DEF Idle, Call, Someone
  <1>2. SessionTypeOK
    BY <1>1 DEF SessionInit, SessionTypeOK, Opened, TimersFor, Someone
  <1>3. LoginHasNoUser
    BY DEF SessionInit, LoginHasNoUser, Opened
  <1>4. OneAtATime
    BY <1>1 DEF SessionInit, OneAtATime, Alone, AnswersHold, UserLoggedIn, DifferenceEnds,
                IdentityBusy
  <1>5. RenewalGoesOn
    BY DEF SessionInit, RenewalGoesOn, TimersFor
  <1> QED
    BY <1>2, <1>3, <1>4, <1>5 DEF SessionInv
-----------------------------------------------------------------------------
\* Each step keeps the invariant.
LEMMA LoadKeeps ==
    ASSUME SessionInv, NEW who \in Someone, LoadAs(who)
    PROVE  SessionInv'
  <1>1. Idle \in Call /\ Idle.op = "idle"
    BY DEF Idle, Call, Someone
  <1>2. SessionTypeOK'
    BY <1>1 DEF LoadAs, SessionTypeOK, Opened, TimersFor, Someone
  <1>3. LoginHasNoUser'
    BY DEF LoadAs, LoginHasNoUser, Opened
  <1>4. OneAtATime'
    BY <1>1 DEF LoadAs, OneAtATime, Alone, AnswersHold, UserLoggedIn, DifferenceEnds,
                IdentityBusy
  <1>5. RenewalGoesOn'
    BY DEF LoadAs, RenewalGoesOn, TimersFor
  <1> QED
    BY <1>2, <1>3, <1>4, <1>5 DEF SessionInv

LEMMA VisitKeeps ==
    ASSUME SessionInv, NEW r \in {"login", "schedule", "open"}, Visit(r)
    PROVE  SessionInv'
  <1>1. SessionTypeOK' /\ LoginHasNoUser' /\ RenewalGoesOn'
    BY DEF SessionInv, Visit, SessionTypeOK, LoginHasNoUser, RenewalGoesOn, Opened, Refreshing
  <1>2. OneAtATime'
    BY DEF SessionInv, Visit, OneAtATime, Alone, AnswersHold, UserLoggedIn, DifferenceEnds,
           IdentityBusy
  <1> QED
    BY <1>1, <1>2 DEF SessionInv

LEMMA LoginRequestKeeps ==
    ASSUME SessionInv, NEW c \in Calls, NEW u \in Users, LoginRequest(c, u)
    PROVE  SessionInv'
  <1>1. SessionTypeOK /\ LoginHasNoUser /\ OneAtATime /\ u \in Someone
    BY DEF SessionInv, Someone
  <1>2. /\ calls' \in [Calls -> Call]
        /\ calls[c].op = "idle"
        /\ calls'[c].op = "signIn" /\ calls'[c].stage = "sent"
        /\ \A other \in Calls : other # c => calls'[other] = calls[other]
    BY <1>1, BeginOne DEF LoginRequest
  <1>3. user = NoUser
    BY <1>1 DEF LoginRequest, LoginHasNoUser
  <1>4. SessionTypeOK' /\ LoginHasNoUser' /\ RenewalGoesOn'
    BY <1>1, <1>2, <1>3 DEF LoginRequest, SessionTypeOK, LoginHasNoUser, RenewalGoesOn, Busy
  <1>5. ASSUME ~crossed'
        PROVE  Alone' /\ AnswersHold' /\ UserLoggedIn' /\ DifferenceEnds'
    <2>1. \A other \in Calls : calls[other].op = "idle"
      BY <1>5 DEF LoginRequest, Busy
    <2>2. Alone' /\ AnswersHold' /\ UserLoggedIn'
      BY <1>2, <1>3, <2>1 DEF LoginRequest, Alone, AnswersHold, UserLoggedIn
    <2>3. ~strayed' => cognito = user
      BY <1>1, <2>1 DEF LoginRequest, OneAtATime, DifferenceEnds
    <2> QED
      BY <2>2, <2>3 DEF LoginRequest, DifferenceEnds
  <1> QED
    BY <1>4, <1>5 DEF SessionInv, OneAtATime

LEMMA LogoutKeeps ==
    ASSUME SessionInv, NEW c \in Calls, Logout(c)
    PROVE  SessionInv'
  <1>1. SessionTypeOK /\ OneAtATime /\ user \in Someone
    BY DEF SessionInv, SessionTypeOK
  <1>2. /\ calls' \in [Calls -> Call]
        /\ calls[c].op = "idle"
        /\ calls'[c].op = "signOut" /\ calls'[c].stage = "sent"
        /\ \A other \in Calls : other # c => calls'[other] = calls[other]
    BY <1>1, BeginOne DEF Logout
  <1>3. user' = NoUser
    BY DEF Logout, UserAfterLogout
  <1>4. SessionTypeOK' /\ LoginHasNoUser' /\ RenewalGoesOn'
    BY <1>1, <1>2, <1>3 DEF Logout, SessionTypeOK, LoginHasNoUser, RenewalGoesOn, Busy, Opened,
                            Someone
  <1>5. ASSUME ~crossed'
        PROVE  Alone' /\ AnswersHold' /\ UserLoggedIn' /\ DifferenceEnds'
    <2>1. \A other \in Calls : calls[other].op = "idle"
      BY <1>5 DEF Logout, Busy
    <2> QED
      BY <1>2, <1>3, <2>1 DEF Logout, Alone, AnswersHold, UserLoggedIn, DifferenceEnds
  <1> QED
    BY <1>4, <1>5 DEF SessionInv, OneAtATime

LEMMA RequestRefreshTokenKeeps ==
    ASSUME SessionInv, NEW c \in Calls, RequestRefreshToken(c)
    PROVE  SessionInv'
  <1>1. SessionTypeOK /\ OneAtATime /\ LoginHasNoUser /\ NoUser \in Someone
    BY DEF SessionInv, Someone
  <1>2. /\ calls' \in [Calls -> Call]
        /\ calls[c].op = "idle"
        /\ calls'[c].op = "refresh" /\ calls'[c].stage = "sent"
        /\ \A other \in Calls : other # c => calls'[other] = calls[other]
    BY <1>1, BeginOne DEF RequestRefreshToken
  <1>3. SessionTypeOK' /\ LoginHasNoUser' /\ RenewalGoesOn'
    BY <1>1, <1>2 DEF RequestRefreshToken, SessionTypeOK, LoginHasNoUser, RenewalGoesOn,
                      IdentityBusy, Refreshing
  <1>4. ASSUME ~crossed'
        PROVE  Alone' /\ AnswersHold' /\ UserLoggedIn' /\ DifferenceEnds'
    <2>1. ~crossed /\ \A other \in Calls : calls[other].op \notin {"signIn", "signOut"}
      BY <1>4 DEF RequestRefreshToken, IdentityBusy
    <2> QED
      BY <1>1, <1>2, <2>1 DEF RequestRefreshToken, OneAtATime, Alone, AnswersHold, UserLoggedIn,
                              DifferenceEnds, IdentityBusy
  <1> QED
    BY <1>3, <1>4 DEF SessionInv, OneAtATime
-----------------------------------------------------------------------------
LEMMA AuthenticatedKeeps ==
    ASSUME SessionInv, NEW c \in Calls, Authenticated(c)
    PROVE  SessionInv'
  <1>1. SessionTypeOK /\ OneAtATime /\ calls[c] \in Call /\ calls[c].who \in Someone
    BY CallsTyped DEF SessionInv
  <1>2. /\ calls' \in [Calls -> Call]
        /\ calls'[c].op = "signIn" /\ calls'[c].stage = "done" /\ calls'[c].who = calls[c].who
        /\ \A other \in Calls : other # c => calls'[other] = calls[other]
    BY <1>1 DEF Authenticated, SessionTypeOK, Call
  <1>3. SessionTypeOK' /\ LoginHasNoUser' /\ RenewalGoesOn'
    BY <1>1, <1>2 DEF SessionInv, Authenticated, SessionTypeOK, LoginHasNoUser, RenewalGoesOn,
                      Refreshing
  <1>4. ASSUME ~crossed'
        PROVE  Alone' /\ AnswersHold' /\ UserLoggedIn' /\ DifferenceEnds'
    <2>1. /\ user = NoUser
          /\ \A other \in Calls : other # c => calls[other].op = "idle"
      BY <1>1, <1>4 DEF Authenticated, OneAtATime, Alone, UserLoggedIn, IdentityBusy
    <2> QED
      BY <1>2, <2>1 DEF Authenticated, Alone, AnswersHold, UserLoggedIn, DifferenceEnds
  <1> QED
    BY <1>3, <1>4 DEF SessionInv, OneAtATime

LEMMA ReadSessionKeeps ==
    ASSUME SessionInv, NEW c \in Calls, ReadSession(c)
    PROVE  SessionInv'
  <1>1. SessionTypeOK /\ OneAtATime /\ calls[c] \in Call /\ cognito \in Someone
    BY CallsTyped DEF SessionInv, SessionTypeOK
  <1>2. /\ calls' \in [Calls -> Call]
        /\ calls'[c].op = calls[c].op /\ calls'[c].stage = "ok" /\ calls'[c].who = calls[c].who
        /\ calls'[c].token = cognito
        /\ \A other \in Calls : other # c => calls'[other] = calls[other]
    BY <1>1 DEF ReadSession, SessionTypeOK, Call
  <1>3. \A other \in Calls : calls'[other].op = calls[other].op
    BY <1>2
  <1>4. SessionTypeOK' /\ LoginHasNoUser' /\ RenewalGoesOn'
    BY <1>1, <1>2, <1>3 DEF SessionInv, ReadSession, SessionTypeOK, LoginHasNoUser,
                            RenewalGoesOn, Refreshing
  <1>5. ASSUME ~crossed'
        PROVE  Alone' /\ AnswersHold' /\ UserLoggedIn' /\ DifferenceEnds'
    <2>1. Alone /\ AnswersHold /\ UserLoggedIn /\ DifferenceEnds
      BY <1>1, <1>5 DEF ReadSession, OneAtATime
    <2>2. Alone' /\ UserLoggedIn'
      BY <1>3, <2>1 DEF ReadSession, Alone, UserLoggedIn, IdentityBusy
    <2>3. AnswersHold'
      BY <1>2, <2>1 DEF ReadSession, AnswersHold
    <2>4. DifferenceEnds'
      BY <1>2, <2>1 DEF ReadSession, DifferenceEnds
    <2> QED
      BY <2>2, <2>3, <2>4
  <1> QED
    BY <1>4, <1>5 DEF SessionInv, OneAtATime

LEMMA SignedOutKeeps ==
    ASSUME SessionInv, NEW c \in Calls, SignedOut(c)
    PROVE  SessionInv'
  <1>1. SessionTypeOK /\ OneAtATime /\ calls[c] \in Call
    BY CallsTyped DEF SessionInv
  <1>2. /\ calls' \in [Calls -> Call]
        /\ calls'[c].op = "signOut" /\ calls'[c].stage = "ok"
        /\ \A other \in Calls : other # c => calls'[other] = calls[other]
    BY <1>1 DEF SignedOut, SessionTypeOK, Call
  <1>3. SessionTypeOK' /\ LoginHasNoUser' /\ RenewalGoesOn'
    BY <1>1, <1>2 DEF SessionInv, SignedOut, SessionTypeOK, LoginHasNoUser, RenewalGoesOn,
                      Refreshing, Someone
  <1>4. ASSUME ~crossed'
        PROVE  Alone' /\ AnswersHold' /\ UserLoggedIn' /\ DifferenceEnds'
    <2>1. /\ user = NoUser
          /\ \A other \in Calls : other # c => calls[other].op = "idle"
      BY <1>1, <1>4 DEF SignedOut, OneAtATime, Alone, UserLoggedIn, IdentityBusy
    <2> QED
      BY <1>2, <2>1 DEF SignedOut, Alone, AnswersHold, UserLoggedIn, DifferenceEnds
  <1> QED
    BY <1>3, <1>4 DEF SessionInv, OneAtATime
-----------------------------------------------------------------------------
LEMMA LogInUserKeeps ==
    ASSUME SessionInv, NEW c \in Calls, LogInUser(c)
    PROVE  SessionInv'
  <1>1. /\ SessionTypeOK /\ OneAtATime
        /\ calls[c].who \in Someone /\ calls[c].token \in Someone
    BY CallsTyped DEF SessionInv
  <1>2. /\ calls' \in [Calls -> Call]
        /\ calls[c].op = "signIn" /\ calls[c].stage = "ok" /\ calls'[c].op = "idle"
        /\ \A other \in Calls : other # c => calls'[other] = calls[other]
    BY <1>1, SettleOne DEF LogInUser
  <1>3. SessionTypeOK' /\ LoginHasNoUser'
    <2>1. TimersFor(user') \in {0, 1}
      BY DEF TimersFor
    <2>2. /\ cognito' = cognito /\ crossed' = crossed
          /\ user' \in {user, calls[c].who} /\ jwt' \in {jwt, calls[c].token}
          /\ timers' \in {timers, timers + TimersFor(user')}
          /\ strayed' \in BOOLEAN /\ refused' \in {refused, FALSE}
          /\ \/ route' = "schedule"
             \/ route' = route /\ route # "login"
      BY DEF LogInUser
    <2>3. timers' \in Nat
      BY <1>1, <2>1, <2>2 DEF SessionTypeOK
    <2>4. {user', jwt'} \subseteq Someone
      BY <1>1, <2>2 DEF SessionTypeOK
    <2> QED
      BY <1>1, <1>2, <2>2, <2>3, <2>4 DEF SessionTypeOK, LoginHasNoUser
  <1>4. RenewalGoesOn'
    BY <1>1, <1>2 DEF SessionInv, LogInUser, SessionTypeOK, RenewalGoesOn, TimersFor, Refreshing
  <1>5. ASSUME ~crossed'
        PROVE  Alone' /\ AnswersHold' /\ UserLoggedIn' /\ DifferenceEnds'
    <2>1. /\ user = NoUser /\ cognito = calls[c].who /\ calls[c].token = calls[c].who
          /\ \A other \in Calls : other # c => calls[other].op = "idle"
      BY <1>1, <1>2, <1>5 DEF LogInUser, OneAtATime, Alone, AnswersHold, UserLoggedIn,
                              IdentityBusy
    <2>2. \A other \in Calls : calls'[other].op = "idle"
      BY <1>2, <2>1
    <2> QED
      BY <2>1, <2>2 DEF LogInUser, Alone, AnswersHold, UserLoggedIn, DifferenceEnds,
                        IdentityBusy
  <1> QED
    BY <1>3, <1>4, <1>5 DEF SessionInv, OneAtATime

LEMMA LoginErrKeeps ==
    ASSUME SessionInv, NEW c \in Calls, LoginErr(c)
    PROVE  SessionInv'
  <1>1. SessionTypeOK /\ OneAtATime
    BY DEF SessionInv
  <1>2. /\ calls' \in [Calls -> Call]
        /\ calls[c].op = "signIn" /\ calls'[c].op = "idle"
        /\ \A other \in Calls : other # c => calls'[other] = calls[other]
    BY <1>1, SettleOne DEF LoginErr
  <1>3. SessionTypeOK' /\ LoginHasNoUser' /\ RenewalGoesOn'
    BY <1>1, <1>2 DEF SessionInv, LoginErr, SessionTypeOK, LoginHasNoUser, RenewalGoesOn,
                      Refreshing
  <1>4. ASSUME ~crossed'
        PROVE  Alone' /\ AnswersHold' /\ UserLoggedIn' /\ DifferenceEnds'
    <2>1. /\ user = NoUser
          /\ \A other \in Calls : other # c => calls[other].op = "idle"
      BY <1>1, <1>2, <1>4 DEF LoginErr, OneAtATime, Alone, UserLoggedIn, IdentityBusy
    <2>2. ~strayed' => cognito = user
      BY <1>1, <1>2, <1>4, <2>1 DEF LoginErr, OneAtATime, DifferenceEnds
    <2> QED
      BY <1>2, <2>1, <2>2 DEF LoginErr, Alone, AnswersHold, UserLoggedIn, DifferenceEnds
  <1> QED
    BY <1>3, <1>4 DEF SessionInv, OneAtATime

LEMMA SignOutOkKeeps ==
    ASSUME SessionInv, NEW c \in Calls, SignOutOk(c)
    PROVE  SessionInv'
  <1>1. SessionTypeOK /\ OneAtATime
    BY DEF SessionInv
  <1>2. /\ calls' \in [Calls -> Call]
        /\ calls[c].op = "signOut" /\ calls'[c].op = "idle"
        /\ \A other \in Calls : other # c => calls'[other] = calls[other]
    BY <1>1, SettleOne DEF SignOutOk
  <1>3. SessionTypeOK' /\ LoginHasNoUser' /\ RenewalGoesOn'
    <2>1. user' = NoUser /\ jwt' = NoUser /\ NoUser \in Someone
      BY DEF SignOutOk, Someone
    <2>2. Opened(route, NoUser) \in {"open", route}
      BY DEF Opened
    <2>3. /\ cognito' = cognito /\ timers' = timers /\ crossed' = crossed
          /\ strayed' = strayed /\ refused' = refused
          /\ route' \in {"login", "schedule", "open"}
      BY <1>1, <2>2 DEF SignOutOk, SessionTypeOK
    <2> QED
      BY <1>1, <1>2, <2>1, <2>3 DEF SessionTypeOK, LoginHasNoUser, RenewalGoesOn
  <1>4. ASSUME ~crossed'
        PROVE  Alone' /\ AnswersHold' /\ UserLoggedIn' /\ DifferenceEnds'
    <2>1. /\ cognito = NoUser
          /\ \A other \in Calls : other # c => calls[other].op = "idle"
      BY <1>1, <1>2, <1>4 DEF SignOutOk, OneAtATime, Alone, AnswersHold
    <2> QED
      BY <1>2, <2>1 DEF SignOutOk, Alone, AnswersHold, UserLoggedIn, DifferenceEnds
  <1> QED
    BY <1>3, <1>4 DEF SessionInv, OneAtATime

LEMMA SignOutErrKeeps ==
    ASSUME SessionInv, NEW c \in Calls, SignOutErr(c)
    PROVE  SessionInv'
  <1>1. SessionTypeOK /\ OneAtATime
    BY DEF SessionInv
  <1>2. /\ calls' \in [Calls -> Call]
        /\ calls[c].op = "signOut" /\ calls'[c].op = "idle"
        /\ \A other \in Calls : other # c => calls'[other] = calls[other]
    BY <1>1, SettleOne DEF SignOutErr
  <1>3. SessionTypeOK' /\ LoginHasNoUser' /\ RenewalGoesOn'
    BY <1>1, <1>2 DEF SessionInv, SignOutErr, SessionTypeOK, LoginHasNoUser, RenewalGoesOn,
                      Refreshing
  <1>4. ASSUME ~crossed'
        PROVE  Alone' /\ AnswersHold' /\ UserLoggedIn' /\ DifferenceEnds'
    <2>1. /\ user = NoUser
          /\ \A other \in Calls : other # c => calls[other].op = "idle"
      BY <1>1, <1>2, <1>4 DEF SignOutErr, OneAtATime, Alone, UserLoggedIn, IdentityBusy
    <2> QED
      BY <1>2, <2>1 DEF SignOutErr, Alone, AnswersHold, UserLoggedIn, DifferenceEnds
  <1> QED
    BY <1>3, <1>4 DEF SessionInv, OneAtATime

LEMMA RefreshKeeps ==
    ASSUME SessionInv, NEW c \in Calls, RefreshToken(c) \/ RefreshRefused(c)
    PROVE  SessionInv'
  <1>1. SessionTypeOK /\ OneAtATime /\ calls[c].token \in Someone
    BY CallsTyped DEF SessionInv
  <1>2. /\ calls' \in [Calls -> Call]
        /\ calls[c].op = "refresh" /\ calls'[c].op = "idle"
        /\ \A other \in Calls : other # c => calls'[other] = calls[other]
    BY <1>1, SettleOne DEF RefreshToken, RefreshRefused
  <1>3. SessionTypeOK' /\ LoginHasNoUser'
    <2>1. /\ cognito' = cognito /\ user' = user /\ route' = route
          /\ crossed' = crossed /\ strayed' = strayed
          /\ jwt' \in {jwt, calls[c].token} /\ timers' \in {timers, timers + 1}
          /\ refused' \in {refused, TRUE, FALSE}
      BY DEF RefreshToken, RefreshRefused, NextTimer
    <2>2. timers' \in Nat /\ jwt' \in Someone
      BY <1>1, <2>1 DEF SessionTypeOK
    <2>3. refused' \in BOOLEAN
      BY <1>1, <2>1 DEF SessionTypeOK
    <2>4. SessionTypeOK'
      BY <1>1, <1>2, <2>1, <2>2, <2>3 DEF SessionTypeOK
    <2> QED
      BY <2>1, <2>4 DEF SessionInv, LoginHasNoUser
  <1>4. RenewalGoesOn'
    BY <1>1 DEF RefreshToken, RefreshRefused, RenewalGoesOn, NextTimer, SessionTypeOK
  <1>5. ASSUME ~crossed'
        PROVE  Alone' /\ AnswersHold' /\ UserLoggedIn' /\ DifferenceEnds'
    <2>1. Alone /\ AnswersHold /\ UserLoggedIn /\ DifferenceEnds
      BY <1>1, <1>5 DEF RefreshToken, RefreshRefused, OneAtATime
    <2>2. cognito' = cognito /\ user' = user /\ strayed' = strayed
      BY DEF RefreshToken, RefreshRefused
    <2>3. Alone' /\ AnswersHold' /\ DifferenceEnds'
      BY <1>2, <2>1, <2>2 DEF Alone, AnswersHold, DifferenceEnds
    <2>4. user # NoUser => jwt' = user
      BY <1>2, <2>1 DEF RefreshToken, RefreshRefused, AnswersHold, UserLoggedIn
    <2>5. UserLoggedIn'
      BY <1>2, <2>1, <2>2, <2>4 DEF UserLoggedIn, IdentityBusy
    <2> QED
      BY <2>3, <2>5
  <1> QED
    BY <1>3, <1>4, <1>5 DEF SessionInv, OneAtATime

LEMMA VisibilityChangedKeeps ==
    ASSUME SessionInv, VisibilityChanged
    PROVE  SessionInv'
  <1>1. SessionTypeOK' /\ LoginHasNoUser' /\ RenewalGoesOn'
    <2>1. timers \in Nat /\ timers' = timers + 1
      BY DEF SessionInv, SessionTypeOK, VisibilityChanged
    <2>2. timers' \in Nat /\ timers' > 0
      BY <2>1
    <2>3. SessionTypeOK'
      BY <2>2 DEF SessionInv, VisibilityChanged, SessionTypeOK
    <2>4. LoginHasNoUser'
      BY DEF SessionInv, VisibilityChanged, LoginHasNoUser
    <2> QED
      BY <2>2, <2>3, <2>4 DEF RenewalGoesOn
  <1>2. OneAtATime'
    BY DEF SessionInv, VisibilityChanged, OneAtATime, Alone, AnswersHold, UserLoggedIn,
           DifferenceEnds, IdentityBusy
  <1> QED
    BY <1>1, <1>2 DEF SessionInv

LEMMA SettlesKeeps ==
    ASSUME SessionInv, NEW c \in Calls, Settles(c)
    PROVE  SessionInv'
  BY AuthenticatedKeeps, ReadSessionKeeps, LogInUserKeeps, LoginErrKeeps, SignedOutKeeps,
     SignOutOkKeeps, SignOutErrKeeps, RefreshKeeps
     DEF Settles

LEMMA NextKeeps == SessionInv /\ [SessionNext]_sessionVars => SessionInv'
  <1> SUFFICES ASSUME SessionInv, [SessionNext]_sessionVars PROVE SessionInv'
    OBVIOUS
  <1>1. CASE Loads
    <2>1. cognito \in Someone
      BY DEF SessionInv, SessionTypeOK
    <2> QED
      BY <1>1, <2>1, LoadKeeps DEF Loads, Load, LoginWithGoogle, Someone
  <1>2. CASE Visits
    BY <1>2, VisitKeeps DEF Visits
  <1>3. CASE Continues
    BY <1>3, LoginRequestKeeps, LogoutKeeps, RequestRefreshTokenKeeps, SettlesKeeps,
       VisibilityChangedKeeps
       DEF Continues
  <1>4. CASE UNCHANGED sessionVars
    BY <1>4 DEF sessionVars, SessionInv, SessionTypeOK, LoginHasNoUser, OneAtATime, Alone,
                AnswersHold, UserLoggedIn, DifferenceEnds, IdentityBusy, RenewalGoesOn, Refreshing
  <1> QED
    BY <1>1, <1>2, <1>3, <1>4 DEF SessionNext
-----------------------------------------------------------------------------
\* Whoever opens the schedule page is somebody, and so is whose token is sent.
PageHasUser ==
    /\ route = "schedule" => user # NoUser
    /\ user # NoUser => jwt # NoUser
    /\ \A c \in Calls : /\ calls[c].op = "signIn" => calls[c].who # NoUser
                        /\ calls[c].op \in {"signIn", "refresh"} /\ calls[c].stage = "ok" =>
                              calls[c].token # NoUser

LEMMA InitHasUser == SessionInit => PageHasUser
  BY DEF SessionInit, PageHasUser, Opened, Idle

LEMMA NextHasUser ==
    ASSUME SessionInv, PageHasUser, [SessionNext]_sessionVars
    PROVE  PageHasUser'
  <1>1. SessionTypeOK
    BY DEF SessionInv
  <1>2. CASE Loads
    BY <1>2 DEF Loads, Load, LoginWithGoogle, LoadAs, PageHasUser, Opened, Idle
  <1>3. CASE Visits
    BY <1>3 DEF Visits, Visit, PageHasUser, Opened
  <1>4. ASSUME NEW c \in Calls, NEW u \in Users, LoginRequest(c, u) PROVE PageHasUser'
    <2>1. u \in Someone /\ u # NoUser
      BY UsersAssumption DEF Someone
    <2>2. /\ calls'[c] = Asks("signIn", u)
          /\ \A other \in Calls : other # c => calls'[other] = calls[other]
      BY <1>1, <1>4, <2>1, BeginOne DEF LoginRequest
    <2> QED
      BY <1>4, <2>1, <2>2 DEF LoginRequest, PageHasUser, Asks
  <1>5. ASSUME NEW c \in Calls, Logout(c) PROVE PageHasUser'
    <2>1. /\ calls'[c].op = "signOut"
          /\ \A other \in Calls : other # c => calls'[other] = calls[other]
      BY <1>1, <1>5, BeginOne DEF Logout, SessionTypeOK
    <2> QED
      BY <1>5, <2>1 DEF Logout, PageHasUser, UserAfterLogout, Opened
  <1>6. ASSUME NEW c \in Calls, RequestRefreshToken(c) PROVE PageHasUser'
    <2>1. /\ calls'[c].op = "refresh" /\ calls'[c].stage = "sent"
          /\ \A other \in Calls : other # c => calls'[other] = calls[other]
      BY <1>1, <1>6, BeginOne DEF RequestRefreshToken, Someone
    <2> QED
      BY <1>6, <2>1 DEF RequestRefreshToken, PageHasUser
  <1>7. ASSUME NEW c \in Calls, Authenticated(c) \/ ReadSession(c) \/ SignedOut(c)
        PROVE  PageHasUser'
    BY <1>1, <1>7, CallsTyped
       DEF Authenticated, ReadSession, SignedOut, PageHasUser, SessionTypeOK, Call
  <1>8. ASSUME NEW c \in Calls, LogInUser(c) PROVE PageHasUser'
    <2>1. /\ calls[c].op = "signIn" /\ calls'[c].op = "idle"
          /\ \A other \in Calls : other # c => calls'[other] = calls[other]
      BY <1>1, <1>8, SettleOne DEF LogInUser
    <2> QED
      BY <1>8, <2>1 DEF LogInUser, PageHasUser
  <1>9. ASSUME NEW c \in Calls, SignOutOk(c) PROVE PageHasUser'
    <2>1. /\ calls'[c].op = "idle"
          /\ \A other \in Calls : other # c => calls'[other] = calls[other]
      BY <1>1, <1>9, SettleOne DEF SignOutOk
    <2> QED
      BY <1>9, <2>1 DEF SignOutOk, PageHasUser, Opened
  <1>10. ASSUME NEW c \in Calls, LoginErr(c) \/ SignOutErr(c) \/ RefreshRefused(c)
         PROVE  PageHasUser'
    <2>1. /\ calls'[c].op = "idle"
          /\ \A other \in Calls : other # c => calls'[other] = calls[other]
      BY <1>1, <1>10, SettleOne DEF LoginErr, SignOutErr, RefreshRefused
    <2> QED
      BY <1>10, <2>1 DEF LoginErr, SignOutErr, RefreshRefused, PageHasUser
  <1>11. ASSUME NEW c \in Calls, RefreshToken(c) PROVE PageHasUser'
    <2>1. /\ calls[c].op = "refresh" /\ calls'[c].op = "idle"
          /\ \A other \in Calls : other # c => calls'[other] = calls[other]
      BY <1>1, <1>11, SettleOne DEF RefreshToken
    <2> QED
      BY <1>11, <2>1 DEF RefreshToken, PageHasUser
  <1>12. CASE VisibilityChanged \/ UNCHANGED sessionVars
    BY <1>12 DEF VisibilityChanged, sessionVars, PageHasUser
  <1>13. CASE Continues
    BY <1>4, <1>5, <1>6, <1>7, <1>8, <1>9, <1>10, <1>11, <1>12, <1>13 DEF Continues, Settles
  <1> QED
    BY <1>2, <1>3, <1>12, <1>13 DEF SessionNext
-----------------------------------------------------------------------------
LEMMA InvImplies == SessionInv => SessionTypeOK /\ SessionIsOne /\ RenewalGoesOn
  <1> SUFFICES ASSUME SessionInv PROVE SessionIsOne
    BY DEF SessionInv
  <1>1. ASSUME ~crossed, ~Busy, ~strayed PROVE cognito = user
    <2>1. \A c \in Calls : calls[c].op = "idle"
      BY <1>1 DEF Busy
    <2> QED
      BY <1>1, <2>1 DEF SessionInv, OneAtATime, DifferenceEnds
  <1> QED
    BY <1>1 DEF SessionInv, OneAtATime, UserLoggedIn, SessionIsOne

LEMMA InvHolds == SessionSpec => []SessionInv
  BY InitInv, NextKeeps, PTL DEF SessionSpec

\* The session's variables keep their types, for any number of calls and timers.
THEOREM SessionTypeCorrect == SessionSpec => []SessionTypeOK
  BY InvHolds, InvImplies, PTL

\* Unless identity calls overlapped with others, the program's user is Amplify's, and
\* sends their token; and what was not missed is made up for.
THEOREM ProgramAndAmplifyAgree == SessionSpec => []SessionIsOne
  BY InvHolds, InvImplies, PTL

\* While somebody is logged in the chain of renewals is never broken but by one that
\* is refused: a timer runs, or a renewal is under way.
THEOREM ChainOfRenewals == SessionSpec => []RenewalGoesOn
  BY InvHolds, InvImplies, PTL
-----------------------------------------------------------------------------
(***************************************************************************)
(* Visits to the schedule page, whatever kinds of requests it sends.       *)
(***************************************************************************)
Asked(k) == {r \in Requests : requests[r].kind = k}

\* While the schedule page stays, so does its user, and crossed calls stay crossed.
LEMMA UserStaysOnPage ==
    ASSUME Continues, route' = route, route = "schedule"
    PROVE  user' = user /\ (crossed => crossed')
  <1>1. CASE VisibilityChanged
    BY <1>1 DEF VisibilityChanged
  <1>2. ASSUME NEW c \in Calls, NEW u \in Users, LoginRequest(c, u)
        PROVE  FALSE
    BY <1>2 DEF LoginRequest
  <1>3. ASSUME NEW c \in Calls, Logout(c) \/ SignOutOk(c)
        PROVE  FALSE
    BY <1>3 DEF Logout, UserAfterLogout, Opened, SignOutOk
  <1>4. ASSUME NEW c \in Calls, RequestRefreshToken(c)
        PROVE  user' = user /\ (crossed => crossed')
    BY <1>4 DEF RequestRefreshToken
  <1>5. ASSUME NEW c \in Calls, Authenticated(c) \/ ReadSession(c) \/ LoginErr(c) \/ SignedOut(c)
        PROVE  user' = user /\ (crossed => crossed')
    BY <1>5 DEF Authenticated, ReadSession, LoginErr, SignedOut
  <1>6. ASSUME NEW c \in Calls,
               LogInUser(c) \/ SignOutErr(c) \/ RefreshToken(c) \/ RefreshRefused(c)
        PROVE  user' = user /\ (crossed => crossed')
    BY <1>6 DEF LogInUser, SignOutErr, RefreshToken, RefreshRefused
  <1> QED
    BY <1>1, <1>2, <1>3, <1>4, <1>5, <1>6 DEF Continues, Settles

\* What a request that is sent, answered or served changes.
LEMMA SentAny ==
    ASSUME NEW kinds, NEW stages, NEW values,
           NEW those \in [Requests -> Request(kinds, stages, values)],
           NEW k \in kinds, NEW value \in values, "sent" \in stages, jwt' \in Someone,
           SendAmong(those, k, value)
    PROVE  /\ requests' \in [Requests -> Request(kinds, stages, values)]
           /\ \E r \in Requests :
                 /\ those[r].kind = "none"
                 /\ requests'[r].kind = k /\ requests'[r].who = jwt'
                 /\ requests'[r].value = value /\ requests'[r].stage = "sent"
                 /\ \A s \in Requests : s # r => requests'[s] = those[s]
  <1>1. PICK r \in Requests :
           /\ those[r] = None
           /\ requests' = [those EXCEPT ![r] = [kind |-> k, who |-> jwt', value |-> value,
                                                stage |-> "sent"]]
    BY DEF SendAmong
  <1>2. [kind |-> k, who |-> jwt', value |-> value, stage |-> "sent"]
           \in Request(kinds, stages, values)
    BY DEF Request
  <1>3. requests' \in [Requests -> Request(kinds, stages, values)]
    BY <1>1, <1>2
  <1>4. requests'[r] = [kind |-> k, who |-> jwt', value |-> value, stage |-> "sent"]
    BY <1>1
  <1>5. \A s \in Requests : s # r => requests'[s] = those[s]
    BY <1>1
  <1> QED
    BY <1>1, <1>3, <1>4, <1>5 DEF None

LEMMA AnsweredAny ==
    ASSUME NEW kinds, NEW stages, NEW values,
           requests \in [Requests -> Request(kinds, stages, values)],
           NEW r \in Requests, Answered(r)
    PROVE  /\ requests' \in [Requests -> Request(kinds, stages, values)]
           /\ requests'[r].kind = "none" /\ requests'[r].stage = "sent"
           /\ \A s \in Requests : s # r => requests'[s] = requests[s]
  <1>1. None \in Request(kinds, stages, values)
    BY DEF Request
  <1> QED
    BY <1>1 DEF Answered, None

LEMMA ServedAny ==
    ASSUME NEW kinds, NEW stages, NEW values,
           requests \in [Requests -> Request(kinds, stages, values)],
           NEW r \in Requests, NEW stage \in stages, NEW value \in values,
           requests[r].kind # "none", Serve(r, stage, value)
    PROVE  /\ requests' \in [Requests -> Request(kinds, stages, values)]
           /\ requests'[r].kind = requests[r].kind /\ requests'[r].who = requests[r].who
           /\ requests'[r].stage = stage /\ requests'[r].value = value
           /\ \A s \in Requests : s # r => requests'[s] = requests[s]
  <1>1. requests[r] \in [kind : kinds, who : Someone, value : values, stage : stages]
    BY DEF Request, None
  <1>2. [requests[r] EXCEPT !.stage = stage, !.value = value] \in Request(kinds, stages, values)
    BY <1>1 DEF Request
  <1>3. requests' = [requests EXCEPT ![r] = [requests[r] EXCEPT !.stage = stage, !.value = value]]
    BY DEF Serve
  <1> QED
    BY <1>1, <1>2, <1>3
-----------------------------------------------------------------------------
(***************************************************************************)
(* The modal.  That a review buys once is inductive by itself.  That the   *)
(* credits are as shown is not: it needs to be known whose the requests of *)
(* a page are that was opened with nothing under way, that such a page     *)
(* loads once and asks for schedules only then, and how far the page's     *)
(* credits lag behind the table's, by the schedules that are paid but not  *)
(* yet heard of.                                                           *)
(***************************************************************************)
Paid == {r \in Asked("compute") : requests[r].stage = "ok"}

\* Somebody's token is sent with every request, schedules alone are admitted; what is
\* asked and shown is asked and shown by a page that has loaded.
Shape ==
    /\ \A r \in Requests : /\ requests[r].kind # "none" => requests[r].who # NoUser
                           /\ requests[r].stage = "admitted" => requests[r].kind = "compute"
    /\ route # "schedule" => modal = "closed" /\ ~loaded
    /\ modal # "closed" => loaded

\* A page that was opened with nothing under way has no requests but its own, loads
\* once and asks for nothing else before.
OwnRequests ==
    route = "schedule" /\ ~turned =>
        /\ ~crossed => \A r \in Requests : requests[r].kind # "none" => requests[r].who = user
        /\ loaded => Asked("load") = {}
        /\ ~loaded => Asked("compute") = {} /\ Asked("validate") = {}
        /\ \A r, s \in Asked("load") : r = s

\* Its credits are the table's, and so is the answer to its load, but for the
\* schedules that are paid and not yet heard of.
Books ==
    route = "schedule" /\ ~turned /\ ~drifted /\ ~crossed =>
        /\ \A r \in Asked("load") : requests[r].stage = "ok" => requests[r].value = credits[user]
        /\ loaded => pageCredits = credits[user] + Cardinality(Paid)

ModalInv ==
    /\ SessionInv /\ PageHasUser
    /\ TypeOK /\ Shape
    /\ OwnRequests /\ Books
    /\ EachReviewBuysOnce /\ LoadingEnds
-----------------------------------------------------------------------------
LEMMA AskedFinite ==
    ASSUME NEW k
    PROVE  /\ IsFiniteSet(Asked(k)) /\ Cardinality(Asked(k)) \in Nat
           /\ IsFiniteSet(Paid) /\ Cardinality(Paid) \in Nat
  <1>1. Asked(k) \subseteq Requests /\ Paid \subseteq Requests
    BY DEF Asked, Paid
  <1> QED
    BY <1>1, RequestsAssumption, FS_Subset, FS_CardinalityType

\* The validations of EachReviewBuysOnce and the requests of LoadingEnds.
LEMMA UnderWayAsked ==
    /\ UnderWay({"validate"}) = Asked("validate")
    /\ UnderWay({"compute"}) = Asked("compute")
    /\ UnderWay({"validate", "compute"}) = Asked("validate") \cup Asked("compute")
  BY DEF UnderWay, Asked

LEMMA ReviewsBought ==
    ASSUME TypeOK, EachReviewBuysOnce
    PROVE  /\ Cardinality(Asked("validate")) <= unspent
           /\ modal = "review" => Cardinality(Asked("validate")) + 1 <= unspent
  <1>1. Cardinality(Asked("validate")) + (IF modal = "review" THEN 1 ELSE 0) <= unspent
    BY UnderWayAsked DEF EachReviewBuysOnce
  <1>2. Cardinality(Asked("validate")) \in Nat /\ unspent \in Int
    BY AskedFinite DEF TypeOK
  <1> QED
    BY <1>1, <1>2

LEMMA ReviewsBoughtNext ==
    ASSUME unspent' \in Int, Cardinality(Asked("validate")') <= unspent',
           modal' = "review" => Cardinality(Asked("validate")') + 1 <= unspent'
    PROVE  EachReviewBuysOnce'
  <1>1. UnderWay({"validate"})' = Asked("validate")'
    BY DEF UnderWay, Asked
  <1>2. Asked("validate")' \subseteq Requests
    BY DEF Asked
  <1>3. Cardinality(Asked("validate")') \in Nat
    BY <1>2, RequestsAssumption, FS_Subset, FS_CardinalityType
  <1> QED
    BY <1>1, <1>3 DEF EachReviewBuysOnce

LEMMA RequestTyped ==
    ASSUME TypeOK, NEW r \in Requests
    PROVE  /\ requests[r] \in Request(Kinds, Stages, Int)
           /\ requests[r] = None \/ requests[r] \in [kind : Kinds, who : Someone, value : Int,
                                                     stage : Stages]
           /\ requests[r].kind \in Kinds \cup {"none"}
           /\ requests[r].who \in Someone
           /\ requests[r].value \in Int
           /\ requests[r].stage \in Stages
           /\ requests[r] = None <=> requests[r].kind = "none"
  BY DEF TypeOK, Request, None, Kinds, Stages, Someone

\* What a request that is sent, answered or served changes, here.
LEMMA SentOne ==
    ASSUME NEW those \in [Requests -> Request(Kinds, Stages, Int)],
           NEW k \in Kinds, jwt' \in Someone, SendAmong(those, k, 0)
    PROVE  /\ requests' \in [Requests -> Request(Kinds, Stages, Int)]
           /\ \E r \in Requests :
                 /\ those[r].kind = "none"
                 /\ requests'[r].kind = k /\ requests'[r].who = jwt'
                 /\ requests'[r].stage = "sent"
                 /\ \A s \in Requests : s # r => requests'[s] = those[s]
  <1>1. "sent" \in Stages /\ 0 \in Int
    BY DEF Stages
  <1> QED
    BY <1>1, SentAny

LEMMA AnsweredOne ==
    ASSUME TypeOK, NEW r \in Requests, Answered(r)
    PROVE  /\ requests' \in [Requests -> Request(Kinds, Stages, Int)]
           /\ requests'[r].kind = "none" /\ requests'[r].stage = "sent"
           /\ \A s \in Requests : s # r => requests'[s] = requests[s]
  BY AnsweredAny DEF TypeOK

LEMMA ServedOne ==
    ASSUME TypeOK, NEW r \in Requests, NEW stage \in Stages, NEW value \in Int,
           requests[r].kind # "none", Serve(r, stage, value)
    PROVE  /\ requests' \in [Requests -> Request(Kinds, Stages, Int)]
           /\ requests'[r].kind = requests[r].kind /\ requests'[r].who = requests[r].who
           /\ requests'[r].stage = stage /\ requests'[r].value = value
           /\ \A s \in Requests : s # r => requests'[s] = requests[s]
  BY ServedAny DEF TypeOK
-----------------------------------------------------------------------------
\* How the numbers of requests change with it.
LEMMA CountSent ==
    ASSUME NEW r \in Requests, NEW k,
           requests[r].kind = "none", requests'[r].kind = k, k # "none",
           requests'[r].stage = "sent",
           \A s \in Requests : s # r => requests'[s] = requests[s]
    PROVE  /\ Asked(k)' = Asked(k) \cup {r} /\ r \notin Asked(k)
           /\ Cardinality(Asked(k))' = Cardinality(Asked(k)) + 1
           /\ \A other \in Kinds : other # k => Asked(other)' = Asked(other)
           /\ Paid' = Paid
  <1>1. Asked(k)' = Asked(k) \cup {r} /\ r \notin Asked(k)
    BY DEF Asked
  <1>2. \A other \in Kinds : other # k => Asked(other)' = Asked(other)
    BY DEF Asked, Kinds
  <1>3. Paid' = Paid
    BY DEF Paid, Asked
  <1>4. Cardinality(Asked(k))' = Cardinality(Asked(k)) + 1
    <2>1. IsFiniteSet(Asked(k))
      BY AskedFinite
    <2>2. PICK before : before = Asked(k)
      OBVIOUS
    <2>3. Cardinality(before \cup {r}) = Cardinality(before) + 1
      BY <1>1, <2>1, <2>2, FS_AddElement
    <2> QED
      BY <1>1, <2>2, <2>3
  <1> QED
    BY <1>1, <1>2, <1>3, <1>4

LEMMA CountAnswered ==
    ASSUME NEW r \in Requests, NEW k, requests[r].kind = k, k # "none",
           requests'[r].kind = "none",
           \A s \in Requests : s # r => requests'[s] = requests[s]
    PROVE  /\ Asked(k)' = Asked(k) \ {r} /\ r \in Asked(k)
           /\ Cardinality(Asked(k))' = Cardinality(Asked(k)) - 1
           /\ \A other \in Kinds : other # k => Asked(other)' = Asked(other)
           /\ r \in Paid => Cardinality(Paid)' = Cardinality(Paid) - 1
           /\ r \notin Paid => Paid' = Paid
  <1>1. Asked(k)' = Asked(k) \ {r} /\ r \in Asked(k)
    BY DEF Asked
  <1>2. \A other \in Kinds : other # k => Asked(other)' = Asked(other)
    BY DEF Asked, Kinds
  <1>3. Paid' = Paid \ {r}
    BY DEF Paid, Asked
  <1>4. r \notin Paid => Paid' = Paid
    BY <1>3
  <1>5. Cardinality(Asked(k))' = Cardinality(Asked(k)) - 1
    <2>1. IsFiniteSet(Asked(k))
      BY AskedFinite
    <2>2. PICK before : before = Asked(k)
      OBVIOUS
    <2>3. Cardinality(before \ {r}) = Cardinality(before) - 1
      BY <1>1, <2>1, <2>2, FS_RemoveElement
    <2> QED
      BY <1>1, <2>2, <2>3
  <1>6. r \in Paid => Cardinality(Paid)' = Cardinality(Paid) - 1
    <2>1. IsFiniteSet(Paid)
      BY AskedFinite
    <2>2. PICK before : before = Paid
      OBVIOUS
    <2>3. r \in before => Cardinality(before \ {r}) = Cardinality(before) - 1
      BY <2>1, <2>2, FS_RemoveElement
    <2> QED
      BY <1>3, <2>2, <2>3
  <1> QED
    BY <1>1, <1>2, <1>4, <1>5, <1>6

LEMMA CountServed ==
    ASSUME NEW r \in Requests, requests'[r].kind = requests[r].kind,
           \A s \in Requests : s # r => requests'[s] = requests[s]
    PROVE  /\ \A k : Asked(k)' = Asked(k)
           /\ requests[r].stage # "ok" /\ requests[r].kind = "compute" /\ requests'[r].stage = "ok" =>
                 Cardinality(Paid)' = Cardinality(Paid) + 1
           /\ requests[r].stage # "ok" /\ (requests[r].kind # "compute" \/ requests'[r].stage # "ok") =>
                 Paid' = Paid
  <1>1. \A k : Asked(k)' = Asked(k)
    BY DEF Asked
  <1>2. requests[r].stage # "ok" /\ requests[r].kind = "compute" /\ requests'[r].stage = "ok" =>
           Paid' = Paid \cup {r} /\ r \notin Paid
    BY DEF Paid, Asked
  <1>3. requests[r].stage # "ok" /\ (requests[r].kind # "compute" \/ requests'[r].stage # "ok") =>
           Paid' = Paid
    BY DEF Paid, Asked
  <1> QED
    BY <1>1, <1>2, <1>3, AskedFinite, FS_AddElement
-----------------------------------------------------------------------------
LEMMA InitModal == Init => ModalInv
  <1> SUFFICES ASSUME Init PROVE ModalInv
    OBVIOUS
  <1>1. SessionInv /\ PageHasUser
    BY InitInv, InitHasUser DEF Init, VisitsInit
  <1>2. jwt \in Someone /\ (route = "schedule" => jwt # NoUser /\ user = jwt)
    BY <1>1 DEF SessionInv, SessionTypeOK, PageHasUser, Init, VisitsInit, SessionInit
  <1>3. PICK first \in Requests :
           requests = [r \in Requests |->
                          IF r = first /\ route = "schedule"
                          THEN [kind |-> "load", who |-> jwt, value |-> 0, stage |-> "sent"]
                          ELSE None]
    BY DEF Init, VisitsInit
  <1>4. \A r \in Requests : \/ requests[r] = None
                            \/ /\ r = first /\ route = "schedule"
                               /\ requests[r] = [kind |-> "load", who |-> jwt, value |-> 0,
                                                 stage |-> "sent"]
    BY <1>3
  <1>5. /\ Asked("validate") = {} /\ Asked("compute") = {} /\ Paid = {}
        /\ \A r \in Asked("load") : r = first
    BY <1>4 DEF Asked, Paid, None
  <1>6. TypeOK
    <2>1. {None, [kind |-> "load", who |-> jwt, value |-> 0, stage |-> "sent"]}
             \subseteq Request(Kinds, Stages, Int)
      BY <1>2 DEF Request, Kinds, Stages
    <2>2. requests \in [Requests -> Request(Kinds, Stages, Int)]
      BY <1>3, <2>1
    <2>3. credits \in [Users -> Int]
      BY CreditsAssumption DEF Init
    <2>4. loaded \in BOOLEAN /\ turned \in BOOLEAN /\ drifted \in BOOLEAN /\ failed \in BOOLEAN
      BY DEF Init, VisitsInit
    <2>5. modal \in Modals /\ pageCredits \in Int /\ unspent \in Int
      BY DEF Init, Modals
    <2> QED
      BY <1>1, <2>2, <2>3, <2>4, <2>5 DEF TypeOK, SessionInv
  <1>7. Shape
    BY <1>2, <1>4 DEF Shape, Init, VisitsInit, None
  <1>8. OwnRequests
    BY <1>2, <1>4, <1>5 DEF OwnRequests, Init, VisitsInit, None
  <1>9. Books
    BY <1>4, <1>5 DEF Books, Asked, Init, VisitsInit, None
  <1>10. EachReviewBuysOnce
    BY <1>5, UnderWayAsked, FS_EmptySet DEF EachReviewBuysOnce, Init
  <1>11. LoadingEnds
    BY DEF LoadingEnds, Init
  <1> QED
    BY <1>1, <1>6, <1>7, <1>8, <1>9, <1>10, <1>11 DEF ModalInv
-----------------------------------------------------------------------------
\* Each step keeps the invariant: first those of the session.
LEMMA SessionStepKeepsSession ==
    ASSUME ModalInv, SessionStep \/ UNCHANGED sessionVars
    PROVE  SessionInv' /\ PageHasUser'
  <1>1. [SessionNext]_sessionVars
    BY DEF SessionStep, LoadProgram, TurnPage, StayOnPage, SessionNext
  <1> QED
    BY <1>1, NextKeeps, NextHasUser DEF ModalInv

LEMMA NewPageKeeps ==
    ASSUME ModalInv, SessionInv', PageHasUser', NewPage,
           NEW those \in [Requests -> Request(Kinds, Stages, Int)], OpensPage(those),
           \A r \in Requests : /\ those[r].kind # "none" => those[r].who # NoUser
                               /\ those[r].stage = "admitted" => those[r].kind = "compute",
           turned' \in BOOLEAN, ~turned' => \A r \in Requests : those[r] = None,
           unspent' \in Int,
           Cardinality({r \in Requests : those[r].kind = "validate"}) <= unspent'
    PROVE  ModalInv'
  <1>1. jwt' \in Someone
    BY DEF SessionInv, SessionTypeOK
  <1>2. \/ /\ route' = "schedule"
           /\ requests' \in [Requests -> Request(Kinds, Stages, Int)]
           /\ \E r \in Requests :
                 /\ those[r].kind = "none"
                 /\ requests'[r].kind = "load" /\ requests'[r].who = jwt'
                 /\ requests'[r].stage = "sent"
                 /\ \A s \in Requests : s # r => requests'[s] = those[s]
        \/ route' # "schedule" /\ requests' = those
    BY <1>1, SentOne DEF OpensPage, Kinds
  <1>3. TypeOK'
    <2>1. requests' \in [Requests -> Request(Kinds, Stages, Int)]
      BY <1>2
    <2>2. loaded' \in BOOLEAN /\ drifted' \in BOOLEAN /\ failed' \in BOOLEAN
      BY DEF OpensPage, NewPage
    <2>3. modal' \in Modals /\ pageCredits' \in Int /\ credits' \in [Users -> Int]
      BY DEF ModalInv, TypeOK, NewPage, Modals
    <2> QED
      BY <2>1, <2>2, <2>3 DEF TypeOK, SessionInv
  <1>4. route' = "schedule" => jwt' # NoUser
    BY DEF PageHasUser
  <1>5. Shape'
    <2>1. \A r \in Requests : /\ requests'[r].kind # "none" => requests'[r].who # NoUser
                              /\ requests'[r].stage = "admitted" => requests'[r].kind = "compute"
      <3>1. CASE route' # "schedule"
        BY <1>2, <3>1
      <3>2. CASE route' = "schedule"
        <4>1. PICK r \in Requests :
                 /\ requests'[r].kind = "load" /\ requests'[r].who = jwt'
                 /\ requests'[r].stage = "sent"
                 /\ \A s \in Requests : s # r => requests'[s] = those[s]
          BY <1>2, <3>2
        <4> QED
          BY <1>4, <3>2, <4>1
      <3> QED
        BY <3>1, <3>2
    <2> QED
      BY <2>1 DEF Shape, OpensPage, NewPage
  <1>6. ASSUME route' = "schedule", ~turned'
        PROVE  /\ \A r \in Requests :
                     \/ requests'[r].kind = "none"
                     \/ requests'[r].kind = "load" /\ requests'[r].who = jwt'
                        /\ requests'[r].stage = "sent"
               /\ \A r, s \in Asked("load")' : r = s
    <2>1. PICK r \in Requests :
                 /\ requests'[r].kind = "load" /\ requests'[r].who = jwt'
                 /\ requests'[r].stage = "sent"
                 /\ \A s \in Requests : s # r => requests'[s] = those[s]
      BY <1>2, <1>6
    <2>2. \A s \in Requests : s # r => requests'[s].kind = "none"
      BY <1>6, <2>1 DEF None
    <2> QED
      BY <2>1, <2>2 DEF Asked
  <1>7. ~crossed' /\ route' = "schedule" => jwt' = user'
    BY DEF SessionInv, OneAtATime, UserLoggedIn, PageHasUser
  <1>8. OwnRequests'
    BY <1>6, <1>7 DEF OwnRequests, OpensPage, Asked
  <1>9. Books'
    BY <1>6 DEF Books, OpensPage, Asked
  <1>10. EachReviewBuysOnce'
    <2>1. Asked("validate")' = {r \in Requests : those[r].kind = "validate"}
      BY <1>2 DEF Asked
    <2> QED
      BY <2>1, ReviewsBoughtNext DEF NewPage
  <1>11. LoadingEnds'
    BY DEF LoadingEnds, NewPage
  <1> QED
    BY <1>3, <1>5, <1>8, <1>9, <1>10, <1>11 DEF ModalInv

LEMMA SessionStepKeeps ==
    ASSUME ModalInv, SessionStep
    PROVE  ModalInv'
  <1>1. SessionInv' /\ PageHasUser'
    BY SessionStepKeepsSession
  <1>2. CASE LoadProgram({}) /\ NewPage /\ unspent' = 0
    <2> DEFINE nothing == [r \in Requests |-> None]
    <2>1. nothing \in [Requests -> Request(Kinds, Stages, Int)]
      BY DEF Request
    <2>2. /\ \A r \in Requests : /\ nothing[r] = None /\ nothing[r].kind = "none"
                                 /\ nothing[r].stage # "admitted"
          /\ {r \in Requests : nothing[r].kind = "validate"} = {}
      BY DEF None
    <2>3. OpensPage(nothing) /\ ~turned' /\ turned' \in BOOLEAN
      <3>1. LeftBehind({}) = nothing /\ UnderWay({}) = {}
        BY DEF LeftBehind, UnderWay
      <3> QED
        BY <1>2, <3>1 DEF LoadProgram
    <2> HIDE DEF nothing
    <2>4. Cardinality({r \in Requests : nothing[r].kind = "validate"}) <= unspent'
      BY <1>2, <2>2, FS_EmptySet
    <2> QED
      BY <1>1, <1>2, <2>1, <2>2, <2>3, <2>4, NewPageKeeps
  <1>3. CASE TurnPage /\ NewPage /\ UNCHANGED unspent
    <2>1. requests \in [Requests -> Request(Kinds, Stages, Int)] /\ unspent \in Int
      BY DEF ModalInv, TypeOK
    <2>2. Cardinality({r \in Requests : requests[r].kind = "validate"}) <= unspent
      BY ReviewsBought DEF ModalInv, Asked
    <2>3. /\ OpensPage(requests) /\ turned' \in BOOLEAN
          /\ ~turned' => \A r \in Requests : requests[r] = None
      BY <1>3 DEF TurnPage, NothingUnderWay
    <2>4. \A r \in Requests : /\ requests[r].kind # "none" => requests[r].who # NoUser
                              /\ requests[r].stage = "admitted" => requests[r].kind = "compute"
      BY DEF ModalInv, Shape
    <2>5. unspent' \in Int /\ Cardinality({r \in Requests : requests[r].kind = "validate"}) <= unspent'
      BY <1>3, <2>1, <2>2
    <2> QED
      BY <1>1, <1>3, <2>1, <2>3, <2>4, <2>5, NewPageKeeps
  <1>4. CASE StayOnPage /\ UNCHANGED modalVars
    <2>1. /\ UNCHANGED <<loaded, requests, turned, modal, pageCredits, credits, unspent, drifted, failed>>
          /\ route' = route
          /\ route = "schedule" => user' = user /\ (crossed => crossed')
      BY <1>4, UserStaysOnPage DEF StayOnPage, visitVars, modalVars
    <2>2. UNCHANGED <<Asked("load"), Asked("validate"), Asked("compute"), Paid>>
      BY <2>1 DEF Asked, Paid
    <2>3. TypeOK' /\ Shape'
      BY <1>1, <2>1 DEF ModalInv, TypeOK, SessionInv, Shape
    <2>4. OwnRequests'
      BY <2>1, <2>2 DEF ModalInv, OwnRequests
    <2>5. Books'
      BY <2>1, <2>2 DEF ModalInv, Books
    <2>6. \A kinds : UnderWay(kinds)' = UnderWay(kinds)
      BY <2>1 DEF UnderWay
    <2>7. EachReviewBuysOnce' /\ LoadingEnds'
      BY <2>1, <2>6 DEF ModalInv, EachReviewBuysOnce, LoadingEnds
    <2> QED
      BY <1>1, <2>3, <2>4, <2>5, <2>7 DEF ModalInv
  <1> QED
    BY <1>2, <1>3, <1>4 DEF SessionStep
-----------------------------------------------------------------------------
\* Then those of the page, which leave the session as it is.
LEMMA SessionAsItWas ==
    ASSUME ModalInv, UNCHANGED <<sessionVars, turned>>
    PROVE  /\ SessionInv' /\ PageHasUser' /\ SessionTypeOK' /\ turned' \in BOOLEAN
           /\ user' = user /\ jwt' = jwt /\ route' = route /\ crossed' = crossed /\ turned' = turned
           /\ TypeOK /\ Shape /\ OwnRequests /\ Books /\ EachReviewBuysOnce /\ LoadingEnds
           /\ jwt \in Someone
           /\ route = "schedule" => user # NoUser /\ jwt # NoUser /\ user \in Users
           /\ route = "schedule" /\ ~crossed => jwt = user
  <1>1. SessionInv' /\ PageHasUser'
    BY SessionStepKeepsSession
  <1>2. route = "schedule" => user # NoUser /\ jwt # NoUser /\ user \in Users
    BY DEF ModalInv, PageHasUser, SessionInv, SessionTypeOK, Someone
  <1>3. user # NoUser /\ ~crossed => jwt = user
    BY DEF ModalInv, SessionInv, OneAtATime, UserLoggedIn
  <1> QED
    BY <1>1, <1>2, <1>3 DEF ModalInv, TypeOK, SessionInv, SessionTypeOK, sessionVars

LEMMA SendKeeps ==
    ASSUME ModalInv, UNCHANGED <<sessionVars, turned>>, UNCHANGED loaded,
           route = "schedule", loaded, NEW k \in {"validate", "compute"}, Send(k, 0),
           modal' = "loading", UNCHANGED <<pageCredits, credits, drifted, failed>>,
           \/ k = "validate" /\ unspent' = unspent + 1
           \/ k = "compute" /\ modal = "review" /\ unspent' = unspent - 1
    PROVE  ModalInv'
  <1>1. requests \in [Requests -> Request(Kinds, Stages, Int)] /\ unspent \in Int /\ TypeOK
    BY DEF ModalInv, TypeOK
  <1>2. /\ jwt' \in Someone /\ k \in Kinds /\ SendAmong(requests, k, 0)
        /\ SessionInv' /\ PageHasUser' /\ turned' \in BOOLEAN
    BY SessionAsItWas DEF Kinds, Send, SessionInv, SessionTypeOK
  <1>3. requests' \in [Requests -> Request(Kinds, Stages, Int)]
    BY <1>1, <1>2, SentOne
  <1>4. PICK r \in Requests :
           /\ requests[r].kind = "none"
           /\ requests'[r].kind = k /\ requests'[r].who = jwt'
           /\ requests'[r].stage = "sent"
           /\ \A s \in Requests : s # r => requests'[s] = requests[s]
    BY <1>1, <1>2, SentOne
  <1>5. /\ Asked(k)' = Asked(k) \cup {r}
        /\ Cardinality(Asked(k))' = Cardinality(Asked(k)) + 1
        /\ \A other \in Kinds : other # k => Asked(other)' = Asked(other)
        /\ Paid' = Paid
    BY <1>4, CountSent
  <1>6. TypeOK'
    BY <1>2, <1>3 DEF ModalInv, TypeOK, SessionInv, Modals
  <1>7. Shape'
    BY <1>4, SessionAsItWas DEF Shape
  <1>8. Asked("load")' = Asked("load") /\ (\A s \in Asked("load") : s # r)
    BY <1>4, <1>5 DEF Kinds, Asked
  <1>9. OwnRequests'
    BY <1>4, <1>8, SessionAsItWas DEF OwnRequests
  <1>10. Books'
    <2>1. \A s \in Asked("load") : requests'[s] = requests[s]
      BY <1>4, <1>8 DEF Asked
    <2> QED
      BY <1>5, <1>8, <2>1, SessionAsItWas DEF Books
  <1>11. EachReviewBuysOnce'
    <2>1. Cardinality(Asked("validate")) \in Nat
      BY AskedFinite
    <2>2. CASE k = "validate"
      <3>1. Cardinality(Asked("validate")') = Cardinality(Asked("validate")) + 1
        BY <1>5, <2>2
      <3>2. Cardinality(Asked("validate")) <= unspent /\ unspent' = unspent + 1
        BY <1>1, <2>2, ReviewsBought DEF ModalInv
      <3>3. Cardinality(Asked("validate")') <= unspent'
        BY <1>1, <2>1, <3>1, <3>2
      <3> QED
        BY <1>1, <2>2, <3>3, ReviewsBoughtNext
    <2>3. CASE k = "compute"
      <3>1. Asked("validate")' = Asked("validate")
        BY <1>5, <2>3 DEF Kinds
      <3>2. Cardinality(Asked("validate")') <= unspent'
        BY <1>1, <2>1, <2>3, <3>1, ReviewsBought DEF ModalInv
      <3> QED
        BY <1>1, <2>3, <3>2, ReviewsBoughtNext
    <2> QED
      BY <2>2, <2>3
  <1>12. LoadingEnds'
    BY <1>4 DEF LoadingEnds, UnderWay
  <1> QED
    BY <1>2, <1>6, <1>7, <1>9, <1>10, <1>11, <1>12 DEF ModalInv

LEMMA CloseModalKeeps ==
    ASSUME ModalInv, UNCHANGED <<sessionVars, turned>>, UNCHANGED loaded, CloseModal
    PROVE  ModalInv'
  <1>1. UNCHANGED <<loaded, requests, pageCredits, credits, unspent, drifted, failed>>
        /\ modal' = "closed"
    BY DEF CloseModal
  <1>2. UNCHANGED <<Asked("load"), Asked("validate"), Asked("compute"), Paid>>
    BY <1>1 DEF Asked, Paid
  <1>3. TypeOK' /\ Shape'
    BY <1>1, SessionAsItWas DEF TypeOK, Shape, Modals
  <1>4. OwnRequests'
    BY <1>1, <1>2, SessionAsItWas DEF OwnRequests
  <1>5. Books'
    BY <1>1, <1>2, SessionAsItWas DEF Books
  <1>6. EachReviewBuysOnce'
    BY <1>1, <1>2, ReviewsBought, ReviewsBoughtNext DEF ModalInv, TypeOK
  <1>7. LoadingEnds'
    BY <1>1 DEF LoadingEnds
  <1> QED
    BY <1>3, <1>4, <1>5, <1>6, <1>7, SessionAsItWas DEF ModalInv

LEMMA InitialDataLoadedKeeps ==
    ASSUME ModalInv, UNCHANGED <<sessionVars, turned>>, NEW r \in Requests, InitialDataLoaded(r)
    PROVE  ModalInv'
  <1>1. /\ route = "schedule" /\ Answered(r)
        /\ requests[r].kind = "load" /\ requests[r].stage \in {"ok", "failed"}
        /\ UNCHANGED <<modal, credits, unspent, drifted, failed>>
        /\ \/ requests[r].stage = "ok" /\ loaded' = TRUE /\ pageCredits' = requests[r].value
           \/ UNCHANGED <<loaded, pageCredits>>
    BY DEF InitialDataLoaded, Answer, Succeeded
  <1>2. /\ requests' \in [Requests -> Request(Kinds, Stages, Int)]
        /\ requests'[r].kind = "none" /\ requests'[r].stage = "sent"
        /\ \A s \in Requests : s # r => requests'[s] = requests[s]
        /\ requests[r].value \in Int
    BY <1>1, AnsweredOne, RequestTyped DEF ModalInv
  <1>3. /\ Asked("load")' = Asked("load") \ {r} /\ r \in Asked("load")
        /\ Asked("validate")' = Asked("validate") /\ Asked("compute")' = Asked("compute")
        /\ Paid' = Paid
    <2>1. r \notin Paid
      BY <1>1 DEF Paid, Asked
    <2> QED
      BY <1>1, <1>2, <2>1, CountAnswered DEF Kinds
  <1>4. TypeOK'
    BY <1>1, <1>2, SessionAsItWas DEF TypeOK
  <1>5. Shape'
    BY <1>1, <1>2, SessionAsItWas DEF Shape
  <1>6. OwnRequests'
    BY <1>1, <1>2, <1>3, SessionAsItWas DEF OwnRequests
  <1>7. Books'
    <2>1. ASSUME ~turned, ~drifted, ~crossed, loaded'
          PROVE  pageCredits' = credits[user] + Cardinality(Paid)
      <3>1. CASE loaded
        BY <1>1, <1>3, <3>1, <2>1, SessionAsItWas DEF OwnRequests
      <3>2. CASE ~loaded
        <4>1. Paid = {} /\ pageCredits' = credits[user]
          BY <1>1, <1>3, <3>2, <2>1, SessionAsItWas DEF OwnRequests, Books, Paid
        <4>2. credits[user] \in Int
          BY <1>1, SessionAsItWas DEF TypeOK
        <4> QED
          BY <4>1, <4>2, FS_EmptySet
      <3> QED
        BY <3>1, <3>2
    <2>2. \A s \in Asked("load")' : s \in Asked("load") /\ requests'[s] = requests[s]
      BY <1>2, <1>3 DEF Asked
    <2> QED
      BY <1>1, <1>3, <2>1, <2>2, SessionAsItWas DEF Books
  <1>8. EachReviewBuysOnce'
    BY <1>1, <1>3, ReviewsBought, ReviewsBoughtNext DEF ModalInv, TypeOK
  <1>9. LoadingEnds'
    <2>1. UnderWay({"validate", "compute"})' = UnderWay({"validate", "compute"})
      BY <1>1, <1>2 DEF UnderWay
    <2> QED
      BY <1>1, <2>1 DEF ModalInv, LoadingEnds
  <1> QED
    BY <1>4, <1>5, <1>6, <1>7, <1>8, <1>9, SessionAsItWas DEF ModalInv

LEMMA ValidationResponseKeeps ==
    ASSUME ModalInv, UNCHANGED <<sessionVars, turned>>, UNCHANGED loaded,
           NEW r \in Requests, ValidationResponse(r)
    PROVE  ModalInv'
  <1>1. /\ route = "schedule" /\ Answered(r) /\ requests[r].kind = "validate"
        /\ UNCHANGED <<loaded, pageCredits, credits, unspent, drifted, failed>>
        /\ \/ modal = "closed" /\ modal' = "closed"
           \/ modal # "closed" /\ modal' \in {"blank", "review", "refused"}
    BY DEF ValidationResponse, Answer
  <1>2. /\ requests' \in [Requests -> Request(Kinds, Stages, Int)]
        /\ requests'[r].kind = "none" /\ requests'[r].stage = "sent"
        /\ \A s \in Requests : s # r => requests'[s] = requests[s]
    BY <1>1, AnsweredOne DEF ModalInv
  <1>3. /\ Asked("validate")' = Asked("validate") \ {r}
        /\ Cardinality(Asked("validate")') = Cardinality(Asked("validate")) - 1
        /\ Asked("load")' = Asked("load") /\ Asked("compute")' = Asked("compute")
        /\ Paid' = Paid
    <2>1. r \notin Paid
      BY <1>1 DEF Paid, Asked
    <2> QED
      BY <1>1, <1>2, <2>1, CountAnswered DEF Kinds
  <1>4. TypeOK'
    BY <1>1, <1>2, SessionAsItWas DEF TypeOK, Modals
  <1>5. Shape'
    BY <1>1, <1>2, SessionAsItWas DEF Shape
  <1>6. OwnRequests'
    BY <1>1, <1>2, <1>3, SessionAsItWas DEF OwnRequests
  <1>7. Books'
    <2>1. \A s \in Asked("load") : requests'[s] = requests[s]
      BY <1>1, <1>2 DEF Asked
    <2> QED
      BY <1>1, <1>3, <2>1, SessionAsItWas DEF Books
  <1>8. EachReviewBuysOnce'
    <2>1. Cardinality(Asked("validate")) \in Nat /\ unspent \in Int
      BY AskedFinite DEF ModalInv, TypeOK
    <2>2. Cardinality(Asked("validate")') + 1 <= unspent
      BY <1>3, <2>1, ReviewsBought DEF ModalInv
    <2>3. Cardinality(Asked("validate")') <= unspent
      BY <1>3, <2>1, <2>2
    <2> QED
      BY <1>1, <2>1, <2>2, <2>3, ReviewsBoughtNext
  <1>9. LoadingEnds'
    BY <1>1 DEF LoadingEnds
  <1> QED
    BY <1>4, <1>5, <1>6, <1>7, <1>8, <1>9, SessionAsItWas DEF ModalInv

LEMMA ScheduleResponseKeeps ==
    ASSUME ModalInv, UNCHANGED <<sessionVars, turned>>, UNCHANGED loaded,
           NEW r \in Requests, ScheduleResponse(r)
    PROVE  ModalInv'
  <1>1. /\ route = "schedule" /\ Answered(r) /\ requests[r].kind = "compute"
        /\ UNCHANGED <<loaded, credits, unspent, drifted>>
        /\ \/ /\ requests[r].stage = "ok" /\ pageCredits' = pageCredits - 1
              /\ modal' = "closed" /\ failed' \in BOOLEAN
           \/ /\ requests[r].stage # "ok" /\ pageCredits' = pageCredits
              /\ modal' = modal /\ failed' = TRUE
    BY DEF ScheduleResponse, Answer, Succeeded, CreditsAfter, ModalInv, TypeOK
  <1>2. /\ requests' \in [Requests -> Request(Kinds, Stages, Int)]
        /\ requests'[r].kind = "none" /\ requests'[r].stage = "sent"
        /\ \A s \in Requests : s # r => requests'[s] = requests[s]
    BY <1>1, AnsweredOne DEF ModalInv
  <1>3. /\ Asked("compute")' = Asked("compute") \ {r}
        /\ Asked("load")' = Asked("load") /\ Asked("validate")' = Asked("validate")
        /\ requests[r].stage = "ok" => Cardinality(Paid)' = Cardinality(Paid) - 1
        /\ requests[r].stage # "ok" => Paid' = Paid
    <2>1. r \in Paid <=> requests[r].stage = "ok"
      BY <1>1 DEF Paid, Asked
    <2> QED
      BY <1>1, <1>2, <2>1, CountAnswered DEF Kinds
  <1>4. TypeOK'
    <2>1. pageCredits' \in Int /\ modal' \in Modals
      BY <1>1, SessionAsItWas DEF TypeOK, Modals
    <2>2. failed' \in BOOLEAN
      BY <1>1
    <2> QED
      BY <1>1, <1>2, <2>1, <2>2, SessionAsItWas DEF TypeOK
  <1>5. Shape'
    BY <1>1, <1>2, SessionAsItWas DEF Shape
  <1>6. OwnRequests'
    BY <1>1, <1>2, <1>3, SessionAsItWas DEF OwnRequests
  <1>7. Books'
    <2>1. \A s \in Asked("load") : requests'[s] = requests[s]
      BY <1>1, <1>2 DEF Asked
    <2>2. ASSUME ~turned, ~drifted, ~crossed, loaded
          PROVE  pageCredits' = credits[user] + Cardinality(Paid)'
      <3>1. pageCredits = credits[user] + Cardinality(Paid)
        BY <1>1, <2>2, SessionAsItWas DEF Books
      <3>2. credits[user] \in Int /\ Cardinality(Paid) \in Nat
        BY <1>1, SessionAsItWas, AskedFinite DEF TypeOK
      <3> QED
        BY <1>1, <1>3, <3>1, <3>2
    <2> QED
      BY <1>1, <1>3, <2>1, <2>2, SessionAsItWas DEF Books
  <1>8. EachReviewBuysOnce'
    BY <1>1, <1>3, ReviewsBought, ReviewsBoughtNext DEF ModalInv, TypeOK
  <1>9. LoadingEnds'
    BY <1>1 DEF LoadingEnds
  <1> QED
    BY <1>4, <1>5, <1>6, <1>7, <1>8, <1>9, SessionAsItWas DEF ModalInv

LEMMA DroppedKeeps ==
    ASSUME ModalInv, UNCHANGED <<sessionVars, turned>>, UNCHANGED loaded, UNCHANGED modalVars,
           NEW r \in Requests, Dropped(r)
    PROVE  ModalInv'
  <1>1. /\ route # "schedule" /\ Answered(r) /\ modal = "closed"
        /\ UNCHANGED <<loaded, modal, pageCredits, credits, unspent, drifted, failed>>
    BY SessionAsItWas DEF Dropped, modalVars, Shape
  <1>2. /\ requests' \in [Requests -> Request(Kinds, Stages, Int)]
        /\ requests'[r].kind = "none" /\ requests'[r].stage = "sent"
        /\ \A s \in Requests : s # r => requests'[s] = requests[s]
    BY <1>1, AnsweredOne DEF ModalInv
  <1>3. TypeOK' /\ Shape'
    BY <1>1, <1>2, SessionAsItWas DEF TypeOK, Shape
  <1>4. OwnRequests' /\ Books'
    BY <1>1, SessionAsItWas DEF OwnRequests, Books
  <1>5. EachReviewBuysOnce'
    <2>1. Asked("validate")' \subseteq Asked("validate")
      BY <1>2 DEF Asked
    <2>2. Cardinality(Asked("validate")') <= Cardinality(Asked("validate"))
          /\ Cardinality(Asked("validate")') \in Nat /\ Cardinality(Asked("validate")) \in Nat
      BY <2>1, AskedFinite, FS_Subset, FS_CardinalityType
    <2>3. Cardinality(Asked("validate")) <= unspent /\ unspent \in Int
      BY ReviewsBought DEF ModalInv, TypeOK
    <2>4. Cardinality(Asked("validate")') <= unspent
      BY <2>2, <2>3
    <2> QED
      BY <1>1, <2>3, <2>4, ReviewsBoughtNext
  <1>6. LoadingEnds'
    BY <1>1 DEF LoadingEnds
  <1> QED
    BY <1>3, <1>4, <1>5, <1>6, SessionAsItWas DEF ModalInv
-----------------------------------------------------------------------------
\* What serves a request keeps all but the books, whatever it does to the credits.
LEMMA ServeKeeps ==
    ASSUME ModalInv, UNCHANGED <<sessionVars, turned>>, UNCHANGED loaded,
           UNCHANGED <<modal, pageCredits, unspent, failed>>,
           credits' \in [Users -> Int], drifted' \in BOOLEAN,
           NEW r \in Requests, requests[r].kind # "none",
           NEW stage \in Stages, NEW value \in Int, Serve(r, stage, value),
           stage = "admitted" => requests[r].kind = "compute",
           Books'
    PROVE  ModalInv'
  <1>1. /\ requests' \in [Requests -> Request(Kinds, Stages, Int)]
        /\ requests'[r].kind = requests[r].kind /\ requests'[r].who = requests[r].who
        /\ requests'[r].stage = stage
        /\ \A s \in Requests : s # r => requests'[s] = requests[s]
    BY ServedOne DEF ModalInv
  <1>2. \A s \in Requests : /\ requests'[s].kind = requests[s].kind
                            /\ requests'[s].who = requests[s].who
    BY <1>1
  <1>3. /\ Asked("load")' = Asked("load") /\ Asked("validate")' = Asked("validate")
        /\ Asked("compute")' = Asked("compute")
    BY <1>2 DEF Asked
  <1>4. TypeOK'
    BY <1>1, SessionAsItWas DEF TypeOK
  <1>5. Shape'
    BY <1>1, <1>2, SessionAsItWas DEF Shape
  <1>6. OwnRequests'
    BY <1>2, <1>3, SessionAsItWas DEF OwnRequests
  <1>7. EachReviewBuysOnce'
    BY <1>3, ReviewsBought, ReviewsBoughtNext DEF ModalInv, TypeOK
  <1>8. LoadingEnds'
    <2>1. UnderWay({"validate", "compute"})' = UnderWay({"validate", "compute"})
      BY <1>2 DEF UnderWay
    <2> QED
      BY <2>1 DEF ModalInv, LoadingEnds
  <1> QED
    BY <1>4, <1>5, <1>6, <1>7, <1>8, SessionAsItWas DEF ModalInv

\* Unless a load or a schedule succeeds, the books are as they were.
LEMMA ServeBooks ==
    ASSUME ModalInv, UNCHANGED <<sessionVars, turned>>, UNCHANGED loaded, UNCHANGED modalVars,
           NEW r \in Requests, requests[r].kind # "none", requests[r].stage = "sent",
           NEW stage \in Stages, NEW value \in Int, Serve(r, stage, value),
           stage = "admitted" => requests[r].kind = "compute",
           stage = "ok" => \/ requests[r].kind = "validate"
                           \/ requests[r].kind = "load" /\ value = credits[requests[r].who]
    PROVE  ModalInv'
  <1>1. /\ requests'[r].kind = requests[r].kind
        /\ requests'[r].stage = stage /\ requests'[r].value = value
        /\ \A s \in Requests : s # r => requests'[s] = requests[s]
    BY ServedOne DEF ModalInv
  <1>2. Paid' = Paid /\ Asked("load")' = Asked("load")
    BY <1>1, CountServed
  <1>3. UNCHANGED <<modal, pageCredits, credits, unspent, drifted, failed>>
    BY DEF modalVars
  <1>4. Books'
    <2>1. ASSUME route = "schedule", ~turned, ~drifted, ~crossed,
                 NEW s \in Asked("load"), requests'[s].stage = "ok"
          PROVE  requests'[s].value = credits[user]
      <3>1. CASE s = r
        <4>1. requests[r].kind = "load" /\ requests[r].who = user
          BY <2>1, <3>1, SessionAsItWas DEF OwnRequests, Asked
        <4> QED
          BY <1>1, <2>1, <3>1, <4>1
      <3>2. CASE s # r
        BY <1>1, <2>1, <3>2, SessionAsItWas DEF Books, Asked
      <3> QED
        BY <3>1, <3>2
    <2> QED
      BY <1>2, <1>3, <2>1, SessionAsItWas DEF Books
  <1>5. credits' \in [Users -> Int] /\ drifted' \in BOOLEAN
    BY <1>3, SessionAsItWas DEF TypeOK
  <1> QED
    BY <1>3, <1>4, <1>5, ServeKeeps

LEMMA ComputeKeeps ==
    ASSUME ModalInv, UNCHANGED <<sessionVars, turned>>, UNCHANGED loaded,
           NEW r \in Requests, Compute(r)
    PROVE  ModalInv'
  <1>1. PICK taken \in {0, 1}, stage \in {"ok", "failed"} :
           /\ Serve(r, stage, 0)
           /\ credits' = [credits EXCEPT ![requests[r].who] = @ - taken]
           /\ drifted' = (drifted \/ (route = "schedule" /\ (taken = 1) # (stage = "ok")))
    BY DEF Compute
  <1>2. requests[r].stage = "admitted" /\ UNCHANGED <<modal, pageCredits, unspent, failed>>
    BY DEF Compute
  <1>3. requests[r].kind = "compute" /\ requests[r].who \in Users
    BY <1>2, RequestTyped, SessionAsItWas DEF Shape, Someone
  <1>4. /\ credits' \in [Users -> Int] /\ drifted' \in BOOLEAN
        /\ credits'[requests[r].who] = credits[requests[r].who] - taken
        /\ credits[requests[r].who] \in Int
    BY <1>1, <1>3, SessionAsItWas DEF TypeOK
  <1>5. /\ requests'[r].kind = requests[r].kind /\ requests'[r].stage = stage
        /\ \A s \in Requests : s # r => requests'[s] = requests[s]
    BY <1>1, <1>3, ServedOne DEF ModalInv, Stages
  <1>6. /\ Asked("load")' = Asked("load")
        /\ stage = "ok" => Cardinality(Paid)' = Cardinality(Paid) + 1
        /\ stage # "ok" => Paid' = Paid
    BY <1>2, <1>3, <1>5, CountServed
  <1>7. Books'
    <2>1. ASSUME route = "schedule", ~turned, ~drifted', ~crossed
          PROVE  /\ Asked("load") = {} /\ loaded
                 /\ pageCredits = credits'[user] + Cardinality(Paid)'
      <3>1. r \in Asked("compute")
        BY <1>3 DEF Asked
      <3>2. loaded /\ Asked("load") = {} /\ requests[r].who = user
        BY <1>3, <2>1, <3>1, SessionAsItWas DEF OwnRequests
      <3>3. pageCredits = credits[user] + Cardinality(Paid)
        BY <1>1, <2>1, <3>2, SessionAsItWas DEF Books
      <3>4. credits'[user] = credits[user] - taken /\ credits[user] \in Int
        BY <1>4, <3>2
      <3>5. Cardinality(Paid) \in Nat
        BY AskedFinite
      <3>6. CASE stage = "ok"
        <4>1. taken = 1
          BY <1>1, <2>1, <3>6
        <4> QED
          BY <1>6, <3>2, <3>3, <3>4, <3>5, <3>6, <4>1
      <3>7. CASE stage # "ok"
        <4>1. taken = 0
          BY <1>1, <2>1, <3>7
        <4> QED
          BY <1>6, <3>2, <3>3, <3>4, <3>5, <3>7, <4>1
      <3> QED
        BY <3>6, <3>7
    <2> QED
      BY <1>2, <1>6, <2>1, SessionAsItWas DEF Books
  <1> QED
    BY <1>1, <1>2, <1>3, <1>4, <1>7, ServeKeeps DEF Stages

LEMMA ElsewhereKeeps ==
    ASSUME ModalInv, UNCHANGED <<sessionVars, turned>>, UNCHANGED loaded, Elsewhere
    PROVE  ModalInv'
  <1>1. /\ UNCHANGED <<loaded, modal, requests, pageCredits, unspent, failed>>
        /\ drifted' = (route = "schedule")
    BY DEF Elsewhere
  <1>2. credits' \in [Users -> Int] /\ drifted' \in BOOLEAN
    <2>1. PICK u \in Users, n \in 0 .. MaxCredits : credits' = [credits EXCEPT ![u] = n]
      BY DEF Elsewhere
    <2>2. n \in Int
      BY CreditsAssumption
    <2> QED
      BY <1>1, <2>1, <2>2, SessionAsItWas DEF TypeOK
  <1>3. UNCHANGED <<Asked("load"), Asked("validate"), Asked("compute")>>
    BY <1>1 DEF Asked
  <1>4. TypeOK' /\ Shape'
    BY <1>1, <1>2, SessionAsItWas DEF TypeOK, Shape
  <1>5. OwnRequests' /\ Books'
    <2>1. OwnRequests'
      BY <1>1, <1>3, SessionAsItWas DEF OwnRequests
    <2>2. route = "schedule" => drifted'
      BY <1>1
    <2> QED
      BY <2>1, <2>2, SessionAsItWas DEF Books
  <1>6. EachReviewBuysOnce'
    BY <1>1, <1>3, ReviewsBought, ReviewsBoughtNext DEF ModalInv, TypeOK
  <1>7. LoadingEnds'
    <2>1. UnderWay({"validate", "compute"})' = UnderWay({"validate", "compute"})
      BY <1>1 DEF UnderWay
    <2> QED
      BY <1>1, <2>1 DEF ModalInv, LoadingEnds
  <1> QED
    BY <1>4, <1>5, <1>6, <1>7, SessionAsItWas DEF ModalInv
-----------------------------------------------------------------------------
LEMMA ProceedsKeeps ==
    ASSUME ModalInv, UNCHANGED <<sessionVars, turned>>, UNCHANGED loaded,
           NEW r \in Requests, Proceeds(r)
    PROVE  ModalInv'
  <1>1. requests[r] = None <=> requests[r].kind = "none"
    BY RequestTyped DEF ModalInv
  <1>2. CASE Fails(r) /\ UNCHANGED modalVars
    <2>1. requests[r].kind # "none" /\ requests[r].stage = "sent" /\ Serve(r, "failed", 0)
      BY <1>1, <1>2 DEF Fails
    <2> QED
      BY <1>2, <2>1, ServeBooks DEF Stages
  <1>3. CASE ServeQuery(r)
    <2>1. requests[r].stage = "sent" /\ UNCHANGED modalVars
      BY <1>3 DEF ServeQuery
    <2>2. CASE requests[r].kind = "load" /\ Serve(r, "ok", credits[requests[r].who])
      <3>1. requests[r].who \in Users
        BY <2>2, RequestTyped, SessionAsItWas DEF Shape, Someone
      <3>2. credits[requests[r].who] \in Int
        BY <3>1, SessionAsItWas DEF TypeOK
      <3> QED
        BY <2>1, <2>2, <3>2, ServeBooks DEF Stages
    <2>3. ASSUME requests[r].kind = "validate", NEW error \in {0, 1}, Serve(r, "ok", error)
          PROVE  ModalInv'
      BY <2>1, <2>3, ServeBooks DEF Stages
    <2> QED
      BY <1>3, <2>2, <2>3 DEF ServeQuery
  <1>4. CASE Admit(r)
    <2>1. /\ requests[r].kind = "compute" /\ requests[r].stage = "sent"
          /\ Serve(r, "admitted", 0) /\ UNCHANGED modalVars
      BY <1>4 DEF Admit
    <2> QED
      BY <2>1, ServeBooks DEF Stages
  <1> QED
    BY <1>2, <1>3, <1>4, DroppedKeeps, ComputeKeeps DEF Proceeds

LEMMA NextModal == ModalInv /\ [Next]_vars => ModalInv'
  <1> SUFFICES ASSUME ModalInv, [Next]_vars PROVE ModalInv'
    OBVIOUS
  <1>1. CASE SessionStep
    BY <1>1, SessionStepKeeps
  <1>2. ASSUME UNCHANGED <<sessionVars, turned>>, PageStep PROVE ModalInv'
    <2>1. CASE UNCHANGED loaded /\ BeginScheduleRequest
      BY <1>2, <2>1, SendKeeps DEF BeginScheduleRequest, OnPage
    <2>2. CASE UNCHANGED loaded /\ RequestSchedule
      BY <1>2, <2>2, SendKeeps, SessionAsItWas DEF RequestSchedule, ModalAfterSchedule, Shape
    <2> QED
      BY <1>2, <2>1, <2>2, InitialDataLoadedKeeps, CloseModalKeeps, ValidationResponseKeeps,
         ScheduleResponseKeeps, ProceedsKeeps, ElsewhereKeeps
         DEF PageStep, Receives
  <1>3. CASE UNCHANGED vars
    <2>1. /\ UNCHANGED <<sessionVars, turned>>
          /\ UNCHANGED <<loaded, requests, modal, pageCredits, credits, unspent, drifted, failed>>
      BY <1>3 DEF vars, visitVars, modalVars
    <2>2. UNCHANGED <<Asked("load"), Asked("validate"), Asked("compute"), Paid>>
      BY <2>1 DEF Asked, Paid
    <2>3. \A kinds : UnderWay(kinds)' = UnderWay(kinds)
      BY <2>1 DEF UnderWay
    <2>4. TypeOK' /\ Shape' /\ OwnRequests' /\ Books'
      BY <2>1, <2>2, SessionAsItWas DEF TypeOK, Shape, OwnRequests, Books
    <2>5. EachReviewBuysOnce' /\ LoadingEnds'
      BY <2>1, <2>3 DEF ModalInv, EachReviewBuysOnce, LoadingEnds
    <2> QED
      BY <2>1, <2>4, <2>5, SessionAsItWas DEF ModalInv
  <1> QED
    BY <1>1, <1>2, <1>3 DEF Next

LEMMA ModalInvImplies == ModalInv => TypeOK /\ EachReviewBuysOnce /\ CreditsAsShown /\ LoadingEnds
  <1> SUFFICES ASSUME ModalInv PROVE CreditsAsShown
    BY DEF ModalInv
  <1>1. ASSUME loaded, ~turned, ~drifted, ~crossed, UnderWay({"compute"}) = {}
        PROVE  pageCredits = credits[user]
    <2>1. route = "schedule"
      BY <1>1 DEF ModalInv, Shape
    <2>2. Paid = {}
      BY <1>1, UnderWayAsked DEF Paid
    <2>3. pageCredits = credits[user] + Cardinality(Paid)
      BY <1>1, <2>1 DEF ModalInv, Books
    <2>4. credits[user] \in Int
      <3>1. user \in Users
        BY <2>1 DEF ModalInv, PageHasUser, SessionInv, SessionTypeOK, Someone
      <3> QED
        BY <3>1 DEF ModalInv, TypeOK
    <2> QED
      BY <2>2, <2>3, <2>4, FS_EmptySet
  <1> QED
    BY <1>1 DEF CreditsAsShown

LEMMA ModalInvHolds == Spec => []ModalInv
  BY InitModal, NextModal, PTL DEF Spec

\* The page's variables keep their types, for any number of requests and credits.
THEOREM ModalTypeCorrect == Spec => []TypeOK
  BY ModalInvHolds, ModalInvImplies, PTL

\* For every review that is asked for at most one schedule is, for any number of
\* requests, though answers come late, to other pages and to other reviews.
THEOREM ReviewsBuyOnce == Spec => []EachReviewBuysOnce
  BY ModalInvHolds, ModalInvImplies, PTL

\* A page that was opened with nothing under way shows its user's credits once its
\* schedules are answered, whatever their order, unless they changed past it.
THEOREM CreditsShown == Spec => []CreditsAsShown
  BY ModalInvHolds, ModalInvImplies, PTL

\* The modal does not load for nothing, unless a schedule has failed.
THEOREM ModalLoadsForSomething == Spec => []LoadingEnds
  BY ModalInvHolds, ModalInvImplies, PTL
-----------------------------------------------------------------------------
(***************************************************************************)
(* The calendar of available times.  What it promises speaks of a page     *)
(* that has nothing under way; the invariant says how its copy, the table  *)
(* and the requests between them hang together before that.                *)
(***************************************************************************)
TimesRequest == Request({"load", "save"}, {"sent", "ok", "failed"}, Contents \cup {0})

\* Somebody's token is sent with every request, and contents where they are expected.
Carry(those) ==
    \A r \in Requests :
        /\ those[r].kind # "none" => those[r].who # NoUser
        /\ those[r].kind = "load" /\ those[r].stage = "ok" => those[r].value \in Contents
        /\ those[r].kind = "save" => those[r].value \in Contents

\* Only a page that has loaded is edited, and an edit that is queued has a timer.
TimesShape ==
    /\ Carry(requests)
    /\ loaded => route = "schedule"
    /\ queued \/ unsaved => loaded
    /\ queued => saveTimers > 0

\* A page that was opened with nothing under way has no requests but its own, loads
\* once, and saves nothing before, unless a timer of an earlier page rings.
TimesOwn ==
    route = "schedule" /\ ~turned =>
        /\ ~crossed => \A r \in Requests : requests[r].kind # "none" => requests[r].who = user
        /\ loaded => Asked("load") = {}
        /\ ~loaded /\ ~hasty => Asked("save") = {}
        /\ \A r, s \in Asked("load") : r = s

\* The answer to its load is what the table holds.  From then on the table holds
\* what it shows, but for an edit that waits and for the one save that is under way.
TimesBooks ==
    route = "schedule" /\ ~turned /\ ~hasty /\ ~astray /\ ~crossed =>
        /\ \A r \in Asked("load") : requests[r].stage = "ok" => requests[r].value = stored[user]
        /\ loaded /\ ~queued /\ ~unsaved =>
              /\ Asked("save") = {} => stored[user] = shown
              /\ \A r \in Requests : Asked("save") = {r} => requests[r].value = shown

TimesInv ==
    /\ SessionInv /\ PageHasUser
    /\ TimesTypeOK /\ TimesShape /\ TimesOwn /\ TimesBooks
-----------------------------------------------------------------------------
LEMMA TimesAnswered ==
    ASSUME requests \in [Requests -> TimesRequest], NEW r \in Requests, Answered(r)
    PROVE  /\ requests' \in [Requests -> TimesRequest]
           /\ requests'[r].kind = "none"
           /\ \A s \in Requests : s # r => requests'[s] = requests[s]
  <1>1. PICK kinds, stages, values : TimesRequest = Request(kinds, stages, values)
    BY DEF TimesRequest
  <1> QED
    BY <1>1, AnsweredAny

LEMMA TimesSent ==
    ASSUME requests \in [Requests -> TimesRequest],
           NEW kind \in {"load", "save"}, NEW value \in Contents \cup {0},
           jwt' \in Someone, SendAmong(requests, kind, value)
    PROVE  requests' \in [Requests -> TimesRequest]
  <1>1. PICK kinds, stages, values :
           /\ kinds = {"load", "save"} /\ stages = {"sent", "ok", "failed"}
           /\ values = Contents \cup {0}
    OBVIOUS
  <1>2. TimesRequest = Request(kinds, stages, values)
    BY <1>1 DEF TimesRequest
  <1>3. kind \in kinds /\ "sent" \in stages /\ value \in values
    BY <1>1
  <1> QED
    BY <1>2, <1>3, SentAny

LEMMA TimesTyped ==
    ASSUME TimesTypeOK, NEW r \in Requests
    PROVE  /\ requests[r] = None \/ requests[r] \in [kind : {"load", "save"}, who : Someone,
                                                     value : Contents \cup {0},
                                                     stage : {"sent", "ok", "failed"}]
           /\ requests[r] = None <=> requests[r].kind = "none"
           /\ requests[r].kind \in {"load", "save", "none"}
           /\ requests[r].who \in Someone
  BY DEF TimesTypeOK, Request, None, Someone

LEMMA InitTimes == TimesInit => TimesInv
  <1> SUFFICES ASSUME TimesInit PROVE TimesInv
    OBVIOUS
  <1>1. SessionInv /\ PageHasUser
    BY InitInv, InitHasUser DEF TimesInit, VisitsInit
  <1>2. jwt \in Someone /\ (route = "schedule" => jwt # NoUser /\ user = jwt)
    BY <1>1 DEF SessionInv, SessionTypeOK, PageHasUser, TimesInit, VisitsInit, SessionInit
  <1>3. PICK first \in Requests :
           requests = [r \in Requests |->
                          IF r = first /\ route = "schedule"
                          THEN [kind |-> "load", who |-> jwt, value |-> 0, stage |-> "sent"]
                          ELSE None]
    BY DEF TimesInit, VisitsInit
  <1>4. \A r \in Requests : \/ requests[r] = None
                            \/ /\ r = first /\ route = "schedule"
                               /\ requests[r] = [kind |-> "load", who |-> jwt, value |-> 0,
                                                 stage |-> "sent"]
    BY <1>3
  <1>5. Asked("save") = {} /\ \A r \in Asked("load") : r = first
    BY <1>4 DEF Asked, None
  <1>6. ~loaded /\ ~turned /\ ~queued /\ ~unsaved /\ ~hasty /\ ~astray
    BY DEF TimesInit, VisitsInit
  <1>7. TimesTypeOK
    <2>1. {None, [kind |-> "load", who |-> jwt, value |-> 0, stage |-> "sent"]}
             \subseteq TimesRequest
      BY <1>2 DEF TimesRequest, Request
    <2>2. requests \in [Requests -> TimesRequest]
      BY <1>3, <2>1
    <2>3. /\ shown \in Contents /\ saveTimers \in Nat /\ stored \in [Users -> Contents]
          /\ {loaded, turned, queued, unsaved, hasty, astray} \subseteq BOOLEAN
      BY ContentsAssumption DEF TimesInit, VisitsInit
    <2> QED
      BY <1>1, <2>2, <2>3 DEF TimesTypeOK, SessionInv, TimesRequest
  <1>8. TimesShape
    BY <1>2, <1>4, <1>6 DEF TimesShape, Carry, None
  <1>9. TimesOwn
    BY <1>2, <1>4, <1>5, <1>6 DEF TimesOwn, None
  <1>10. TimesBooks
    BY <1>4, <1>6 DEF TimesBooks, Asked, None
  <1> QED
    BY <1>1, <1>7, <1>8, <1>9, <1>10 DEF TimesInv
-----------------------------------------------------------------------------
LEMMA TimesKeepSession ==
    ASSUME TimesInv, TimesSessionStep \/ UNCHANGED sessionVars
    PROVE  SessionInv' /\ PageHasUser'
  <1>1. [SessionNext]_sessionVars
    BY DEF TimesSessionStep, LoadProgram, TurnPage, StayOnPage, SessionNext
  <1> QED
    BY <1>1, NextKeeps, NextHasUser DEF TimesInv

\* A page that is opened, with whatever requests are still there.
LEMMA TimesNewPageKeeps ==
    ASSUME TimesInv, SessionInv', PageHasUser', TimesNewPage,
           NEW those \in [Requests -> TimesRequest], OpensPage(those),
           Carry(those),
           turned' \in BOOLEAN, ~turned' => \A r \in Requests : those[r] = None,
           saveTimers' \in Nat
    PROVE  TimesInv'
  <1>1. jwt' \in Someone
    BY DEF SessionInv, SessionTypeOK
  <1>2. \/ /\ route' = "schedule"
           /\ requests' \in [Requests -> TimesRequest]
           /\ \E r \in Requests :
                 /\ those[r].kind = "none"
                 /\ requests'[r].kind = "load" /\ requests'[r].who = jwt'
                 /\ requests'[r].stage = "sent"
                 /\ \A s \in Requests : s # r => requests'[s] = those[s]
        \/ route' # "schedule" /\ requests' = those
    <2>1. CASE route' = "schedule"
      <3>1. SendAmong(those, "load", 0)
        BY <2>1 DEF OpensPage
      \* The sets by names, as SentAny has them.
      <3>2. PICK kinds, values, stages :
               /\ kinds = {"load", "save"} /\ stages = {"sent", "ok", "failed"}
               /\ values = Contents \cup {0}
        OBVIOUS
      <3>3. /\ "load" \in kinds /\ "sent" \in stages /\ 0 \in values
            /\ TimesRequest = Request(kinds, stages, values)
        BY <3>2 DEF TimesRequest
      <3> QED
        BY <1>1, <2>1, <3>1, <3>3, SentAny
    <2> QED
      BY <2>1 DEF OpensPage
  <1>3. /\ ~loaded' /\ ~queued' /\ ~unsaved' /\ ~hasty' /\ ~astray'
        /\ shown' = Empty /\ stored' = stored
        /\ {loaded', queued', unsaved', hasty', astray'} \subseteq BOOLEAN
    BY DEF OpensPage, TimesNewPage
  <1>4. TimesTypeOK'
    <2>1. requests' \in [Requests -> TimesRequest]
      BY <1>2
    <2> QED
      BY <1>3, <2>1, ContentsAssumption DEF TimesInv, TimesTypeOK, SessionInv, TimesRequest
  <1>5. route' = "schedule" => jwt' # NoUser
    BY DEF PageHasUser
  <1>6. TimesShape'
    <2>1. Carry(requests')
      <3>1. CASE route' # "schedule"
        BY <1>2, <3>1
      <3>2. CASE route' = "schedule"
        BY <1>2, <1>5, <3>2 DEF Carry
      <3> QED
        BY <3>1, <3>2
    <2> QED
      BY <1>3, <2>1 DEF TimesShape
  <1>7. ASSUME route' = "schedule", ~turned'
        PROVE  /\ \A r \in Requests :
                     \/ requests'[r].kind = "none"
                     \/ requests'[r].kind = "load" /\ requests'[r].who = jwt'
                        /\ requests'[r].stage = "sent"
               /\ \A r, s \in Asked("load")' : r = s
    <2>1. PICK r \in Requests :
                 /\ requests'[r].kind = "load" /\ requests'[r].who = jwt'
                 /\ requests'[r].stage = "sent"
                 /\ \A s \in Requests : s # r => requests'[s] = those[s]
      BY <1>2, <1>7
    <2>2. \A s \in Requests : s # r => requests'[s].kind = "none"
      BY <1>7, <2>1 DEF None
    <2> QED
      BY <2>1, <2>2 DEF Asked
  <1>8. ~crossed' /\ route' = "schedule" => jwt' = user'
    BY DEF SessionInv, OneAtATime, UserLoggedIn, PageHasUser
  <1>9. TimesOwn'
    BY <1>3, <1>7, <1>8 DEF TimesOwn, Asked
  <1>10. TimesBooks'
    BY <1>3, <1>7 DEF TimesBooks, Asked
  <1> QED
    BY <1>4, <1>6, <1>9, <1>10 DEF TimesInv

LEMMA TimesSessionStepKeeps ==
    ASSUME TimesInv, TimesSessionStep
    PROVE  TimesInv'
  <1>1. SessionInv' /\ PageHasUser'
    BY TimesKeepSession
  <1>2. CASE LoadProgram({"save"}) /\ TimesNewPage /\ saveTimers' = 0
    <2> DEFINE left == LeftBehind({"save"})
    <2>1. left \in [Requests -> TimesRequest]
      BY DEF LeftBehind, Request, TimesRequest, TimesInv, TimesTypeOK
    <2>2. \A r \in Requests : left[r] = IF requests[r].kind = "save" THEN requests[r] ELSE None
      BY DEF LeftBehind
    <2>3. /\ OpensPage(left) /\ turned' \in BOOLEAN
          /\ ~turned' => \A r \in Requests : left[r] = None
      BY <1>2, <2>2 DEF LoadProgram, UnderWay
    <2> HIDE DEF left
    <2>4. Carry(left)
      BY <2>2 DEF Carry, None, TimesInv, TimesShape
    <2> QED
      BY <1>1, <1>2, <2>1, <2>2, <2>3, <2>4, TimesNewPageKeeps
  <1>3. CASE TurnPage /\ TimesNewPage /\ UNCHANGED saveTimers
    <2>1. requests \in [Requests -> TimesRequest] /\ saveTimers' \in Nat
      BY <1>3 DEF TimesInv, TimesTypeOK, TimesRequest
    <2>2. /\ OpensPage(requests) /\ turned' \in BOOLEAN
          /\ ~turned' => \A r \in Requests : requests[r] = None
      BY <1>3 DEF TurnPage, NothingUnderWay
    <2>3. Carry(requests)
      BY DEF TimesInv, TimesShape
    <2> QED
      BY <1>1, <1>3, <2>1, <2>2, <2>3, TimesNewPageKeeps
  <1>4. CASE StayOnPage /\ UNCHANGED timesVars
    <2>1. /\ UNCHANGED <<loaded, requests, turned, shown, queued, saveTimers, stored, unsaved,
                         hasty, astray>>
          /\ route' = route
          /\ route = "schedule" => user' = user /\ (crossed => crossed')
      BY <1>4, UserStaysOnPage DEF StayOnPage, visitVars, timesVars
    <2>2. UNCHANGED <<Asked("load"), Asked("save")>>
      BY <2>1 DEF Asked
    <2>3. TimesTypeOK' /\ TimesShape'
      BY <1>1, <2>1 DEF TimesInv, TimesTypeOK, SessionInv, TimesShape
    <2>4. TimesOwn'
      BY <2>1, <2>2 DEF TimesInv, TimesOwn
    <2>5. TimesBooks'
      BY <2>1, <2>2 DEF TimesInv, TimesBooks
    <2> QED
      BY <1>1, <2>3, <2>4, <2>5 DEF TimesInv
  <1> QED
    BY <1>2, <1>3, <1>4 DEF TimesSessionStep
-----------------------------------------------------------------------------
LEMMA TimesAsTheyWere ==
    ASSUME TimesInv, UNCHANGED <<sessionVars, turned>>
    PROVE  /\ SessionInv' /\ PageHasUser' /\ SessionTypeOK' /\ turned' \in BOOLEAN
           /\ user' = user /\ jwt' = jwt /\ route' = route /\ crossed' = crossed /\ turned' = turned
           /\ TimesTypeOK /\ TimesShape /\ TimesOwn /\ TimesBooks
           /\ requests \in [Requests -> TimesRequest]
           /\ jwt \in Someone
           /\ route = "schedule" => user # NoUser /\ jwt # NoUser /\ user \in Users
           /\ route = "schedule" /\ ~crossed => jwt = user
  <1>1. SessionInv' /\ PageHasUser'
    BY TimesKeepSession
  <1>2. route = "schedule" => user # NoUser /\ jwt # NoUser /\ user \in Users
    BY DEF TimesInv, PageHasUser, SessionInv, SessionTypeOK, Someone
  <1>3. user # NoUser /\ ~crossed => jwt = user
    BY DEF TimesInv, SessionInv, OneAtATime, UserLoggedIn
  <1> QED
    BY <1>1, <1>2, <1>3 DEF TimesInv, TimesTypeOK, SessionInv, SessionTypeOK, sessionVars,
                            TimesRequest

\* A request that is settled carries somebody's token.
LEMMA TimesWho ==
    ASSUME TimesInv, NEW r \in Requests, requests[r].kind # "none"
    PROVE  requests[r].who \in Users
  BY TimesTyped DEF TimesInv, TimesShape, Carry, Someone

LEMMA TimesLoadedKeeps ==
    ASSUME TimesInv, UNCHANGED <<sessionVars, turned>>, NEW r \in Requests, TimesLoaded(r)
    PROVE  TimesInv'
  <1>1. /\ route = "schedule" /\ Answered(r)
        /\ requests[r].kind = "load" /\ requests[r].stage \in {"ok", "failed"}
        /\ UNCHANGED <<queued, saveTimers, stored, unsaved, hasty, astray>>
        /\ \/ requests[r].stage = "ok" /\ loaded' = TRUE /\ shown' = requests[r].value
           \/ UNCHANGED <<loaded, shown>>
    BY DEF TimesLoaded, Answer, Succeeded
  <1>2. /\ requests' \in [Requests -> TimesRequest]
        /\ requests'[r].kind = "none"
        /\ \A s \in Requests : s # r => requests'[s] = requests[s]
    BY <1>1, TimesAsTheyWere, TimesAnswered DEF TimesTypeOK
  <1>3. /\ Asked("load")' = Asked("load") \ {r} /\ r \in Asked("load")
        /\ Asked("save")' = Asked("save")
    BY <1>1, <1>2 DEF Asked
  <1>4. TimesTypeOK'
    <2>1. shown' \in Contents /\ loaded' \in BOOLEAN
      BY <1>1, TimesAsTheyWere DEF TimesShape, Carry, TimesTypeOK
    <2> QED
      BY <1>1, <1>2, <2>1, TimesAsTheyWere DEF TimesTypeOK, TimesRequest
  <1>5. TimesShape'
    <2>1. Carry(requests')
      BY <1>2, TimesAsTheyWere DEF TimesShape, Carry
    <2> QED
      BY <1>1, <2>1, TimesAsTheyWere DEF TimesShape
  <1>6. TimesOwn'
    BY <1>1, <1>2, <1>3, TimesAsTheyWere DEF TimesOwn
  <1>7. TimesBooks'
    <2>1. ASSUME ~turned, ~hasty, ~astray, ~crossed, loaded', ~queued, ~unsaved
          PROVE  /\ Asked("save") = {} => stored[user] = shown'
                 /\ \A s \in Requests : Asked("save") = {s} => requests'[s].value = shown'
      <3>1. CASE loaded
        BY <1>1, <1>3, <2>1, <3>1, TimesAsTheyWere DEF TimesOwn
      <3>2. CASE ~loaded
        BY <1>1, <1>3, <2>1, <3>2, TimesAsTheyWere DEF TimesOwn, TimesBooks
      <3> QED
        BY <3>1, <3>2
    <2>2. \A s \in Asked("load")' : s \in Asked("load") /\ requests'[s] = requests[s]
      BY <1>2, <1>3 DEF Asked
    <2> QED
      BY <1>1, <1>3, <2>1, <2>2, TimesAsTheyWere DEF TimesBooks
  <1> QED
    BY <1>4, <1>5, <1>6, <1>7, TimesAsTheyWere DEF TimesInv

LEMMA SaveMsgKeeps ==
    ASSUME TimesInv, UNCHANGED <<sessionVars, turned>>, NEW content \in Contents, SaveMsg(content)
    PROVE  TimesInv'
  <1>1. /\ UNCHANGED <<loaded, requests, stored, hasty, astray>>
        /\ route = "schedule" /\ loaded
        /\ shown' = content /\ queued' = TRUE /\ unsaved' = FALSE
        /\ saveTimers' = saveTimers + IF queued THEN 0 ELSE 1
    BY DEF SaveMsg, OnPage
  <1>2. UNCHANGED <<Asked("load"), Asked("save")>>
    BY <1>1 DEF Asked
  <1>3. saveTimers' \in Nat /\ saveTimers' > 0
    BY <1>1, TimesAsTheyWere DEF TimesTypeOK, TimesShape
  <1>4. TimesTypeOK' /\ TimesShape'
    BY <1>1, <1>3, TimesAsTheyWere DEF TimesTypeOK, TimesShape
  <1>5. TimesOwn'
    BY <1>1, <1>2, TimesAsTheyWere DEF TimesOwn
  <1>6. TimesBooks'
    BY <1>1, <1>2, TimesAsTheyWere DEF TimesBooks
  <1> QED
    BY <1>4, <1>5, <1>6, TimesAsTheyWere DEF TimesInv

LEMMA UnsavedMsgKeeps ==
    ASSUME TimesInv, UNCHANGED <<sessionVars, turned>>, NEW content \in Contents,
           UnsavedMsg(content)
    PROVE  TimesInv'
  <1>1. /\ UNCHANGED <<loaded, requests, queued, saveTimers, stored, hasty, astray>>
        /\ loaded /\ shown' = content /\ unsaved' = TRUE
    BY DEF UnsavedMsg, OnPage
  <1>2. UNCHANGED <<Asked("load"), Asked("save")>>
    BY <1>1 DEF Asked
  <1>3. TimesTypeOK' /\ TimesShape'
    BY <1>1, TimesAsTheyWere DEF TimesTypeOK, TimesShape
  <1>4. TimesOwn'
    BY <1>1, <1>2, TimesAsTheyWere DEF TimesOwn
  <1>5. TimesBooks'
    BY <1>1, <1>2, TimesAsTheyWere DEF TimesBooks
  <1> QED
    BY <1>3, <1>4, <1>5, TimesAsTheyWere DEF TimesInv

LEMMA SaveAvailableCalendarKeeps ==
    ASSUME TimesInv, UNCHANGED <<sessionVars, turned>>, SaveAvailableCalendar
    PROVE  TimesInv'
  <1>1. /\ UNCHANGED <<loaded, shown, stored, astray>>
        /\ saveTimers' \in Nat
    BY TimesAsTheyWere DEF SaveAvailableCalendar, TimesTypeOK
  <1>2. CASE route # "schedule"
    <2>1. UNCHANGED <<requests, queued, unsaved, hasty>> /\ ~loaded /\ ~queued
      BY <1>2, TimesAsTheyWere DEF SaveAvailableCalendar, TimesShape
    <2>2. UNCHANGED <<Asked("load"), Asked("save")>>
      BY <2>1 DEF Asked
    <2>3. TimesTypeOK' /\ TimesShape'
      BY <1>1, <2>1, TimesAsTheyWere DEF TimesTypeOK, TimesShape
    <2>4. TimesOwn' /\ TimesBooks'
      BY <1>2, TimesAsTheyWere DEF TimesOwn, TimesBooks
    <2> QED
      BY <2>3, <2>4, TimesAsTheyWere DEF TimesInv
  <1>3. CASE route = "schedule"
    <2>1. /\ SendAmong(requests, "save", shown)
          /\ queued' = FALSE /\ unsaved' = FALSE /\ hasty' = (hasty \/ ~loaded)
      BY <1>3 DEF SaveAvailableCalendar, Send, QueuedAfterSave
    <2>2. shown \in Contents
      BY TimesAsTheyWere DEF TimesTypeOK
    <2>3. requests' \in [Requests -> TimesRequest]
      BY <2>1, <2>2, TimesAsTheyWere, TimesSent DEF TimesTypeOK
    <2>4. PICK r \in Requests :
             /\ requests[r].kind = "none"
             /\ requests'[r].kind = "save" /\ requests'[r].who = jwt'
             /\ requests'[r].value = shown
             /\ \A s \in Requests : s # r => requests'[s] = requests[s]
      BY <2>1, <2>2, TimesAsTheyWere, SentAny DEF TimesRequest
    <2>5. /\ Asked("save")' = Asked("save") \cup {r}
          /\ Asked("load")' = Asked("load") /\ r \notin Asked("load")
      BY <2>4 DEF Asked
    <2>6. TimesTypeOK'
      BY <1>1, <2>1, <2>3, TimesAsTheyWere DEF TimesTypeOK, TimesRequest
    <2>7. TimesShape'
      <3>1. Carry(requests')
        BY <1>3, <2>2, <2>4, TimesAsTheyWere DEF TimesShape, Carry
      <3> QED
        BY <1>1, <2>1, <3>1, TimesAsTheyWere DEF TimesShape
    <2>8. TimesOwn'
      <3>1. loaded => hasty' = hasty
        BY <2>1, TimesAsTheyWere DEF TimesTypeOK
      <3>2. ~loaded => hasty' = TRUE
        BY <2>1
      <3>3. ~crossed => requests'[r].who = user
        BY <1>3, <2>4, TimesAsTheyWere
      <3>4. ASSUME ~turned, ~crossed, NEW s \in Requests, requests'[s].kind # "none"
            PROVE  requests'[s].who = user
        BY <1>3, <2>4, <3>3, <3>4, TimesAsTheyWere DEF TimesOwn
      <3> QED
        BY <1>1, <1>3, <2>5, <3>2, <3>4, TimesAsTheyWere DEF TimesOwn
    <2>9. TimesBooks'
      <3>1. \A s \in Asked("load") : requests'[s] = requests[s]
        BY <2>4, <2>5 DEF Asked
      <3>2. \A s \in Requests : Asked("save")' = {s} => requests'[s].value = shown
        BY <2>4, <2>5
      <3>3. Asked("save")' # {}
        BY <2>5
      <3>4. ~hasty' => ~hasty
        BY <2>1
      <3> QED
        BY <1>1, <2>1, <2>5, <3>1, <3>2, <3>3, <3>4, TimesAsTheyWere DEF TimesBooks
    <2> QED
      BY <2>6, <2>7, <2>8, <2>9, TimesAsTheyWere DEF TimesInv
  <1> QED
    BY <1>2, <1>3
-----------------------------------------------------------------------------
\* A load that is served, fails, or finds no page.
LEMMA LoadDroppedKeeps ==
    ASSUME TimesInv, UNCHANGED <<sessionVars, turned>>, UNCHANGED loaded, UNCHANGED timesVars,
           NEW r \in Requests, Dropped(r)
    PROVE  TimesInv'
  <1>1. /\ route # "schedule" /\ Answered(r)
        /\ UNCHANGED <<loaded, shown, queued, saveTimers, stored, unsaved, hasty, astray>>
    BY DEF Dropped, timesVars
  <1>2. /\ requests' \in [Requests -> TimesRequest]
        /\ requests'[r].kind = "none"
        /\ \A s \in Requests : s # r => requests'[s] = requests[s]
    BY <1>1, TimesAsTheyWere, TimesAnswered DEF TimesTypeOK
  <1>3. TimesTypeOK'
    BY <1>1, <1>2, TimesAsTheyWere DEF TimesTypeOK, TimesRequest
  <1>4. TimesShape'
    <2>1. Carry(requests')
      BY <1>2, TimesAsTheyWere DEF TimesShape, Carry
    <2> QED
      BY <1>1, <2>1, TimesAsTheyWere DEF TimesShape
  <1>5. TimesOwn' /\ TimesBooks'
    BY <1>1, TimesAsTheyWere DEF TimesOwn, TimesBooks
  <1> QED
    BY <1>3, <1>4, <1>5, TimesAsTheyWere DEF TimesInv

LEMMA LoadServedKeeps ==
    ASSUME TimesInv, UNCHANGED <<sessionVars, turned>>, UNCHANGED loaded, UNCHANGED timesVars,
           NEW r \in Requests, requests[r].kind = "load",
           \/ Serve(r, "failed", 0)
           \/ Serve(r, "ok", stored[requests[r].who])
    PROVE  TimesInv'
  <1>1. UNCHANGED <<loaded, shown, queued, saveTimers, stored, unsaved, hasty, astray>>
    BY DEF timesVars
  <1>2. stored[requests[r].who] \in Contents
    BY TimesWho, TimesAsTheyWere DEF TimesTypeOK
  <1>3. PICK stage \in {"ok", "failed"}, value \in Contents \cup {0} :
           /\ Serve(r, stage, value)
           /\ stage = "ok" => value = stored[requests[r].who]
    BY <1>2
  <1>4. /\ requests' \in [Requests -> TimesRequest]
        /\ requests'[r].kind = "load" /\ requests'[r].who = requests[r].who
        /\ requests'[r].stage = stage /\ requests'[r].value = value
        /\ \A s \in Requests : s # r => requests'[s] = requests[s]
    <2>1. requests[r].kind # "none"
      OBVIOUS
    \* The sets by names, as ServedAny has them.
    <2>2. PICK kinds, values, stages :
             /\ kinds = {"load", "save"} /\ stages = {"sent", "ok", "failed"}
             /\ values = Contents \cup {0}
      OBVIOUS
    <2>3. stage \in stages /\ value \in values /\ TimesRequest = Request(kinds, stages, values)
      BY <2>2 DEF TimesRequest
    <2>4. requests \in [Requests -> Request(kinds, stages, values)]
      BY <2>3, TimesAsTheyWere
    <2> QED
      BY <1>3, <2>1, <2>3, <2>4, ServedAny
  <1>5. UNCHANGED <<Asked("load"), Asked("save")>>
    BY <1>4 DEF Asked
  <1>6. TimesTypeOK'
    BY <1>1, <1>4, TimesAsTheyWere DEF TimesTypeOK, TimesRequest
  <1>7. TimesShape'
    <2>1. Carry(requests')
      BY <1>2, <1>3, <1>4, TimesAsTheyWere DEF TimesShape, Carry
    <2> QED
      BY <1>1, <2>1, TimesAsTheyWere DEF TimesShape
  <1>8. \A s \in Requests : requests'[s].kind = requests[s].kind /\ requests'[s].who = requests[s].who
    BY <1>4
  <1>9. TimesOwn'
    BY <1>1, <1>5, <1>8, TimesAsTheyWere DEF TimesOwn
  <1>10. TimesBooks'
    <2>1. ASSUME route = "schedule", ~turned, ~hasty, ~astray, ~crossed,
                 NEW s \in Asked("load"), requests'[s].stage = "ok"
          PROVE  requests'[s].value = stored[user]
      <3>1. CASE s = r
        BY <1>3, <1>4, <2>1, <3>1, TimesAsTheyWere DEF TimesOwn
      <3>2. CASE s # r
        BY <1>4, <2>1, <3>2, TimesAsTheyWere DEF TimesBooks, Asked
      <3> QED
        BY <3>1, <3>2
    <2>2. \A s \in Requests : Asked("save") = {s} => requests'[s] = requests[s]
      BY <1>4 DEF Asked
    <2> QED
      BY <1>1, <1>5, <2>1, <2>2, TimesAsTheyWere DEF TimesBooks
  <1> QED
    BY <1>6, <1>7, <1>9, <1>10, TimesAsTheyWere DEF TimesInv

\* A save that is not overtaken and not lost leaves in the table what the page shows.
LEMMA ServeSaveKeeps ==
    ASSUME TimesInv, UNCHANGED <<sessionVars, turned>>, UNCHANGED loaded,
           NEW r \in Requests, ServeSave(r)
    PROVE  TimesInv'
  <1>1. /\ UNCHANGED <<loaded, shown, queued, saveTimers, unsaved, hasty>>
        /\ Answered(r) /\ requests[r].kind = "save"
        /\ \/ stored' = [stored EXCEPT ![requests[r].who] = requests[r].value]
           \/ stored' = stored
        /\ astray' = (astray \/ UnderWay({"save"}) # {r}
                             \/ stored'[requests[r].who] # requests[r].value)
    BY DEF ServeSave
  <1>2. /\ requests' \in [Requests -> TimesRequest]
        /\ requests'[r].kind = "none"
        /\ \A s \in Requests : s # r => requests'[s] = requests[s]
    BY <1>1, TimesAsTheyWere, TimesAnswered DEF TimesTypeOK
  <1>3. /\ Asked("save")' = Asked("save") \ {r} /\ r \in Asked("save")
        /\ Asked("load")' = Asked("load") /\ r \notin Asked("load")
    BY <1>1, <1>2 DEF Asked
  <1>4. requests[r].value \in Contents /\ requests[r].who \in Users
    BY <1>1, TimesWho, TimesAsTheyWere DEF TimesShape, Carry
  <1>5. stored' \in [Users -> Contents] /\ astray' \in BOOLEAN
    BY <1>1, <1>4, TimesAsTheyWere DEF TimesTypeOK
  <1>6. TimesTypeOK'
    BY <1>1, <1>2, <1>5, TimesAsTheyWere DEF TimesTypeOK, TimesRequest
  <1>7. TimesShape'
    <2>1. Carry(requests')
      BY <1>2, TimesAsTheyWere DEF TimesShape, Carry
    <2> QED
      BY <1>1, <2>1, TimesAsTheyWere DEF TimesShape
  <1>8. TimesOwn'
    BY <1>1, <1>2, <1>3, TimesAsTheyWere DEF TimesOwn
  <1>9. TimesBooks'
    <2>1. ASSUME route = "schedule", ~turned, ~hasty, ~astray', ~crossed
          PROVE  /\ loaded
                 /\ Asked("load")' = {} /\ Asked("save")' = {}
                 /\ ~queued /\ ~unsaved => stored'[user] = shown
      <3>1. loaded /\ Asked("load") = {}
        BY <1>3, <2>1, TimesAsTheyWere DEF TimesOwn
      <3>2. ~astray /\ Asked("save") = {r}
        BY <1>1, <2>1 DEF UnderWay, Asked
      <3>3. stored'[requests[r].who] = requests[r].value
        BY <1>1, <2>1
      <3>4. requests[r].who = user
        BY <1>1, <2>1, TimesAsTheyWere DEF TimesOwn
      <3>5. ~queued /\ ~unsaved => requests[r].value = shown
        BY <2>1, <3>1, <3>2, TimesAsTheyWere DEF TimesBooks
      <3> QED
        BY <1>3, <3>1, <3>2, <3>3, <3>4, <3>5
    <2> QED
      BY <1>1, <2>1, TimesAsTheyWere DEF TimesBooks
  <1> QED
    BY <1>6, <1>7, <1>8, <1>9, TimesAsTheyWere DEF TimesInv
-----------------------------------------------------------------------------
LEMMA NextTimes == TimesInv /\ [TimesNext]_allTimesVars => TimesInv'
  <1> SUFFICES ASSUME TimesInv, [TimesNext]_allTimesVars PROVE TimesInv'
    OBVIOUS
  <1>1. CASE TimesSessionStep
    BY <1>1, TimesSessionStepKeeps
  <1>2. ASSUME UNCHANGED <<sessionVars, turned>>, TimesPageStep PROVE TimesInv'
    <2>1. ASSUME NEW r \in Requests, TimesProceeds(r), UNCHANGED loaded PROVE TimesInv'
      <3>1. CASE requests[r].kind = "load" /\ Fails(r) /\ UNCHANGED timesVars
        BY <1>2, <2>1, <3>1, LoadServedKeeps DEF Fails
      <3>2. CASE ServeLoad(r)
        BY <1>2, <2>1, <3>2, LoadServedKeeps DEF ServeLoad
      <3> QED
        BY <1>2, <2>1, <3>1, <3>2, LoadDroppedKeeps, ServeSaveKeeps DEF TimesProceeds
    <2> QED
      BY <1>2, <2>1, TimesLoadedKeeps, SaveMsgKeeps, UnsavedMsgKeeps, SaveAvailableCalendarKeeps
         DEF TimesPageStep
  <1>3. CASE UNCHANGED allTimesVars
    <2>1. /\ UNCHANGED <<sessionVars, turned>>
          /\ UNCHANGED <<loaded, requests, shown, queued, saveTimers, stored, unsaved, hasty,
                         astray>>
      BY <1>3 DEF allTimesVars, visitVars, timesVars
    <2>2. UNCHANGED <<Asked("load"), Asked("save")>>
      BY <2>1 DEF Asked
    <2>3. TimesTypeOK' /\ TimesShape'
      BY <2>1, TimesAsTheyWere DEF TimesTypeOK, TimesShape
    <2>4. TimesOwn' /\ TimesBooks'
      BY <2>1, <2>2, TimesAsTheyWere DEF TimesOwn, TimesBooks
    <2> QED
      BY <2>1, <2>3, <2>4, TimesAsTheyWere DEF TimesInv
  <1> QED
    BY <1>1, <1>2, <1>3 DEF TimesNext

LEMMA TimesInvImplies == TimesInv => AvailabilityIsSaved
  <1> SUFFICES ASSUME TimesInv PROVE AvailabilityIsSaved
    OBVIOUS
  <1>1. ASSUME loaded, ~queued, NothingUnderWay, ~turned, ~hasty, ~astray, ~crossed, ~unsaved
        PROVE  stored[user] = shown
    <2>1. Asked("save") = {}
      BY <1>1 DEF Asked, NothingUnderWay, None
    <2> QED
      BY <1>1, <2>1 DEF TimesInv, TimesShape, TimesBooks
  <1> QED
    BY <1>1 DEF TimesInv, TimesShape, AvailabilityIsSaved

LEMMA TimesInvHolds == TimesSpec => []TimesInv
  BY InitTimes, NextTimes, PTL DEF TimesSpec

\* No edit of the available times waits without a timer; and a page that was opened
\* with nothing under way comes to agree with the table, for any users, requests,
\* contents and timers, and whatever the order in which edits, timers and answers come.
THEOREM AvailableTimesAreSaved == TimesSpec => []AvailabilityIsSaved
  BY TimesInvHolds, TimesInvImplies, PTL
=============================================================================
