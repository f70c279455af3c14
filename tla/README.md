# Zeitplan in TLA+

Zeitplan finds a time for every meeting of a set: the meetings have
participants, the participants have times they cannot come, and the organiser
has times that are available. This directory models the program in TLA+,
model-checks it with TLC on small instances, and proves its central results
with TLAPS for all instances.

Paths are relative to the repository. `MAX` stands for the largest value of the
integer type `N` that the library is generic over; `N` is taken to be unsigned,
as in every use the program makes of it (`u16` in the lambdas and the bindings).

## 1. The system

| Part | Code | State it keeps | Operations |
|---|---|---|---|
| Time ranges | `zeitplan-libs/src/time.rs` | iterators over sorted start and end events | `time_merge`, `blocks`, `windowed`, `count_pigeons` |
| Meetings, participants | `zeitplan-libs/src/meeting.rs`, `participant.rs` | none | `From<MeetingParticipants>`, `get_availability`, `validate` |
| Backtracking search | `Schedule::schedule_setup` in `schedule.rs` | index per meeting, tree and stack of times given away, budget, shared stop flag | one pass over the meetings per check |
| Parallel search | `Schedule::schedule_meetings` with `rayon` | one search per configuration, the pool, the flag | `par_bridge().find_map_any(..).unwrap()` |
| Scheduling lambdas | `infrastructure/lambdas/schedule_meetings`, `precheck_schedule`, `Schedule::setup` | none between requests | validate, availability, pigeonholes, sort, search, response |
| computeSchedule, validate | AppSync pipelines, `infrastructure/lib/zeitplan-cdk.ts` 1012-1596 | `users` (credits, events), `schedules` | read credits, meetings, calendars; invoke; save; deduct |
| Calendar and meeting tables | resolvers, `zeitplan-cdk.ts` 389-777 | `calendars`, `meetings` | save, delete, query; `deleteCalendar` reads, then writes a transaction |
| Checkout | Go lambdas `create_`, `update_`, `cancel_payment_intent`, `stripe_webhook` | `payments`, credits, Stripe's intents | create, change, cancel, pay, webhook |
| User creation, credit stream | `create_user`, `user_db_stream` | `users` | put if absent; publish changes (its event source is commented out) |
| Schedule page | `web/src/Pages/Schedule.elm` | calendars, meetings, available times, save queues, timers, modal, credits | edits, delayed saves, requests and answers in flight |
| Calendar widget | `web/src/Calendar.elm` | events, blocked days, a drag, resize or creation in progress | mouse events, `addEvent` |
| Session, login | `web/src/Shared.elm`, `Main.elm`, `Auth.elm`, `Pages/Login.elm`, ports in `index.ts` | user and token, the open page, refresh timers; the session Amplify keeps | login, logout, refresh, visibility, links, reloads |

The page saves calendars and meetings through the AppSync resolvers, several
requests in flight at a time, and asks for a schedule with `computeSchedule`.
That pipeline reads the user's tables, one request after another, and invokes
the scheduling lambda, which runs the library's parallel search with a budget of
10,000 checks a credit. The webhook adds credits when a payment succeeds.

What is hard here: the bookkeeping of the search over long series of placements
and backtracks, in a tree whose order is no total order; ranges at the two ends
of `N`; the race of searches for the answer; and, outside the library, tables
that are read in one request and written in another, calls that may be
repeated, lost or late, and timers. `PROJECT.json` lists each hazard at its
line with the properties that answer to it.

## 2. What the parts promise, and where it is stated

- *Ranges.* Blocking yields exactly the slots that are available and not
  blocked, as maximal ranges, at every point of the iteration and up to both
  ends of `N`; the `unreachable!()` is unreachable (`YieldsFreeSlots`). Windowing
  yields each position once, in order (`WindowsInOrder`). The sort key counts
  positions (`SlackCountsWindows`).
- *One search.* It implements `SearchContract`: an answer is a conflict-free
  timetable, NoSolution is only said when there is none, a spent budget only
  when it is spent, Interrupted only once another search has decided. It passes
  no placement by, returns the first fit, never looks at a placement twice and
  ends.
- *Parallel search.* The answer is true, whichever thread gives it; `unwrap`
  never meets `None`; a decision taken before the primary has looked at the flag for
  the last time reaches the caller, and one taken later need not; the call returns even
  if no thread but the caller's takes part.
- *A request.* The timetable is one the request asks for, each meeting is in it
  or among the failed ones, the pigeonhole check refuses exactly the requests
  that ask for more slots than there are, however the sum overflows.
- *Tables.* `deleteCalendar` is a query and a transaction. If no meeting changes
  between the two, the transaction leaves what one atomic step would leave
  (`DeleteIsAtomic`) and no meeting without participants (`ParticipantsRemain`);
  if one does, it still takes no one out but its own participant and brings no
  meeting back (`OthersStay`, a theorem without a run).
- *Pipelines.* The problem that reaches the scheduler has, for every participant
  of every meeting that was read, the times this participant cannot come, though
  calendars may be deleted between the two reads (`EveryoneConsidered`). Credits
  are deducted once for a request, by what it was admitted for, and only for a
  schedule that is in the table (`KeepsTheBooks`, the ledger `CreditLedger`); how
  far requests in flight can overdraw them is bounded (`OverdraftBounded`).
- *Checkout.* The credits of an order are those its intent is priced for, unless an
  update is between its two calls or something came between them
  (`PriceMatchesOrder`). Credits are given for money only, and at each delivery of
  the event as many as were paid for (`GrantedAsPaid`). What can be paid has its
  row, unless a cancellation has taken it (`PayableIsKnown`), and what is paid is
  credited in the end but for that (`PaidIsCreditedOrCanceled`). Sign-up, webhook
  and `saveEvents`, each of which may make the user's row, take nothing from one
  another (`CreditsOnlyAdded`, a theorem without a run).
- *Calendar widget.* Events neither overlap nor adjoin, whatever order the mouse's
  messages come in (`EventsApart`); a step takes slots from one event at most
  (`OneEventAtATime`). Both have exceptions, gestures that are cut off; what is
  dropped is there as it was shown even then (`DroppedAsShown`).
- *Schedule page, participants and meetings.* Once the page is loaded and nothing is
  queued or under way, the tables hold what it shows (`QuietIsSaved`), though the load
  reads calendars and meetings one after the other, calendars are saved with a delay,
  deletions are worked out twice, and no other answer is looked at. A queued edit has
  a timer, whichever page started it (`NoEditStranded`). An edit goes to the calendar
  that is shown, and a new participant replaces nobody (`NoCalendarOverwritten`);
  nobody meets who is not a participant (`MeetingsAreOfParticipants`). All but the second
  end where the load of an earlier visit is answered on this page; the first and the last
  end where a request has gone astray, too.
- *Schedule page, available times.* The same for the one calendar that is not a
  participant's, whose timer outlives its page (`AvailabilityIsSaved`).
- *Schedule page, modal.* Every review that was asked for buys one schedule at most,
  though an answer opens whichever review is awaited (`EachReviewBuysOnce`). The credits
  shown are the user's (`CreditsAsShown`), with exceptions. What loads waits for
  something, unless a schedule failed (`LoadingEnds`).
- *Schedule page, estimate.* The meetings that the page lists as impossible while a
  schedule is reviewed: it errs to one side, and only over slots that it cannot see
  (`EstimateErrsOneWay`).
- *Session.* Unless identity calls overlapped, the program shows the user Amplify has
  logged in and sends nobody else's token (`SessionIsOne`); the token of whoever is
  logged in is renewed for ever, or until a renewal is refused (`TokenIsRenewed`,
  `RenewalGoesOn`).

## 3. Modules

```
TimeOrder ── Placements ── SearchContract         what a search promises
    │             ├─────── BacktrackSearch        how one search works
    │             └─────── ParallelSearch         many searches, one answer
    │                           └── ParallelSearchProofs
    └── TimeRanges ──────── Availability          blocks and windows, next() by next()
              │                 └── PageEstimate  what the page makes of the same request
              ├── TimeRangesProofs                the arithmetic of ranges
              │      ├── AvailabilityProofs       (of Availability and PageEstimate)
              │      └── ScheduleMeetingsProofs   (of BacktrackSearch and ScheduleMeetings)
              └──────────── ScheduleMeetings      a request from end to end
                                 (EXTENDS BacktrackSearch too)
UserTables ── ComputeSchedule ── CreditLedger     the backend: tables, pipelines,
    │                │          (INSTANCE)        and the credits they may spend
    └── SchedulePage │                            the page, its requests, the tables
             └───────┴── SchedulePageProofs       (of all three)
Session ── PageVisits ── ScheduleModal            who is logged in; pages that come and
                │             │                   go; how a schedule is bought
                └── AvailableCalendar             the available times and their timer
                              └── PageVisitsProofs   (of all four)
CalendarWidget ── CalendarWidgetProofs            the page's calendars, by mouse
Checkout ── CheckoutProofs                        purchases and the user's row
MCBacktrackSearch, MCAvailability, MCParallelSearch, MCScheduleMeetings,
MCComputeSchedule, MCCheckout, MCCalendarWidget, MCSchedulePage, MCSession,
MCScheduleModal, MCAvailableCalendar
```

`TimeOrder` has the ranges and the order of the solution tree
(`InternalTimeRange`), in which ranges that share a slot are Equal. `Placements`
defines problems and their solutions without reference to any search.

**BacktrackSearch** is `schedule_setup`. Variables are the function's own: `nth`,
`count_iter`, `state`, `solution`, `last_key`, and the flag it shares with the other
searches. The head of the loop is two steps, since another search may decide between
them: the look at the flag (`ObserveStop`, which returns, or `PassFlag`), then that at
the budget (`GiveUp`, which returns, or `BeginPass`); the closure given to `all` is
`Place` for its `Some` arm and `Backtrack` for its `None` arm, one action per meeting
visited; `ReportOk` and `ReportNoSolution` are the two returns. `OtherSearchDecides` is
the rest of the pool seen from here: it may raise the flag between any two steps. `len`
may exceed the number of meetings searched, because `setup` leaves out the ones that fit
nowhere and the caller passes the length of the full list. The tree is a set of entries
and lookups take any entry that compares Equal; that this is what a `BTreeMap` does
rests on its keys being disjoint, which `TreeMatchesStack` states.

**ParallelSearch** is the `rayon` half of `schedule_meetings`. A search is known
by its contract and its cost, the number of the check in which it decides; the
flag is read where the code does it, by each search at the head of its loop, before the
budget is looked at and in a step of its own (`PassFlag`, then `GiveUp` or `Check`). The
contract has that step as `Look`: whoever decides after it does so too late for this
check. A thread looks whether `find_map_any` has found something
(`LookFull`), asks the shared iterator for a configuration (`Pull`), runs its
search, and passes the result on or drops it (`Report`, the closure). `Answer`
takes any of the results there are, and is a panic if there is none. The pool is
rayon's and modelled from how it is used: the calling thread takes part, others
may join at any time or never.

**TimeRanges** gives each iterator as its reaction to one event (`MergeStep`,
`BlockStep`, `WindowStep`) and runs it over the events; `Availability` runs the same
steps one `next()` at a time, so that the properties hold at every intermediate point.
An addition that `checked_add` refuses at `MAX` is refused in the model too.

**PageEstimate** has the page's own arithmetic, `MergeTimes`, `SubtractTimes` and
`DayToEvent`, over the requests of Availability, so that what the page believes can be
compared with the positions the pipeline and the library find. A list is a sequence
here, because which part of an event is kept depends on its order.

**ScheduleMeetings** is one request to either lambda: `Validate`,
`ListAvailability`, `RefusePigeons` or `PassSetup` (all of `setup`), `Sort` (the
sort is unstable: every order that the key allows), then the steps of
`BacktrackSearch`, whose variables it has beside its own, then `Respond`. The search is
set up anew by `Sort`, as the call of `schedule_setup` does; until then it has no
meetings. It is the build without `rayon`; with it, the search is ParallelSearch's.

**UserTables** is one user's part of the calendars and meetings tables (every key starts
with the user's name, so that users do not meet; `NoCalendars` and `NoMeetings` are
empty tables). A resolver that is one call to DynamoDB is one action. `deleteCalendar`
is a pipeline of two calls: `GetAffected` keeps the keys of the meetings it found,
sorted as the code sorts them, and `DeleteTransaction` writes from those keys alone; any
other request can come between. The history variable `disturbed` remembers whether one
that changes meetings did. A meeting is its set of participants; `{}` is an item whose
set attribute is gone, `Absent` no item. From DynamoDB it is assumed that a transaction
is all or nothing, that an empty set is refused in a put and drops the attribute in an
update, and that removing an element from an attribute of an item that does not exist
creates no item.

**ComputeSchedule** adds the pipelines `computeSchedule` and `validate`, one
action per function of the pipeline, with the tables' requests between any two of
them. A request slot carries what the pipeline's `context.prev.result` and its
arguments carry: the offer, the meetings as read, the problem posed, and the
millisecond of its row. Where the code throws (a calendar that the batch did not
find, a meeting without participants) the request ends; `Abort` is every other
failure, a time limit, or a user without availability. Two resolvers that run in
the same millisecond see the same `now`, so that one row can overwrite another.
What a calendar says is one opaque value: its translation into slots is data that
these properties do not tell apart, and the search itself is ScheduleMeetings'.
`validate` has no argument `credits`, and no comparison with an undefined value
holds, so it is admitted whatever the balance. `Grant` is the webhook's addition.

**CreditLedger** is the abstract specification: admit, record, charge, waive. The
mapping takes a request to the account `recorded` only while there is a row where
it was saved.

**Checkout** is one user's purchases. The lambdas make one call to Stripe and one to
the payments table; each call is an action, in the order of the code: `NewIntent`
then `PutOrder`, `UpdateIntent` then `UpdateOrder`, but `DeleteOrder` then
`CancelIntent`. Between the two a slot of `calls` holds what the lambda still has
to do, and `Fail` is the second call failing or never being made; a first call that
fails changes nothing. The webhook reads the order (`Receive`), then adds the
credits and marks the order complete in one transaction (`Credit`); `LoseDelivery`
is each of its error returns. Stripe delivers at least once: an event may be
received again although it was credited (up to `MaxReceived` times). The intent's id
and secret are with the page (`secrets`) once the answer has arrived, which it need
not; `Pay` needs no more. An item that is not there is read as zero values, and the
transaction would then address a user without a name, which DynamoDB refuses.
`create_user` runs after sign-up and after a new password, `saveEvents` updates the
user's row or makes one. A price is known by the credits it is computed from, since
`ComputeCreditAmount` grows with every credit from 5 to 250. The
history variable `broken` remembers the orders of which an update or a cancellation
did not stay whole: its second call failed, Stripe refused it, or a payment or
another update came in between. The additions to the balance are `Grant` of
ComputeSchedule, which has the deductions.

**CalendarWidget** is `update` of `Calendar.elm`, one action per message, each with
the guard under which `view` attaches its handler to a cell: the cells of a blocked
day have none, the resize handles are on the first and last cell of an event, the
draft is drawn over what lies below it. A gesture is therefore not bracketed by
button down and button up: over a blocked day, in the header row or on the delete
button the release is not seen. `Load` is the page putting other events in, whatever
the mouse is doing. The list of events is a set: events that are equal are treated
alike by every message, and are drawn as one; where the code takes the first that
matches, or the last that is merged, any may be taken. A message is handled before
the next is created: the moment in which the browser still shows the view of the
state before is left out. The history variable `cut` remembers that a resize was left
by the mouse leaving the calendar, or that a drag or a resize was still going on when
the next gesture began.

**SchedulePage** is one open page over the tables of UserTables. The page's variables
are those of its `Model` that participants and meetings depend on; `participants`,
`pageMeetings` and `participantCalendar` change at once, and `requests` holds what was
sent and is not answered, in the order of sending, though any may be answered first
(`AnswerCall`, or `BeginDelete` and `EndDelete`, which are the actions of UserTables)
or lost. A message of the widget is known by what it makes of the calendar and by
whether `isSaveMsg` holds: `SaveMsg` queues the participant and starts the timer if
the queue was empty, `UnsavedMsg` is `ResizeEventTo`. `SaveParticipantQueue` is the
timer, and sends the calendars as they are by then. The buttons' guards are those of
the view: no calendar takes the mouse while nobody is selected, and the deletion modal is
opened for the selected participant, whose name it keeps whatever is selected afterwards.
The button that creates a meeting needs somebody ticked, but the form can also be
submitted from the search field inside it, and no handler checks: `CreateMeeting` may ask
for a meeting of nobody, which the table refuses (`LoseRequest`) and the page shows.
Which participant is first in a `Dict` is left open. The identifier of a meeting is
the time; one that no part of the system knows any more stands for a new one.

`Reload` is the program loaded anew, or the page left and opened again: the page is blank,
covered, and has asked for its load. The load is one query whose fields are resolved one
by one (`ReadCalendars`, `ReadMeetings`), and its answer, `OwnDataLoaded`, replaces what
the page shows and takes the cover away, but leaves alone what was typed, ticked and
queued. A load that is under way when the page is left is not cancelled, and its answer
is handed to the page that is open (`EarlierDataLoaded`); such an answer may be as old as
that visit, so it carries any of the constant `EarlierData`. `LoseLoad` is an answer with
an error or none. The cover keeps the mouse off, not the keyboard, so that a name may be
typed and a meeting created before the load is answered. A reload may leave timers of the
earlier page running, which then ring for the queue of this one: `timers` counts all of
them. History: `unsaved` are the calendars whose last change saves nothing; `muddled` says
that the load of an earlier visit was answered on this page, or that it was used before
its own was; `astray` that a request was lost, left behind by a reload, or answered before
an earlier one that touches the same rows, or that a muddled page was left.

**Session** is one tab of the browser. `cognito` is the session that Amplify keeps in
the browser's storage; `user` and `jwt` are what the Elm program believes. A slot of
`calls` is a promise of `index.ts`: a login is three steps (`Authenticated`,
`ReadSession`, and `LogInUser`, the message to the program), a logout two, a renewal
two, and any of them may interleave with any other. The answer of a login is heard by
the login page only; a token names nobody and is taken by whoever is logged in. A
`route` is a page: the login page and the schedule page, which redirect, and one that
stands for all others. `Load` is the browser loading the program, which ends
everything that was under way; a login with Google is another load. `timers` counts
the `delayUntilTimestamp` that run; a load with a user starts one, and so does each
token that arrives and each time the tab becomes visible. History: `crossed` says that
a login or logout overlapped with another call, `strayed` that the program missed what
Amplify did (a login that nobody heard of, a logout that failed), `refused` that a
renewal was refused and no timer was started since. Whether a password is right, and
whose it is, is left open.

**PageVisits** puts the schedule page into Session. Each time `ChangedUrl` leads to it
the page starts from nothing and asks for the user's data, with the token of the moment;
requests are not cancelled when a page goes, and the framework hands an answer to
whichever schedule page is open. A load of the program (`LoadProgram`) forgets every
answer, but not what a request was sent to do: it keeps the kinds of requests that do
something wherever their answer goes. `turned` remembers that this page was opened while
something of that sort was under way, or, without a load of the program, anything at all.
ScheduleModal and AvailableCalendar are two sides of the page
that do not touch each other, each composed with its own requests.

**ScheduleModal** is the way to a schedule: `BeginScheduleRequest` (validation),
`ValidationResponse`, `RequestSchedule`, `ScheduleResponse`, and the modal's background,
`CloseModal`. On the other side are the balance, the admission and the deduction of
`computeSchedule` (whose interplay is ComputeSchedule's), each of which may fail, with
the answer or without. `Elsewhere` is every other change of a balance, that by a
`computeSchedule` which a load of the program left behind among them. A modal that is
another of the page's modals counts as closed. History: `unspent` counts reviews that
were asked for and have not been spent, `drifted` says that credits changed past this
page, `failed` that it was told of a failure.

**AvailableCalendar** is the calendar of available times: loaded with the rest, edited by
the widget's messages (`SaveMsg`, `UnsavedMsg`), saved by a timer, `saveEvents` at the
other end. A save that is sent is carried out or not, even if the program is loaded anew
meanwhile, and then the table may change after the new page has read it (`turned`).
History: `hasty` says that a timer rang before the page was loaded, `astray`
that a save was lost or overtaken, `unsaved` is as in SchedulePage.

In the models with tables a read returns what is in the table; the code
asks DynamoDB for eventually consistent reads, which may lag behind for a moment. In
the models of pages, as in the widget's, the view is drawn anew between two messages:
a button that a message takes away is not pressed in the moment before.

Operators commented `Mutant:` are variants of the definition below them with a
plausible mistake. Nothing in the specifications uses them; each was put in the
place of the definition it precedes to see that a property then fails.

## 4. Runs

| Run | Question | Instance |
|---|---|---|
| `backtrack` | Does one search keep its contract, its bookkeeping and its termination? | every sequence of up to 3 meetings with 7 window lists over slots 0..3, of 4 meetings that compete for 3 slots; budgets none, 0, 1, 4; up to one meeting left out; the flag raised at any time |
| `availability` | Are blocked times, windows and the sort key right at every point and at both ends of `N`? Is the page's estimate? | slots 0..3, days of one slot, so that 0 and `MAX` are next to everything; up to two available ranges, overlapping, adjacent or apart, and one or two participants with up to three blocked ranges |
| `parallel` | Is the answer sound and does it arrive? | 2 threads, primary and up to 2 workers, budgets none, 0, 1, 2, decisions in the first or second check, solvable and unsolvable problems |
| `schedule` | Is the response right for the request? | slots 0..3, up to 3 meetings of different lengths and blocked times, upside-down ranges and empty durations, both lambdas |
| `compute` | Does a problem leave someone out? Are credits deducted rightly, and how far can they be overdrawn? What does a `deleteCalendar` do that others interleave with? | 2 pipelines, 2 calendars, 1 meeting, 1 deletion, saves and deletions at any time, offers -1, 0 and 2, balance up to 2, 2 milliseconds |
| `widget` | Do events stay apart, whatever the mouse does? | 2 days of 3 slots, up to 2 events when one is begun, two calendars to load, each day blocked or not |
| `page` | Does a quiet page show what the tables hold? Are edits queued, sent and kept apart? | 2 participants, 2 contents of a calendar, 1 meeting, 1 deletion, 2 requests queued or under way, 2 timers, 1 load of an earlier visit under way, with 4 possible answers; `Bound` |
| `session` | Do program and Amplify agree on the user? Is the token renewed? | 2 users, 3 calls to Amplify under way, 2 timers when one logs in or comes back |
| `modal` | Can a review buy twice? Are the credits shown those there are? | 2 users, 1 call to Amplify, 2 requests, balances up to 1 before deductions, 2 unspent reviews |
| `available` | Do the available times reach the table, whoever's timer rings? | 2 users, 2 calls to Amplify, 2 requests, 2 contents, 2 timers |
| `checkout` | Do price, order, payment and credits stay together, and is every payment credited? | 1 order, 3 calls and 2 deliveries at a time, offers -1 to 3 where 1 and 2 are allowed, each payment credited up to twice |
| `paid_not_credited` | the finding of section 5 | 1 order, 1 call, 1 delivery |

Types are proved, not run, where there are proofs (section 6); in the other modules
`TypeOK` is a conjunct of one of the invariants.

The bounds are small and still reach what matters: three meetings are the least with
which a backtrack can go past a meeting placed meanwhile, four slots hold a range that
touches neither, one or both ends of `N`, and budgets 0 and 1 fall before and between
the checks. `UsizeMax` caps `count_iter` and is above what any of the problems needs;
`MaxCost`, `MaxShuffles` and `MaxDropped` are named where they are declared. A
deletion and the saves and deletions of single rows come between a query and its
transaction in every way there is but one, a second `deleteCalendar`, which the
theorems have (section 6); two pipelines are the least that can be admitted on the
same credit (that the overdraft grows with their number, and requests of different
costs, are left to the proof), and offers of 2 against a balance of 1 fall short by
one; two milliseconds let schedules meet or miss each other. `MaxCredits` caps what is
granted, not what is deducted. Three calls let two updates of one order and a
cancellation overlap in every way; two deliveries let one read before and one after
what a lambda writes; several orders share nothing but the balance, and the proof is
for any number. Six slots hold two events that do not touch with room to move, an
event across midnight, and a day that is blocked beside one that is not; `MaxEvents`
bounds events when one is begun. Two participants are the least of whom one can be
shown while the other is queued; two requests are the least that can overtake one
another (`MaxRequests`), one load of an earlier visit (`MaxLoads`) the least that can come
before or after this visit's, and its answers (`MCEarlierData`) have nobody, one who meets
alone, or both with calendars of another content. `Bound` is a constraint of the run: once
a request has gone astray or the page is muddled, states with a request under way, or with
an edit that saves nothing, are not followed further, since what the page shows and what
the tables hold may have parted; other pages go on, whatever came before, and the theorems
cover every case. Two users are
the least who can be mistaken for one another. Three calls let a login, a logout and a
renewal overlap; `MaxTimers` of Session stops logins and returns to the tab, which
would start more timers, not the renewals. `modal` and `available` have fewer calls,
since what crossing logins do to the session is the question of `session`: they have
logins, logouts and pages that turn while requests are under way, and two requests are
the least that can be mistaken or overtake each other. The proof about the modal is
for any number of each. `MaxCredits` of ScheduleModal caps the balances given
elsewhere and how far below zero the page may count before it asks for no more;
`MaxUnspent` caps the reviews that wait at once. Deadlock is checked in the runs of
checkout, widget, page, session, modal and available, where it shows little, since
there is always something that a user may do; elsewhere the models of calls do nothing
more once the call has returned, and users may leave the tables alone.

### Fairness

`backtrack` assumes weak fairness of the search's own steps: the thread that runs it
is scheduled. It does not assume that anyone raises the flag. `parallel` assumes weak
fairness of each thread's work and of the return of `find_map_any`, but not of `Join`:
the pool need never send a second thread, and the properties hold without it.
`checkout` and `paid_not_credited` assume that a cancellation and a delivery that have
begun end, because a lambda has a time limit (weak fairness), and that Stripe repeats
a delivery that failed, and that the webhook does not fail for ever over an order that
it could credit (strong fairness: deliveries come and go). Nobody need pay. `session`
assumes that a timer that has been started rings (weak fairness of
`RequestRefreshToken`), because the browser's clock goes on, and that every promise of
Amplify's settles, one way or the other (weak fairness for each call): its requests
have time limits. Nobody need log in or out, and nothing is assumed of whether a
renewal is granted. The other runs have no liveness: the iterations are bounded by the
data they consume, and nothing makes a user send a request or AppSync finish one.

## 5. What the code does otherwise than its documentation says

`paid_not_credited`: a cancellation deletes the order, then cancels the intent
(`cancel_payment_intent.go` 89 and 96). If the payment is made between the two, or
was before the first and is not credited yet, the intent stays paid and each
delivery of its event finds no order. `PaymentConfirmation.elm` 75 tells whoever has
paid that credits have been added. `PaidIsCreditedOrCanceled` shows that
nothing else stands between a payment and its credits.

More was seen. These are visible in the models, mostly as what a property exempts by
name; none of them has a run of its own:

- `NoSolution` is answered although a timetable exists: the window of a single slot
  that starts at `MAX` is never yielded, because `TimeWindow::next` computes `start +
  1` with `checked_add(..)?` before it returns the window (`time.rs` 501 and 516).
  `setup` counts that slot, so the request passes the pigeonhole check. The library's
  README (line 124) says that `NoSolution` indicates that no solution existed.
  `WindowsInOrder` and `RefusalSound` show that this slot is the only thing lost.
- Credits are compared when a pipeline begins (`zeitplan-cdk.ts` 1045) and subtracted
  without a condition when it ends (1500). Two requests in flight spend the same
  credits. `OverdraftBounded` says how far this can go.
- The timer that saves the available times (`Schedule.elm` 1042) saves whatever the
  page shows that is open when it rings: after a quick return to the page the empty
  calendar of a page that is not loaded yet, or what another user has by now
  (`AvailabilityIsSaved` exempts `hasty` and `turned`). The edit that the timer was
  started for is lost with its page, and so are the edits of participants that were
  queued.
- An answer that an earlier schedule page asked for is handed to the one that is open,
  another user's, too (`CreditsAsShown` exempts `turned`). If it is that of the initial
  load (`Schedule.elm` 792), it replaces participants, meetings and calendars with what
  they were, after edits were made and saved; a name that was validated as new may then be
  somebody's, whose calendar is overwritten with an empty one when it is submitted, while
  the widget shows the old one; and names that are gone stay ticked for a new meeting. The
  properties of the page exempt `muddled`. A saveEvents that was sent before the program
  was loaded anew may be carried out after it has read the table (`turned`).
- A search that has looked at the flag (`schedule.rs` 648) and then finds its budget spent
  (652) answers `NoSolutionWithinIteration`, though another may have decided between the
  two. If it is the primary, its answer is a result like any other, and `find_map_any` may
  return it instead of the decision: `DecisionReachesCaller` begins before that look.
- The form that creates a meeting is submitted from the search field inside it, too
  (`Schedule.elm` 1455, 1407), and only the button looks whether anybody is ticked (1512).
  A meeting of nobody is refused by the table and stays on the page until the next load.
- A meeting whose participants attribute is gone makes the whole load fail, since the
  schema declares it non-null: the page stays covered. `InitialDataLoaded` demands it.
- A row of `users` without the credits attribute, which `saveEvents` can make, passes the
  comparison of credits (`zeitplan-cdk.ts` 1045), as no comparison with an undefined value
  holds.
- A renewal that crosses a login or a logout gives one user another's token
  (`Shared.elm` 183), and two logins at a time can leave the user of one with the
  token of the other (`SessionIsOne` exempts `crossed`). The answer of a login whose
  page was left is lost (`Login.elm` 321): Amplify has a user, the program none.
- Timers for the renewal multiply: each time the tab becomes visible another is
  started (`Shared.elm` 205), and each of them keeps itself going. A renewal that is
  refused, for want of a network, say, is never tried again (`index.ts` 225) before
  the tab becomes visible anew.
- A `computeSchedule` that fails leaves the modal loading (`Schedule.elm` 770);
  `LoadingEnds` exempts it.
- The modal says that "The following meetings will not be scheduled" (`Schedule.elm` 2062)
  of meetings that may be: the page takes a blocked day to begin one slot early
  (`Calendar.elm` 150, against `zeitplan-cdk.ts` 1166), and of an available time with
  something blocked inside it keeps the first part only (`Schedule.elm` 689).
  `EstimateErrsOneWay` exempts exactly these slots.
- Schedules that are saved in the same millisecond overwrite one another, and both are
  paid for.

- `compute_windows` counts one position too few for each range (`schedule.rs` 322), so
  a meeting with a single position makes the product 0, and a search may need more
  checks than the result, against README.md 44. The product may also overflow, as the
  README's own TODO says. Nothing calls the function, and it is not modelled.
- Two deletions of calendars that share a meeting, both read before either writes, each
  take their participant out (`zeitplan-cdk.ts` 547), and the meeting stays without a
  participants attribute, which the schema (`schema.graphql` 18) declares non-null. A
  later `deleteCalendar` does not find that meeting, and the pipelines throw over it
  (`zeitplan-cdk.ts` 1129) until it is saved or deleted. `ParticipantsRemain` says that
  only a write between query and transaction brings this about.
- A calendar that is changed by a resize which ends outside of the table is changed on
  the page and is not queued (`Calendar.elm` 341): `QuietIsSaved` exempts it. And a
  drag that is released over a blocked day leaves its event marked, so that the end of
  the next drag deletes that event (484): `OneEventAtATime` exempts it.
- The comment on `schedule_meetings` (`schedule.rs` 469-472) says that a spent budget is
  reported as `NoSolution`, without distinction; it is `NoSolutionWithinIteration` (line
  654), as the example below that comment says.
- `create_user` takes every error of its put for a user that exists already (87-90), so a
  user can be signed up without a row; the row that `saveEvents` or the webhook then
  makes has none of the 10 credits that `Pricing.elm` 162-163 promises (`CreateUser` has
  both outcomes).

## 6. Proofs

The eight `*Proofs` modules prove, for every value of the constants, what the runs
show on instances. The assumptions are those the modules declare: problems are
sequences of meetings with windows, budgets are naturals or none, the caller's
thread is in the pool; `Absent` is no name, calendar or set of names, the
pipelines in flight are finitely many and none offers more than `MaxCost`; the
bounds on the credits of a purchase and the default credits are naturals; calls and
requests are finitely many and `NoUser` is no user; what is asked of Availability are ranges
of slots and a duration of a slot or more; the meetings of a request to the lambdas have
ids of their own, as rows of a table do; a week has days and a day has
slots, and a calendar that is loaded has its events apart.

*Backtracking search.* The inductive invariant `IInv` is `TypeOK`,
`TreeMatchesStack`, `Bookkeeping` and `NoPlacementPassedBy`. Completeness is not
inductive alone: that the last time on the stack is the window that `state` names
for the meeting before `nth` (`Bookkeeping`) is needed to see that a backtrack
gives up exactly the placements that agree with it, and that the tree holds
exactly the stack's times, pairwise disjoint (`TreeMatchesStack`), to see that a
window that is skipped is taken in every placement that agrees so far, and that
`remove` takes out one entry only. From `IInv` follow `TypeCorrect`,
`TreeIsConsistent`, `SearchIsComplete`, `AnswerIsFirstFit`, the action property
`NeverLooksTwice`, and `SearchKeepsContract`, the refinement of `SearchContract`
under the mapping of `count_iter` to checks and the result without its indices
to the outcome.

*A request.* `RequestIInv` has the search's `IInv`, and what each stage leaves to the next:
`Listed`, that `setup` has listed the availability of each meeting that has one; `Passed`,
that the pigeonhole check found nothing; `Underway`, that the search is working on
these meetings; `Settled`, which of these each response rests on. The bridge between what
the search proves of its windows and what a request asks for is `Searched`: the search's
k-th meeting is one of the request, in whatever order the sort has left them, each
meeting with a position is there once, and its windows are its positions, but for the
last slot. It is established once, at `Sort`, from the lemmas about ranges, and nothing
disturbs it, since the search never writes its input. A first fit of the search is then a
timetable (`TimetablesAreSound`), what is left out had no position (`NoMeetingIsLost`),
and a timetable of a refused request that avoided the last slot would be a conflict-free
placement in the search, which `NoPlacementPassedBy` excludes (`RefusalsAreSound`). That
this search is never interrupted, and says NoSolution only once it has backtracked out of
its first meeting, is part of the invariant too.

`PigeonholeIsExact` compares two counts. The holes that `count_pigeons` adds up over the
merged availabilities are the slots that some position covers, as merged ranges are
disjoint (`Supply`, with the theorems about finite sets); what the meetings of `setup` take
is what those with a position ask for (`Demand`), since the others add nothing. Both
counters can pass `MAX`; the proof goes through the four cases of the check, and the
meeting at which the sum overflows is found as the least number with that
property. A refusal by this check is sound because a timetable packs what is asked for
into what can be used, without two meetings in one slot.

*Parallel search.* `IInv` is `TypeOK`, `Assigned`, `Delivered`, `Justified` and
`Answered`. That `unwrap` never panics needs a chain: a thread that has left did
so because something was found or because the iterator is empty (`Delivered`);
in the second case the primary has an outcome (`Assigned`); if that is Interrupted
the flag was up (`Justified`), so some search has decided, and a decided outcome
is on its way to, or among, the results kept (`Delivered`). Soundness of the
answer, the reason behind every raised flag and each search's contract follow
from the same invariant.

*Tables.* `TablesIInv` is `TablesTypeOK`, `ParticipantsRemain` and `ReadingIsCurrent`:
what an undisturbed request has read is still so, `deleted` are the meetings with its
participant only and `affected` those that have another as well. Every other step that
touches meetings disturbs whoever has read, so that the transaction can be compared
with the atomic one (`DeletesLikeOneStep`), and no meeting loses its last participant
without a disturbance (`MeetingsKeepParticipants`). `TakesOutOnlyOne` needs no
invariant, which is why it holds after a disturbance too.

*Pipelines.* `ComputeIInv` is `ComputeTypeOK`, `EveryoneConsidered`, `OnlyComputesSearch` (so that
`validate` never deducts), `SavedHasRow` and `Reserved`. The bound on the overdraft
is not inductive: a balance at the bound, with a request still in flight, would
break it. `Reserved` says that of the n requests that compute, one is covered
but for what the slots that are free now could have spent before: `credits -
cost >= MaxCost * (n - number of slots)`. Admission makes the new request that
one; a deduction by it hands the role to any other, whose cost is at most
`MaxCost`; a deduction by another costs at most the `MaxCost` by which the bound
moves. `BooksAreKept` is the refinement of `CreditLedger`; `TablesUndisturbed` lifts
the theorems about the tables to the whole.

*Ranges and windows.* The operators of `TimeRanges` run over sequences of any length,
and what they compute is proved by following each run from one element to the next, as
an invariant of its steps: `UpToN` says that what holds of 0, and of k + 1 whenever it
holds of k, holds of every number, from the least number it could fail for. `Placed` and
`Arranged` give each event of each range a place of its own in the merged list, which is
in order (`SortedIsArranged`); all the rest speaks of these places. After k
events of `time_merge` (`MergedUpTo`) the ranges that are open are those whose start is
among the k and whose end is not, every range that has ended is in what was merged, and
the last one reaches as far as the events do. The blocked times end and start what is
free, one slot before and after; since merged ranges keep a slot apart, the starts and
ends of each list take turns (`BlocksAlternate`), ties included, so that after k events
the `Blocker` waits for an end just when an available range is open and no blocked one is,
with a count of 0, and is at -1 when it is the other way round (`Stands`). That is why the
second start cannot come and the count cannot reach one. What was yielded by then is what
is free up to the last end (`Yields`). The invariant of Availability, `AvailabilityInv`, says this
of the events that are consumed (`BlockerInv`), and of the windows (`WindowInv`, with
`Walked`) that those of the first k ranges have been yielded, each once and in order, and
that the iteration is only cut off in a range that ends at `MAX`, which is the last.
From it follow `BlockerYieldsFreeSlots`, `WindowsSuitEveryone`, for which two ways of blocking
are compared by their slots, `WindowsAreThePositions`, and `SlackIsPositions`, which counts
the positions range by range. They hold for any `MAX`, any list of available
ranges, overlapping or not, any number of participants and any duration from 1 to `MAX`.

*The page's estimate.* `PageErrsOneWay` is about the page's own arithmetic, run to its end.
`mergeTimes` keeps the slots of its events in whatever order they come, and whatever it
merges begins no later, and ends no earlier, than one of them. `subtractTimes` goes through what is removed one by one, and the invariant of
its steps (`Left`) is that the pieces that remain are apart from one another, that each
lies in one available time and in nothing that was removed, and that a slot of an
available time is in a piece, is removed, or was lost: `Remainder` keeps the part before
what is removed and drops the part behind it. That last case is `Unseen`, and so is the slot by
which a blocked day begins too early. A piece that is long enough is hence a position, and
a position without an unseen slot lies in pieces, in fact in one, as the pieces do not
touch.

*Checkout.* `PriceMatchesOrder`, `GrantedAsPaid` and `PayableIsKnown` lean on one
another and on how far each call has come. `GrantedAsPaid` needs that what a
delivery has read is what was paid for (`ReadAsPaid`), which needs, at the moment of
the read, that the order agrees with its intent and that no update is under way: an
intent that is paid has no update of it unbroken (`UpdatesAreAhead`), which also
says that such an update is alone and will write the credits that Stripe has, so
that the two agree once it ends. A creation has its intent to itself until the row
is put (`CreatesAreFresh`, with `KnownHaveIntents` and `CallsAreKnown`). The theorems
hold for any number of calls and deliveries at a time and any
`MaxReceived`.

*Session.* That program and Amplify agree is not inductive: the invariant `SessionInv`
says of each call how far it has come and what that means while nothing crossed. A
login, or a logout, is then alone (no other call is under way), its user is the one
Amplify has from `Authenticated` on, a logout that is settled has left Amplify without
a user, and every token that waits to be handed over is Amplify's. When nothing is
under way and nothing strayed, the program has whom Amplify has. `ChainOfRenewals` is
the safety half of `TokenIsRenewed`.

*Modal.* `EachReviewBuysOnce` is inductive by itself, a balance of answers, buttons and
reviews. `CreditsAsShown` is not: `OwnRequests` says that a page opened with nothing
under way has only requests of its own, all of its user, one load and no schedule before
that; `Books` that what it shows, and what the answer to its load says, is the table's
balance plus the schedules that are paid and not heard of, counted with the theorems
about finite sets. `ModalLoadsForSomething` is proved without a run.

*Available times.* `AvailabilityIsSaved` speaks of a page with nothing under way, which
is not inductive. `TimesOwn` is the modal's `OwnRequests` again: a page that was opened
with nothing under way has one load, all its requests are its user's, and no save before
the load has come, unless a timer of an earlier page rings. `TimesBooks` says how copy,
table and requests hang together until then: what the load is answered with is what the
table holds; without an edit that waits, and with no save under way, the table holds what
the page shows; with one save under way, that save carries it. That a save is one of
several, and which of them the table ends with, is what `astray` is about.

*Schedule page.* `QuietIsSaved` speaks of a page with nothing queued and nothing under
way. Of a page that is loaded, with nothing astray and not muddled (`Booked`), the
invariant `PageInv` says of each participant and each meeting what the tables
will hold once the requests under way have been answered in the order in which they were
sent (`CalendarsArrive`, `MeetingsArrive`): the last request about a calendar brings what
the page shows or the calendar is queued, and if there is none the table agrees already;
for a meeting, what the last request makes of it less the participants whose calendars are
deleted after it. Answers out of order, losses and reloads set `astray`, which exempts
them. A deletion reads before it writes, so the invariant needs that what it has read is
current (`DeletionsAreCurrent`, with `TablesIInv` of UserTables), as any write between is
an answer out of order. That nobody meets who is no participant (`MeetingsKeepToParticipants`)
is needed for the meetings and comes with it. Where this begins is the answer to the load:
until then, or until it is used, the page is blank, sends nothing, and what its load has
read is still in the tables (`CoverHides`), so that the two readings agree; and a page that is
loaded has no load of its own under way (`LoadedOnce`), so that any later answer is an
earlier visit's. `EditsAreSent`, and of `CalendarsAreKept` that whoever is selected is
there, need no more than the page's own guards and hold in every state; the rest of
`CalendarsAreKept` holds unless the page is muddled, `astray` or not.

*Calendar widget.* `EventsApart` says nothing of a calendar while an event is resized;
`WidgetInv` says that, unless a gesture was cut off, the other events are apart and one
event at most is marked. What carries it is geometry: the event that `addEvent` makes is
the hull of what touches it, and whatever touches the hull touches one of its parts, so
that what is left is apart from it (`MergedHull`, `AddedApart`), and it covers what was
dropped (`AddedCovers`). That non-empty sets of slots have least and greatest members
comes from the well-foundedness of the naturals. The theorems hold for weeks and
days of any length and any number of events.

Every state invariant that the runs check, every action property and both refinements are
proved. Only model-checked are the five liveness properties, as fairness and ENABLED are
beyond the provers: `Terminates`, `Returns`, `DecisionReachesCaller`,
`PaidIsCreditedOrCanceled` and `TokenIsRenewed`. Of the first, `NeverLooksTwice` is the
half that can be proved, and `ChainOfRenewals` of the last.

## 7. Not modelled, and the plan

What is left out, and why:

- What a schedule, a meeting's title and duration, or a participant's calendar contains,
  beyond what the library's modules say of it; the queries that only read, the list of
  past schedules among them.
- The purchase dialog of the page, which only ever asks for a new intent
  (`beginCheckout`): the lambdas that change and cancel one are deployed with the rest and
  modelled in Checkout, but no page calls them.
- The forms of the login page, sign-up and forgotten passwords, which keep nothing beyond
  the page; the static pages, `Effect`, `View` and decoders.
- Several tabs of one user, as far as the available times go: two pages that each save
  the whole calendar overwrite each other, which no part of the code tries to prevent.
- The stream of credit changes, whose event source is commented out in the stack.
- Layout, wording and logging; the WebAssembly bindings, which convert and call what is
  modelled; the generated GraphQL client and router; the cloud stack's declarations; the
  fuzz targets and benches; signed `N`.
- The shuffled order of a worker's meetings: a search's contract does not depend on the
  order, only its cost does, and costs are free.

Worth doing next:

1. A request in the build with `rayon`: the search of `ScheduleMeetings` replaced by
   `ParallelSearch`, whose configurations are orders of the same meetings.
2. The purchase dialog of the page against Checkout, so that the moments at which an
   intent is created and paid are the page's and not any.
