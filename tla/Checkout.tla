------------------------------ MODULE Checkout ------------------------------
(***************************************************************************)
(* One user's purchases: the lambdas create_, update_ and                  *)
(* cancel_payment_intent, each one call to Stripe and one to the payments  *)
(* table, in the order the code makes them; the webhook, a read and a      *)
(* transaction, which Stripe calls at least once for every payment; and    *)
(* create_user.  Any of them can fail between its two calls.  The price is *)
(* known by the credits it is computed from: ComputeCreditAmount gives     *)
(* different credits different prices.                                     *)
(***************************************************************************)
EXTENDS Integers

CONSTANTS
    Orders,          \* the ids of Stripe's payment intents, and of the orders
    Calls,           \* slots: calls of the three lambdas at a time
    Deliveries,      \* slots: calls of the webhook at a time
    Offers,          \* the credits that a checkout may ask for
    Least, Most,     \* the bounds of the lambdas, 5 and 250
    Default,         \* DEFAULT_CREDITS
    MaxReceived,     \* bound: how often one payment is credited
    Absent           \* no order

ASSUME OffersAssumption ==
    Offers \subseteq Int /\ Least \in Nat /\ Most \in Nat /\ Default \in Nat
ASSUME MaxReceivedAssumption == MaxReceived \in Nat
ASSUME CheckoutAbsentAssumption == Absent \notin Orders

VARIABLES
    intents,     \* Stripe: order -> status, and the credits it is priced for
    secrets,     \* the orders whose clientSecret has reached the page
    payments,    \* the payments table: order -> credits, has it a user?, complete
    calls,       \* what each lambda has still to do
    delivery,    \* what each webhook call has read
    user,        \* the user's row in the users table
    confirmed,   \* has the user signed up?
    received,    \* history: how often each payment was credited
    granted,     \* history: the credits given for it
    broken       \* history: updates and cancellations that did not stay whole

stripe == <<intents, secrets>>
account == <<user, confirmed>>
books == <<received, granted>>
vars == <<stripe, payments, calls, delivery, account, books, broken>>

Row == [credits : Nat, userId : BOOLEAN, complete : BOOLEAN]

\* An item that is missing is read as zero values, and updated from them.
Missing == [credits |-> 0, userId |-> FALSE, complete |-> FALSE]
NoUser == [exists |-> FALSE, credits |-> 0]
NoCall == [op |-> "none", order |-> Absent, credits |-> 0]
NoDelivery == [order |-> Absent, userId |-> FALSE, credits |-> 0]

\* Is there an update of the order between its call to Stripe and the table?
Updating(o) == \E c \in Calls : calls[c].op = "update" /\ calls[c].order = o

Canceling(o) == \E c \in Calls : calls[c].op = "cancel" /\ calls[c].order = o

BreaksUpdate(o) == broken' = IF Updating(o) THEN broken \cup {<<"update", o>>} ELSE broken

\* The row of an order of the user, as the conditions on userId ask for it.
Owned(o) == payments[o].userId
-----------------------------------------------------------------------------
Init ==
    /\ intents = [o \in Orders |-> [status |-> "none", credits |-> 0]]
    /\ secrets = {}
    /\ payments = [o \in Orders |-> Missing]
    /\ calls = [c \in Calls |-> NoCall]
    /\ delivery = [d \in Deliveries |-> NoDelivery]
    /\ user = NoUser
    /\ confirmed = FALSE
    /\ received = [o \in Orders |-> 0]
    /\ granted = [o \in Orders |-> 0]
    /\ broken = {}

\* create_user: attribute_not_exists(userId)
PutUser == user' = IF user.exists THEN user ELSE [exists |-> TRUE, credits |-> Default]

\* Cognito's trigger after signing up, and after a new password.  A failure to
\* put the user is not returned.
CreateUser ==
    /\ confirmed' = TRUE
    /\ PutUser \/ UNCHANGED user
    /\ UNCHANGED <<stripe, payments, calls, delivery, books, broken>>

\* saveEvents updates the user's row or makes one.  Credits it does not have
\* are 0, from which ADD starts.
SaveEvents ==
    /\ confirmed
    /\ user' = [user EXCEPT !.exists = TRUE]
    /\ UNCHANGED <<confirmed, stripe, payments, calls, delivery, books, broken>>

Valid(n) == Least <= n /\ n <= Most

NewIntent(c, o, n) ==
    /\ confirmed
    /\ calls[c] = NoCall
    /\ Valid(n)
    /\ intents[o].status = "none"
    /\ intents' = [intents EXCEPT ![o] = [status |-> "open", credits |-> n]]
    /\ calls' = [calls EXCEPT ![c] = [op |-> "create", order |-> o, credits |-> n]]
    /\ UNCHANGED <<secrets, payments, delivery, account, books, broken>>

\* The order is put, and the answer may reach the page.
PutOrder(c) ==
    LET o == calls[c].order IN
    /\ calls[c].op = "create"
    /\ payments' = [payments EXCEPT ![o] = [credits |-> calls[c].credits, userId |-> TRUE,
                                            complete |-> FALSE]]
    /\ secrets' \in {secrets, secrets \cup {o}}
    /\ calls' = [calls EXCEPT ![c] = NoCall]
    /\ UNCHANGED <<intents, delivery, account, books, broken>>

\* Stripe changes the amount of an intent that is neither paid nor canceled.
UpdateIntent(c, o, n) ==
    /\ calls[c] = NoCall
    /\ o \in secrets
    /\ Valid(n)
    /\ intents[o].status = "open"
    /\ intents' = [intents EXCEPT ![o].credits = n]
    /\ calls' = [calls EXCEPT ![c] = [op |-> "update", order |-> o, credits |-> n]]
    /\ BreaksUpdate(o)
    /\ UNCHANGED <<secrets, payments, delivery, account, books>>

\* Mutant: the whole item is put, without its user.
Amended(o, n) == [credits |-> n, userId |-> FALSE, complete |-> FALSE]

\* Mutant: the amount is set, the credits are left.
RepricedAmount(o, n) == payments[o]

\* Mutant: ADD in the place of SET.
RepricedByAdding(o, n) == [payments[o] EXCEPT !.credits = @ + n]

\* The update sets amount and credits.
Repriced(o, n) == [payments[o] EXCEPT !.credits = n]

UpdateOrder(c) ==
    LET o == calls[c].order IN
    /\ calls[c].op = "update"
    /\ payments' = IF Owned(o) THEN [payments EXCEPT ![o] = Repriced(o, calls[c].credits)]
                   ELSE payments
    /\ calls' = [calls EXCEPT ![c] = NoCall]
    /\ UNCHANGED <<stripe, delivery, account, books, broken>>

DeleteOrder(c, o) ==
    /\ calls[c] = NoCall
    /\ o \in secrets
    /\ Owned(o)
    /\ payments' = [payments EXCEPT ![o] = Missing]
    /\ calls' = [calls EXCEPT ![c] = [op |-> "cancel", order |-> o, credits |-> 0]]
    /\ UNCHANGED <<stripe, delivery, account, books, broken>>

\* Stripe refuses to cancel what is paid.
CancelIntent(c) ==
    LET o == calls[c].order IN
    /\ calls[c].op = "cancel"
    /\ intents' = IF intents[o].status = "open"
                  THEN [intents EXCEPT ![o].status = "canceled"] ELSE intents
    /\ broken' = IF intents[o].status = "open" THEN broken ELSE broken \cup {<<"cancel", o>>}
    /\ calls' = [calls EXCEPT ![c] = NoCall]
    /\ UNCHANGED <<secrets, payments, delivery, account, books>>

\* The second call of a lambda fails or is never made.
Fail(c) ==
    /\ calls[c] # NoCall
    /\ calls' = [calls EXCEPT ![c] = NoCall]
    /\ broken' = broken \cup {<<calls[c].op, calls[c].order>>}
    /\ UNCHANGED <<stripe, payments, delivery, account, books>>

\* The page confirms the payment with Stripe, which needs the secret only.
Pay(o) ==
    /\ o \in secrets
    /\ intents[o].status = "open"
    /\ intents' = [intents EXCEPT ![o].status = "succeeded"]
    /\ BreaksUpdate(o)
    /\ UNCHANGED <<secrets, payments, calls, delivery, account, books>>

\* Mutant: an order counts that is complete already.
ReadComplete(o) ==
    [order |-> o, userId |-> payments[o].userId /\ payments[o].complete,
     credits |-> payments[o].credits]

ReadOrder(o) == [order |-> o, userId |-> payments[o].userId, credits |-> payments[o].credits]

\* payment_intent.succeeded, for the first time or again.
Receive(d, o) ==
    /\ delivery[d] = NoDelivery
    /\ intents[o].status = "succeeded"
    /\ received[o] < MaxReceived
    /\ delivery' = [delivery EXCEPT ![d] = ReadOrder(o)]
    /\ UNCHANGED <<stripe, payments, calls, account, books, broken>>

\* Neither update has a condition, and each makes the row it does not find.
Credit(d) ==
    LET o == delivery[d].order
        n == delivery[d].credits
    IN
    /\ delivery[d].userId
    /\ received[o] < MaxReceived
    /\ user' = [exists |-> TRUE, credits |-> user.credits + n]
    /\ payments' = [payments EXCEPT ![o].complete = TRUE]
    /\ received' = [received EXCEPT ![o] = @ + 1]
    /\ granted' = [granted EXCEPT ![o] = @ + n]
    /\ delivery' = [delivery EXCEPT ![d] = NoDelivery]
    /\ UNCHANGED <<stripe, calls, confirmed, broken>>

\* The webhook fails: for one of many reasons, or because a key without a user
\* is none.  Stripe will call again.
LoseDelivery(d) ==
    /\ delivery[d] # NoDelivery
    /\ delivery' = [delivery EXCEPT ![d] = NoDelivery]
    /\ UNCHANGED <<stripe, payments, calls, account, books, broken>>

Next ==
    \/ CreateUser
    \/ SaveEvents
    \/ \E c \in Calls :
          \/ \E o \in Orders, n \in Offers : NewIntent(c, o, n) \/ UpdateIntent(c, o, n)
          \/ \E o \in Orders : DeleteOrder(c, o)
          \/ PutOrder(c)
          \/ UpdateOrder(c)
          \/ CancelIntent(c)
          \/ Fail(c)
    \/ \E o \in Orders : Pay(o)
    \/ \E d \in Deliveries :
          \/ \E o \in Orders : Receive(d, o)
          \/ Credit(d)
          \/ LoseDelivery(d)

Spec == Init /\ [][Next]_vars

\* Calls end: a lambda has a time limit.  Stripe repeats a call that failed, and
\* the webhook does not fail for ever over a payment that it could credit.
FairSpec ==
    /\ Spec
    /\ \A c \in Calls : WF_vars(CancelIntent(c) \/ Fail(c))
    /\ \A d \in Deliveries : WF_vars(Credit(d) \/ LoseDelivery(d))
    /\ \A o \in Orders :
          /\ SF_vars(\E d \in Deliveries : Receive(d, o))
          /\ SF_vars(\E d \in Deliveries : Credit(d) /\ delivery[d].order = o)
-----------------------------------------------------------------------------
\* Types, and that what is known of an order follows its intent.
TypeOK ==
    /\ intents \in [Orders -> [status : {"none", "open", "succeeded", "canceled"},
                               credits : Nat]]
    /\ secrets \subseteq Orders
    /\ payments \in [Orders -> Row]
    /\ calls \in [Calls -> [op : {"create", "update", "cancel"}, order : Orders,
                            credits : Nat] \cup {NoCall}]
    /\ delivery \in [Deliveries -> [order : Orders, userId : BOOLEAN, credits : Nat]
                                      \cup {NoDelivery}]
    /\ user \in [exists : BOOLEAN, credits : Nat]
    /\ confirmed \in BOOLEAN
    /\ received \in [Orders -> Nat]
    /\ granted \in [Orders -> Nat]
    /\ broken \subseteq {"create", "update", "cancel"} \X Orders

\* An order and its intent are changed one after the other, so that the price
\* and the credits can differ for a while, or for good if something comes
\* between: another update of the order, its payment, or a failure.  Otherwise
\* they agree.
PriceMatchesOrder ==
    \A o \in Orders :
       Owned(o) /\ ~Updating(o) /\ <<"update", o>> \notin broken => payments[o].credits = intents[o].credits

\* Credits are only given for money, and each time as many as were paid for,
\* however often the webhook is called, even with the order canceled meanwhile.
GrantedAsPaid ==
    \A o \in Orders : received[o] > 0 =>
       /\ intents[o].status = "succeeded"
       /\ <<"update", o>> \notin broken => granted[o] = received[o] * intents[o].credits

\* What the page can have paid, or has paid, has its row in the table, so that it
\* can be credited, unless a cancellation has taken the row and not the intent:
\* it is about to, it failed in between, or the payment was there before it.
PayableIsKnown ==
    \A o \in secrets :
       intents[o].status # "canceled" => Owned(o) \/ Canceling(o) \/ <<"cancel", o>> \in broken

\* No step takes credits, though sign-up puts the row that webhook and saveEvents
\* may have made before, and may be repeated.
CreditsOnlyAdded ==
    [][user'.credits >= user.credits /\ (user.exists => user'.exists)]_vars

\* A payment is credited in the end unless the cancellation of its order came
\* between.
PaidIsCreditedOrCanceled ==
    \A o \in Orders :
       intents[o].status = "succeeded" ~> received[o] > 0 \/ <<"cancel", o>> \in broken

\* PaymentConfirmation.elm shows for a payment that has succeeded: "Credits have
\* been added to your account."
PaidIsCredited ==
    \A o \in Orders : intents[o].status = "succeeded" ~> received[o] > 0
=============================================================================
