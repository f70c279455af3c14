--------------------------- MODULE CheckoutProofs ---------------------------
(***************************************************************************)
(* Proofs about Checkout, for any orders, offers and numbers of calls and  *)
(* deliveries at a time.                                                   *)
(***************************************************************************)
EXTENDS Checkout, TLAPS

Whole(o) == <<"update", o>> \notin broken

\* The intent of an order that is still to be put is fresh, and of this call only.
CreatesAreFresh ==
    \A c \in Calls : calls[c].op = "create" =>
       LET o == calls[c].order IN
       /\ intents[o].status = "open"
       /\ intents[o].credits = calls[c].credits
       /\ o \notin secrets
       /\ ~Owned(o)
       /\ \A b \in Calls : calls[b] # NoCall /\ calls[b].order = o => b = c

\* An order that somebody knows of has an intent.
KnownHaveIntents ==
    \A o \in Orders : o \in secrets \/ Owned(o) => intents[o].status # "none"

\* The other calls are about orders that the page knows.
CallsAreKnown ==
    \A c \in Calls : calls[c].op \in {"update", "cancel"} => calls[c].order \in secrets

\* As long as nothing came between, an update is the only one of its order, which
\* is not paid, and will write the credits that Stripe has.
UpdatesAreAhead ==
    \A c \in Calls : calls[c].op = "update" /\ Whole(calls[c].order) =>
       LET o == calls[c].order IN
       /\ intents[o].status # "succeeded"
       /\ intents[o].credits = calls[c].credits
       /\ \A b \in Calls : calls[b].op = "update" /\ calls[b].order = o => b = c

\* What the webhook has read is what was paid for.
ReadAsPaid ==
    \A d \in Deliveries : delivery[d].userId =>
       LET o == delivery[d].order IN
       /\ intents[o].status = "succeeded"
       /\ Whole(o) => delivery[d].credits = intents[o].credits

\* What was never credited gave nothing.
NeverGranted == \A o \in Orders : received[o] = 0 => granted[o] = 0

IInv ==
    /\ TypeOK
    /\ CreatesAreFresh
    /\ KnownHaveIntents
    /\ CallsAreKnown
    /\ UpdatesAreAhead
    /\ PriceMatchesOrder
    /\ ReadAsPaid
    /\ NeverGranted
    /\ GrantedAsPaid
    /\ PayableIsKnown
-----------------------------------------------------------------------------
LEMMA InitInv == Init => IInv
<1> SUFFICES ASSUME Init PROVE IInv
  OBVIOUS
<1>1. /\ \A c \in Calls : calls[c] = NoCall
      /\ \A d \in Deliveries : delivery[d] = NoDelivery
      /\ \A o \in Orders : /\ intents[o] = [status |-> "none", credits |-> 0]
                           /\ payments[o] = Missing
                           /\ received[o] = 0 /\ granted[o] = 0
  BY DEF Init
<1>2. TypeOK
  BY <1>1, OffersAssumption DEF Init, TypeOK, Row, Missing, NoUser
<1> QED
  BY <1>1, <1>2
     DEF Init, IInv, CreatesAreFresh, KnownHaveIntents, CallsAreKnown, UpdatesAreAhead,
         PriceMatchesOrder, ReadAsPaid, NeverGranted, GrantedAsPaid, PayableIsKnown,
         NoCall, NoDelivery, Missing, Owned
-----------------------------------------------------------------------------
\* The parts of the invariant that speak of orders and not of users.
LEMMA OrdersStay ==
    ASSUME IInv, TypeOK', UNCHANGED <<stripe, payments, calls, delivery, books, broken>>
    PROVE  IInv'
BY DEF IInv, CreatesAreFresh, KnownHaveIntents, CallsAreKnown, UpdatesAreAhead,
       PriceMatchesOrder, ReadAsPaid, NeverGranted, GrantedAsPaid, PayableIsKnown,
       Owned, Updating, Canceling, Whole, stripe, books

LEMMA UserInv ==
    ASSUME IInv, CreateUser \/ SaveEvents
    PROVE  IInv'
<1>1. UNCHANGED <<stripe, payments, calls, delivery, books, broken>>
  BY DEF CreateUser, SaveEvents
<1>2. user \in [exists : BOOLEAN, credits : Nat] /\ confirmed \in BOOLEAN
  BY DEF IInv, TypeOK
<1>3. user' \in [exists : BOOLEAN, credits : Nat] /\ confirmed' \in BOOLEAN
  <2>1. CASE CreateUser
    <3>1. [exists |-> TRUE, credits |-> Default] \in [exists : BOOLEAN, credits : Nat]
      BY OffersAssumption
    <3>2. user' \in {user, [exists |-> TRUE, credits |-> Default]}
      <4>1. PutUser \/ UNCHANGED user
        BY <2>1 DEF CreateUser
      <4> QED
        BY <4>1 DEF PutUser
    <3>3. confirmed' = TRUE
      BY <2>1 DEF CreateUser
    <3> QED
      BY <1>2, <3>1, <3>2, <3>3
  <2>2. CASE SaveEvents
    BY <1>2, <2>2 DEF SaveEvents
  <2> QED
    BY <2>1, <2>2
<1>4. TypeOK'
  BY <1>1, <1>3 DEF IInv, TypeOK, stripe, books
<1> QED
  BY <1>1, <1>4, OrdersStay

LEMMA ValidNat == ASSUME NEW n \in Offers, Valid(n) PROVE n \in Nat
BY OffersAssumption DEF Valid

LEMMA CallTypes ==
    ASSUME TypeOK, NEW c \in Calls
    PROVE  /\ calls[c].op # "none" => calls[c].order \in Orders /\ calls[c].credits \in Nat
           /\ calls[c].op = "none" <=> calls[c] = NoCall
           /\ calls[c].op \in {"none", "create", "update", "cancel"}
BY DEF TypeOK, NoCall

LEMMA DeliveryTypes ==
    ASSUME TypeOK, NEW d \in Deliveries, delivery[d].userId
    PROVE  delivery[d].order \in Orders /\ delivery[d].credits \in Nat
BY DEF TypeOK, NoDelivery

LEMMA NewIntentInv ==
    ASSUME IInv, NEW c \in Calls, NEW o \in Orders, NEW n \in Offers, NewIntent(c, o, n)
    PROVE  IInv'
<1> USE DEF IInv
<1>1. /\ n \in Nat /\ calls[c] = NoCall /\ intents[o].status = "none"
      /\ intents' = [intents EXCEPT ![o] = [status |-> "open", credits |-> n]]
      /\ calls' = [calls EXCEPT ![c] = [op |-> "create", order |-> o, credits |-> n]]
      /\ UNCHANGED <<secrets, payments, delivery, account, books, broken>>
  BY ValidNat DEF NewIntent
<1>2. TypeOK'
  BY <1>1 DEF TypeOK, account, books
<1>3. o \notin secrets /\ ~Owned(o)
  BY <1>1 DEF KnownHaveIntents
<1>4. /\ calls'[c] = [op |-> "create", order |-> o, credits |-> n]
      /\ \A b \in Calls : b # c => calls'[b] = calls[b]
      /\ intents'[o] = [status |-> "open", credits |-> n]
      /\ \A q \in Orders : q # o => intents'[q] = intents[q]
  BY <1>1 DEF TypeOK
<1>5. \A b \in Calls : calls[b] # NoCall => calls[b].order # o
  BY <1>1, <1>3, CallTypes DEF CreatesAreFresh, CallsAreKnown
<1>6. CreatesAreFresh'
  BY <1>1, <1>3, <1>4, <1>5, CallTypes DEF CreatesAreFresh, Owned
<1>7. KnownHaveIntents'
  BY <1>1, <1>4 DEF KnownHaveIntents, Owned
<1>8. CallsAreKnown'
  BY <1>1, <1>4 DEF CallsAreKnown
<1>9. UpdatesAreAhead'
  BY <1>1, <1>4, <1>5, CallTypes DEF UpdatesAreAhead, Whole
<1>10. PriceMatchesOrder'
  BY <1>1, <1>3, <1>4 DEF PriceMatchesOrder, Owned, Updating, NoCall
<1>11. ReadAsPaid'
  BY <1>1, <1>4 DEF ReadAsPaid, Whole
<1>12. GrantedAsPaid'
  BY <1>1, <1>4 DEF GrantedAsPaid, books
<1>13. PayableIsKnown'
  BY <1>1, <1>3, <1>4 DEF PayableIsKnown, Owned, Canceling, NoCall, TypeOK
<1>14. NeverGranted'
  BY <1>1 DEF NeverGranted, books
<1> QED
  BY <1>2, <1>6, <1>7, <1>8, <1>9, <1>10, <1>11, <1>12, <1>13, <1>14

LEMMA PutOrderInv ==
    ASSUME IInv, NEW c \in Calls, PutOrder(c)
    PROVE  IInv'
<1> USE DEF IInv
<1> DEFINE o == calls[c].order
<1> DEFINE row == [credits |-> calls[c].credits, userId |-> TRUE, complete |-> FALSE]
<1>1. /\ calls[c].op = "create"
      /\ payments' = [payments EXCEPT ![o] = row]
      /\ secrets' \in {secrets, secrets \cup {o}}
      /\ calls' = [calls EXCEPT ![c] = NoCall]
      /\ UNCHANGED <<intents, delivery, account, books, broken>>
  BY DEF PutOrder
<1>2. /\ o \in Orders /\ calls[c].credits \in Nat /\ o \notin secrets
      /\ intents[o].status = "open" /\ intents[o].credits = calls[c].credits
      /\ \A b \in Calls : calls[b] # NoCall /\ calls[b].order = o => b = c
  BY <1>1, CallTypes DEF CreatesAreFresh
<1>3. row \in Row /\ row.userId /\ row.credits = calls[c].credits
  BY <1>2 DEF Row
<1> HIDE DEF row
<1>4. TypeOK'
  BY <1>1, <1>2, <1>3 DEF TypeOK, account, books
<1>5. /\ calls'[c] = NoCall
      /\ \A b \in Calls : b # c => calls'[b] = calls[b]
      /\ payments'[o] = row
      /\ \A q \in Orders : q # o => payments'[q] = payments[q]
      /\ \A q \in Orders : q # o => (q \in secrets' <=> q \in secrets)
      /\ NoCall.op = "none"
  BY <1>1, <1>2 DEF TypeOK, NoCall
<1>6. \A b \in Calls : calls[b] # NoCall /\ b # c => calls[b].order # o
  BY <1>2
<1>7. \A b \in Calls : calls'[b].op # "none" => b # c /\ calls'[b] = calls[b] /\ calls[b] # NoCall
                                               /\ calls[b].order \in Orders \ {o}
  BY <1>5, <1>6, CallTypes
<1> HIDE DEF o
<1>8. CreatesAreFresh'
  BY <1>1, <1>5, <1>7, CallTypes DEF CreatesAreFresh, Owned
<1>9. KnownHaveIntents'
  BY <1>1, <1>2, <1>5 DEF KnownHaveIntents, Owned
<1>10. CallsAreKnown'
  BY <1>1, <1>7 DEF CallsAreKnown
<1>11. UpdatesAreAhead'
  BY <1>1, <1>7 DEF UpdatesAreAhead, Whole
<1>12. PriceMatchesOrder'
  <2> SUFFICES ASSUME NEW q \in Orders, Owned(q)', ~Updating(q)', Whole(q)'
               PROVE  payments'[q].credits = intents'[q].credits
    BY DEF PriceMatchesOrder, Whole
  <2>1. CASE q = o
    BY <1>1, <1>2, <1>3, <1>5, <2>1
  <2>2. CASE q # o
    <3>1. ~Updating(q)
      BY <1>1, <1>5 DEF Updating
    <3> QED
      BY <1>1, <1>5, <2>2, <3>1 DEF PriceMatchesOrder, Owned, Whole
  <2> QED
    BY <2>1, <2>2
<1>13. ReadAsPaid' /\ NeverGranted' /\ GrantedAsPaid'
  BY <1>1 DEF ReadAsPaid, NeverGranted, GrantedAsPaid, Whole, books
<1>14. PayableIsKnown'
  <2> SUFFICES ASSUME NEW q \in secrets', intents'[q].status # "canceled",
                      <<"cancel", q>> \notin broken'
               PROVE  Owned(q)' \/ Canceling(q)'
    BY DEF PayableIsKnown
  <2>1. CASE q = o
    BY <1>3, <1>5, <2>1 DEF Owned
  <2>2. CASE q # o
    <3>1. q \in secrets /\ q \in Orders
      BY <1>1, <2>2 DEF TypeOK
    <3>2. Owned(q) \/ Canceling(q)
      BY <1>1, <3>1 DEF PayableIsKnown
    <3> QED
      BY <1>1, <1>5, <2>2, <3>1, <3>2 DEF Owned, Canceling
  <2> QED
    BY <2>1, <2>2
<1> QED
  BY <1>4, <1>8, <1>9, <1>10, <1>11, <1>12, <1>13, <1>14

LEMMA UpdateIntentInv ==
    ASSUME IInv, NEW c \in Calls, NEW o \in Orders, NEW n \in Offers, UpdateIntent(c, o, n)
    PROVE  IInv'
<1> USE DEF IInv
<1>1. /\ n \in Nat /\ calls[c] = NoCall /\ o \in secrets /\ intents[o].status = "open"
      /\ intents' = [intents EXCEPT ![o].credits = n]
      /\ calls' = [calls EXCEPT ![c] = [op |-> "update", order |-> o, credits |-> n]]
      /\ BreaksUpdate(o)
      /\ UNCHANGED <<secrets, payments, delivery, account, books>>
  BY ValidNat DEF UpdateIntent
<1>2. /\ broken \subseteq broken' /\ broken' \subseteq broken \cup {<<"update", o>>}
      /\ Updating(o) => ~Whole(o)'
      /\ \A q \in Orders : q # o => (Whole(q)' <=> Whole(q))
      /\ \A q \in Orders : <<"cancel", q>> \in broken' <=> <<"cancel", q>> \in broken
  BY <1>1 DEF BreaksUpdate, Whole
<1>3. /\ calls'[c] = [op |-> "update", order |-> o, credits |-> n]
      /\ \A b \in Calls : b # c => calls'[b] = calls[b]
      /\ intents'[o].status = "open" /\ intents'[o].credits = n
      /\ \A q \in Orders : q # o => intents'[q] = intents[q]
      /\ \A q \in Orders : intents'[q].status = intents[q].status
      /\ calls[c].op = "none"
  BY <1>1 DEF TypeOK, NoCall
<1>4. TypeOK'
  BY <1>1, <1>2 DEF TypeOK, account, books
<1>5. CreatesAreFresh'
  <2> SUFFICES ASSUME NEW b \in Calls, calls'[b].op = "create"
               PROVE  LET q == calls'[b].order IN
                      /\ intents'[q].status = "open"
                      /\ intents'[q].credits = calls'[b].credits
                      /\ q \notin secrets'
                      /\ ~payments'[q].userId
                      /\ \A a \in Calls : calls'[a] # NoCall /\ calls'[a].order = q => a = b
    BY DEF CreatesAreFresh, Owned
  <2>1. b # c /\ calls'[b] = calls[b] /\ calls[b].order \in Orders /\ calls[b].order # o
    BY <1>1, <1>3, CallTypes DEF CreatesAreFresh
  <2> QED
    BY <1>1, <1>3, <2>1 DEF CreatesAreFresh, Owned
<1>6. KnownHaveIntents'
  BY <1>1, <1>3 DEF KnownHaveIntents, Owned
<1>7. CallsAreKnown'
  BY <1>1, <1>3 DEF CallsAreKnown
<1>8. UpdatesAreAhead'
  <2> SUFFICES ASSUME NEW b \in Calls, calls'[b].op = "update",
                      <<"update", calls'[b].order>> \notin broken'
               PROVE  LET q == calls'[b].order IN
                      /\ intents'[q].status # "succeeded"
                      /\ intents'[q].credits = calls'[b].credits
                      /\ \A a \in Calls : calls'[a].op = "update" /\ calls'[a].order = q => a = b
    BY DEF UpdatesAreAhead, Whole
  <2>1. CASE b = c
    <3>1. ~Updating(o)
      BY <1>2, <1>3, <2>1 DEF Whole
    <3> QED
      BY <1>3, <2>1, <3>1 DEF Updating
  <2>2. CASE b # c
    <3>1. calls'[b] = calls[b] /\ calls[b].order \in Orders
      BY <1>3, <2>2, CallTypes
    <3>2. calls[b].order # o
      BY <1>2, <3>1 DEF Updating, Whole
    <3>3. Whole(calls[b].order)
      BY <1>2, <3>1, <3>2 DEF Whole
    <3> QED
      BY <1>3, <3>1, <3>2, <3>3 DEF UpdatesAreAhead
  <2> QED
    BY <2>1, <2>2
<1>9. PriceMatchesOrder'
  <2> SUFFICES ASSUME NEW q \in Orders, Owned(q)', ~Updating(q)', Whole(q)'
               PROVE  payments'[q].credits = intents'[q].credits
    BY DEF PriceMatchesOrder, Whole
  <2>1. q # o
    BY <1>3 DEF Updating
  <2>2. ~Updating(q)
    BY <1>3 DEF Updating
  <2> QED
    BY <1>1, <1>2, <1>3, <2>1, <2>2 DEF PriceMatchesOrder, Owned, Whole
<1>10. ReadAsPaid'
  <2> SUFFICES ASSUME NEW d \in Deliveries, delivery[d].userId
               PROVE  /\ intents'[delivery[d].order].status = "succeeded"
                      /\ <<"update", delivery[d].order>> \notin broken' =>
                            delivery[d].credits = intents'[delivery[d].order].credits
    BY <1>1 DEF ReadAsPaid, Whole
  <2>1. delivery[d].order \in Orders /\ delivery[d].order # o
    BY <1>1, DeliveryTypes DEF ReadAsPaid
  <2> QED
    BY <1>2, <1>3, <2>1 DEF ReadAsPaid, Whole
<1>11. GrantedAsPaid'
  <2> SUFFICES ASSUME NEW q \in Orders, received[q] > 0
               PROVE  /\ intents'[q].status = "succeeded"
                      /\ Whole(q)' => granted[q] = received[q] * intents'[q].credits
    BY <1>1 DEF GrantedAsPaid, Whole, books
  <2>1. q # o
    BY <1>1 DEF GrantedAsPaid
  <2> QED
    BY <1>2, <1>3, <2>1 DEF GrantedAsPaid, Whole
<1>12. PayableIsKnown'
  <2> SUFFICES ASSUME NEW q \in secrets, intents'[q].status # "canceled",
                      <<"cancel", q>> \notin broken'
               PROVE  Owned(q)' \/ Canceling(q)'
    BY <1>1 DEF PayableIsKnown
  <2>1. q \in Orders /\ intents[q].status # "canceled" /\ <<"cancel", q>> \notin broken
    BY <1>2, <1>3 DEF TypeOK
  <2> QED
    BY <1>1, <1>3, <2>1 DEF PayableIsKnown, Owned, Canceling
<1>13. NeverGranted'
  BY <1>1 DEF NeverGranted, books
<1> QED
  BY <1>4, <1>5, <1>6, <1>7, <1>8, <1>9, <1>10, <1>11, <1>12, <1>13

\* The end of a call, with whatever it does to the orders that the page knows of,
\* leaves the creations that are under way fresh.
LEMMA EndsCreatesFresh ==
    ASSUME IInv, NEW c \in Calls, calls' = [calls EXCEPT ![c] = NoCall],
           UNCHANGED secrets,
           \A o \in Orders : o \notin secrets => intents'[o] = intents[o],
           \A o \in Orders : ~Owned(o) => ~payments'[o].userId
    PROVE  CreatesAreFresh' /\ CallsAreKnown'
<1> USE DEF IInv
<1>1. /\ calls'[c] = NoCall /\ NoCall.op = "none"
      /\ \A b \in Calls : b # c => calls'[b] = calls[b]
  BY DEF TypeOK, NoCall
<1>2. CreatesAreFresh'
  <2> SUFFICES ASSUME NEW b \in Calls, calls'[b].op = "create"
               PROVE  LET q == calls'[b].order IN
                      /\ intents'[q].status = "open"
                      /\ intents'[q].credits = calls'[b].credits
                      /\ q \notin secrets'
                      /\ ~payments'[q].userId
                      /\ \A a \in Calls : calls'[a] # NoCall /\ calls'[a].order = q => a = b
    BY DEF CreatesAreFresh, Owned
  <2>1. b # c /\ calls'[b] = calls[b] /\ calls[b].order \in Orders
    BY <1>1, CallTypes
  <2>2. /\ calls[b].order \notin secrets /\ ~Owned(calls[b].order)
        /\ intents[calls[b].order].status = "open"
        /\ intents[calls[b].order].credits = calls[b].credits
        /\ \A a \in Calls : calls[a] # NoCall /\ calls[a].order = calls[b].order => a = b
    BY <2>1 DEF CreatesAreFresh
  <2> QED
    BY <1>1, <2>1, <2>2
<1>3. CallsAreKnown'
  BY <1>1 DEF CallsAreKnown
<1> QED
  BY <1>2, <1>3

LEMMA UpdateOrderInv ==
    ASSUME IInv, NEW c \in Calls, UpdateOrder(c)
    PROVE  IInv'
<1> USE DEF IInv
<1> DEFINE o == calls[c].order
<1>1. /\ calls[c].op = "update"
      /\ payments' = IF Owned(o) THEN [payments EXCEPT ![o] = Repriced(o, calls[c].credits)]
                     ELSE payments
      /\ calls' = [calls EXCEPT ![c] = NoCall]
      /\ UNCHANGED <<intents, secrets, delivery, account, books, broken>>
  BY DEF UpdateOrder, stripe
<1>2. o \in Orders /\ calls[c].credits \in Nat
  BY <1>1, CallTypes
<1>3. /\ Repriced(o, calls[c].credits) \in Row
      /\ Repriced(o, calls[c].credits).userId = payments[o].userId
      /\ Repriced(o, calls[c].credits).credits = calls[c].credits
  BY <1>2 DEF Repriced, TypeOK, Row
<1>4. payments' \in [Orders -> Row]
  BY <1>1, <1>3 DEF TypeOK
<1>5. TypeOK'
  BY <1>1, <1>4 DEF TypeOK, account, books
<1>6. /\ \A q \in Orders : payments'[q].userId = payments[q].userId
      /\ \A q \in Orders : q # o => payments'[q] = payments[q]
      /\ Owned(o) => payments'[o].credits = calls[c].credits
  BY <1>1, <1>2, <1>3 DEF TypeOK
<1>7. CreatesAreFresh' /\ CallsAreKnown'
  BY <1>1, <1>6, EndsCreatesFresh DEF Owned
<1>8. /\ calls'[c] = NoCall /\ NoCall.op = "none"
      /\ \A b \in Calls : b # c => calls'[b] = calls[b]
  BY <1>1 DEF TypeOK, NoCall
<1> HIDE DEF o
<1>9. KnownHaveIntents'
  BY <1>1, <1>6 DEF KnownHaveIntents, Owned
<1>10. UpdatesAreAhead'
  BY <1>1, <1>8 DEF UpdatesAreAhead, Whole
<1>11. PriceMatchesOrder'
  <2> SUFFICES ASSUME NEW q \in Orders, payments'[q].userId, ~Updating(q)', Whole(q)
               PROVE  payments'[q].credits = intents'[q].credits
    BY <1>1 DEF PriceMatchesOrder, Whole, Owned
  <2>1. Owned(q)
    BY <1>6 DEF Owned
  <2>2. CASE q = o
    <3>1. intents[o].credits = calls[c].credits
      BY <1>1, <2>2 DEF UpdatesAreAhead, o
    <3> QED
      BY <1>1, <1>6, <2>1, <2>2, <3>1
  <2>3. CASE q # o
    <3>1. ~Updating(q)
      BY <1>8, <2>3 DEF Updating, o
    <3> QED
      BY <1>1, <1>6, <2>1, <2>3, <3>1 DEF PriceMatchesOrder, Whole
  <2> QED
    BY <2>2, <2>3
<1>12. ReadAsPaid' /\ NeverGranted' /\ GrantedAsPaid'
  BY <1>1 DEF ReadAsPaid, NeverGranted, GrantedAsPaid, Whole, books
<1>13. PayableIsKnown'
  <2> SUFFICES ASSUME NEW q \in secrets, intents[q].status # "canceled",
                      <<"cancel", q>> \notin broken
               PROVE  payments'[q].userId \/ Canceling(q)'
    BY <1>1 DEF PayableIsKnown, Owned
  <2>1. q \in Orders /\ (Owned(q) \/ Canceling(q))
    BY DEF PayableIsKnown, TypeOK
  <2>2. Canceling(q) => Canceling(q)'
    BY <1>1, <1>8 DEF Canceling
  <2> QED
    BY <1>6, <2>1, <2>2 DEF Owned
<1> QED
  BY <1>5, <1>7, <1>9, <1>10, <1>11, <1>12, <1>13

LEMMA DeleteOrderInv ==
    ASSUME IInv, NEW c \in Calls, NEW o \in Orders, DeleteOrder(c, o)
    PROVE  IInv'
<1> USE DEF IInv
<1>1. /\ calls[c] = NoCall /\ o \in secrets /\ Owned(o)
      /\ payments' = [payments EXCEPT ![o] = Missing]
      /\ calls' = [calls EXCEPT ![c] = [op |-> "cancel", order |-> o, credits |-> 0]]
      /\ UNCHANGED <<intents, secrets, delivery, account, books, broken>>
  BY DEF DeleteOrder, stripe
<1>2. Missing \in Row /\ ~Missing.userId
  BY DEF Missing, Row
<1>3. TypeOK'
  BY <1>1, <1>2 DEF TypeOK, account, books
<1>4. /\ calls'[c] = [op |-> "cancel", order |-> o, credits |-> 0]
      /\ \A b \in Calls : b # c => calls'[b] = calls[b]
      /\ calls[c].op = "none"
      /\ ~payments'[o].userId
      /\ \A q \in Orders : q # o => payments'[q] = payments[q]
  BY <1>1, <1>2 DEF TypeOK, NoCall
<1>5. CreatesAreFresh'
  <2> SUFFICES ASSUME NEW b \in Calls, calls'[b].op = "create"
               PROVE  LET q == calls'[b].order IN
                      /\ intents[q].status = "open"
                      /\ intents[q].credits = calls'[b].credits
                      /\ q \notin secrets
                      /\ ~payments'[q].userId
                      /\ \A a \in Calls : calls'[a] # NoCall /\ calls'[a].order = q => a = b
    BY <1>1 DEF CreatesAreFresh, Owned
  <2>1. b # c /\ calls'[b] = calls[b] /\ calls[b].order \in Orders
    BY <1>4, CallTypes
  <2>2. /\ calls[b].order \notin secrets /\ ~Owned(calls[b].order)
        /\ intents[calls[b].order].status = "open"
        /\ intents[calls[b].order].credits = calls[b].credits
        /\ \A a \in Calls : calls[a] # NoCall /\ calls[a].order = calls[b].order => a = b
    BY <2>1 DEF CreatesAreFresh
  <2> QED
    BY <1>1, <1>4, <2>1, <2>2 DEF Owned
<1>6. KnownHaveIntents'
  BY <1>1, <1>4 DEF KnownHaveIntents, Owned
<1>7. CallsAreKnown'
  BY <1>1, <1>4 DEF CallsAreKnown
<1>8. UpdatesAreAhead'
  BY <1>1, <1>4 DEF UpdatesAreAhead, Whole
<1>9. PriceMatchesOrder'
  <2> SUFFICES ASSUME NEW q \in Orders, payments'[q].userId, ~Updating(q)', Whole(q)
               PROVE  payments'[q].credits = intents[q].credits
    BY <1>1 DEF PriceMatchesOrder, Whole, Owned
  <2>1. q # o /\ payments'[q] = payments[q]
    BY <1>4
  <2>2. ~Updating(q)
    BY <1>4 DEF Updating
  <2> QED
    BY <2>1, <2>2 DEF PriceMatchesOrder, Owned, Whole
<1>10. ReadAsPaid' /\ NeverGranted' /\ GrantedAsPaid'
  BY <1>1 DEF ReadAsPaid, NeverGranted, GrantedAsPaid, Whole, books
<1>11. PayableIsKnown'
  <2> SUFFICES ASSUME NEW q \in secrets, intents[q].status # "canceled",
                      <<"cancel", q>> \notin broken
               PROVE  payments'[q].userId \/ Canceling(q)'
    BY <1>1 DEF PayableIsKnown, Owned
  <2>1. CASE q = o
    BY <1>4, <2>1 DEF Canceling
  <2>2. CASE q # o
    <3>1. q \in Orders /\ (Owned(q) \/ Canceling(q))
      BY DEF PayableIsKnown, TypeOK
    <3> QED
      BY <1>4, <2>2, <3>1 DEF Owned, Canceling
  <2> QED
    BY <2>1, <2>2
<1> QED
  BY <1>3, <1>5, <1>6, <1>7, <1>8, <1>9, <1>10, <1>11

LEMMA CancelIntentInv ==
    ASSUME IInv, NEW c \in Calls, CancelIntent(c)
    PROVE  IInv'
<1> USE DEF IInv
<1> DEFINE o == calls[c].order
<1>1. /\ calls[c].op = "cancel"
      /\ intents' = IF intents[o].status = "open"
                    THEN [intents EXCEPT ![o].status = "canceled"] ELSE intents
      /\ broken' = IF intents[o].status = "open" THEN broken ELSE broken \cup {<<"cancel", o>>}
      /\ calls' = [calls EXCEPT ![c] = NoCall]
      /\ UNCHANGED <<secrets, payments, delivery, account, books>>
  BY DEF CancelIntent
<1>2. o \in Orders /\ o \in secrets
  BY <1>1, CallTypes DEF CallsAreKnown
<1>3. /\ calls'[c] = NoCall /\ NoCall.op = "none"
      /\ \A b \in Calls : b # c => calls'[b] = calls[b]
  BY <1>1 DEF TypeOK, NoCall
<1>4. /\ \A q \in Orders : q # o => intents'[q] = intents[q]
      /\ intents[o].status # "open" => intents'[o] = intents[o]
      /\ intents'[o].credits = intents[o].credits
      /\ intents'[o].status \in {intents[o].status, "canceled"}
      /\ intents[o].status = "open" => intents'[o].status = "canceled"
  BY <1>1, <1>2 DEF TypeOK
<1>5. /\ \A q \in Orders : <<"update", q>> \in broken' <=> <<"update", q>> \in broken
      /\ \A q \in Orders : q # o => (<<"cancel", q>> \in broken' <=> <<"cancel", q>> \in broken)
      /\ intents[o].status # "open" => <<"cancel", o>> \in broken'
  BY <1>1, <1>2
<1> HIDE DEF o
<1>6. TypeOK'
  <2>1. intents' \in [Orders -> [status : {"none", "open", "succeeded", "canceled"},
                                 credits : Nat]]
    BY <1>1, <1>2 DEF TypeOK
  <2>2. broken' \subseteq {"create", "update", "cancel"} \X Orders
    BY <1>1, <1>2 DEF TypeOK
  <2> QED
    BY <1>1, <2>1, <2>2 DEF TypeOK, account, books
<1>7. CreatesAreFresh' /\ CallsAreKnown'
  BY <1>1, <1>2, <1>4, EndsCreatesFresh DEF Owned
<1>8. KnownHaveIntents'
  BY <1>1, <1>4 DEF KnownHaveIntents, Owned
<1>9. \A b \in Calls : calls'[b].op = "update" =>
         b # c /\ calls'[b] = calls[b] /\ calls[b].order \in Orders
  BY <1>3, CallTypes
<1>10. UpdatesAreAhead'
  <2> SUFFICES ASSUME NEW b \in Calls, calls'[b].op = "update",
                      <<"update", calls'[b].order>> \notin broken'
               PROVE  LET q == calls'[b].order IN
                      /\ intents'[q].status # "succeeded"
                      /\ intents'[q].credits = calls'[b].credits
                      /\ \A a \in Calls : calls'[a].op = "update" /\ calls'[a].order = q => a = b
    BY DEF UpdatesAreAhead, Whole
  <2>1. /\ intents[calls[b].order].status # "succeeded"
        /\ intents[calls[b].order].credits = calls[b].credits
        /\ \A a \in Calls : calls[a].op = "update" /\ calls[a].order = calls[b].order => a = b
    BY <1>5, <1>9 DEF UpdatesAreAhead, Whole
  <2> QED
    BY <1>4, <1>9, <2>1
<1>11. PriceMatchesOrder'
  <2> SUFFICES ASSUME NEW q \in Orders, Owned(q), ~Updating(q)', <<"update", q>> \notin broken'
               PROVE  payments[q].credits = intents'[q].credits
    BY <1>1 DEF PriceMatchesOrder, Owned
  <2>1. ~Updating(q)
    BY <1>1, <1>3 DEF Updating
  <2>2. intents'[q].credits = intents[q].credits
    BY <1>4
  <2> QED
    BY <1>5, <2>1, <2>2 DEF PriceMatchesOrder
<1>12. ReadAsPaid'
  <2> SUFFICES ASSUME NEW d \in Deliveries, delivery[d].userId
               PROVE  /\ intents'[delivery[d].order].status = "succeeded"
                      /\ <<"update", delivery[d].order>> \notin broken' =>
                            delivery[d].credits = intents'[delivery[d].order].credits
    BY <1>1 DEF ReadAsPaid, Whole
  <2>1. delivery[d].order \in Orders /\ intents[delivery[d].order].status = "succeeded"
    BY DeliveryTypes DEF ReadAsPaid
  <2>2. intents'[delivery[d].order] = intents[delivery[d].order]
    BY <1>4, <2>1
  <2> QED
    BY <1>5, <2>1, <2>2 DEF ReadAsPaid, Whole
<1>13. GrantedAsPaid'
  <2> SUFFICES ASSUME NEW q \in Orders, received[q] > 0
               PROVE  /\ intents'[q].status = "succeeded"
                      /\ <<"update", q>> \notin broken' =>
                            granted[q] = received[q] * intents'[q].credits
    BY <1>1 DEF GrantedAsPaid, books
  <2>1. intents[q].status = "succeeded"
    BY DEF GrantedAsPaid
  <2>2. intents'[q] = intents[q]
    BY <1>4, <2>1
  <2> QED
    BY <1>5, <2>1, <2>2 DEF GrantedAsPaid
<1>14. PayableIsKnown'
  <2> SUFFICES ASSUME NEW q \in secrets, intents'[q].status # "canceled",
                      <<"cancel", q>> \notin broken'
               PROVE  Owned(q) \/ Canceling(q)'
    BY <1>1 DEF PayableIsKnown, Owned
  <2>1. q # o /\ q \in Orders
    BY <1>4, <1>5 DEF TypeOK
  <2>2. Owned(q) \/ Canceling(q)
    BY <1>4, <1>5, <2>1 DEF PayableIsKnown
  <2> QED
    BY <1>3, <2>1, <2>2 DEF Canceling, o
<1>15. NeverGranted'
  BY <1>1 DEF NeverGranted, books
<1> QED
  BY <1>6, <1>7, <1>8, <1>10, <1>11, <1>12, <1>13, <1>14, <1>15

LEMMA FailInv ==
    ASSUME IInv, NEW c \in Calls, Fail(c)
    PROVE  IInv'
<1> USE DEF IInv
<1> DEFINE o == calls[c].order
<1>1. /\ calls[c] # NoCall
      /\ calls' = [calls EXCEPT ![c] = NoCall]
      /\ broken' = broken \cup {<<calls[c].op, o>>}
      /\ UNCHANGED <<intents, secrets, payments, delivery, account, books>>
  BY DEF Fail, stripe
<1>2. o \in Orders /\ calls[c].op \in {"create", "update", "cancel"}
  BY <1>1, CallTypes
<1>3. /\ calls'[c] = NoCall /\ NoCall.op = "none"
      /\ \A b \in Calls : b # c => calls'[b] = calls[b]
  BY <1>1 DEF TypeOK, NoCall
<1>4. TypeOK'
  BY <1>1, <1>2 DEF TypeOK, account, books
<1>5. CreatesAreFresh' /\ CallsAreKnown'
  BY <1>1, EndsCreatesFresh DEF Owned
<1>6. KnownHaveIntents'
  BY <1>1 DEF KnownHaveIntents, Owned
<1>7. UpdatesAreAhead'
  BY <1>1, <1>3 DEF UpdatesAreAhead, Whole
<1>8. PriceMatchesOrder'
  <2> SUFFICES ASSUME NEW q \in Orders, Owned(q), ~Updating(q)', <<"update", q>> \notin broken'
               PROVE  payments[q].credits = intents[q].credits
    BY <1>1 DEF PriceMatchesOrder, Owned
  <2>1. ~Updating(q)
    BY <1>1, <1>3 DEF Updating
  <2> QED
    BY <1>1, <2>1 DEF PriceMatchesOrder
<1>9. ReadAsPaid' /\ NeverGranted' /\ GrantedAsPaid'
  BY <1>1 DEF ReadAsPaid, NeverGranted, GrantedAsPaid, Whole, books
<1>10. PayableIsKnown'
  <2> SUFFICES ASSUME NEW q \in secrets, intents[q].status # "canceled",
                      <<"cancel", q>> \notin broken'
               PROVE  Owned(q) \/ Canceling(q)'
    BY <1>1 DEF PayableIsKnown, Owned
  <2>1. Owned(q) \/ Canceling(q)
    BY <1>1 DEF PayableIsKnown
  <2> QED
    BY <1>1, <1>3, <2>1 DEF Canceling
<1> QED
  BY <1>4, <1>5, <1>6, <1>7, <1>8, <1>9, <1>10

LEMMA PayInv ==
    ASSUME IInv, NEW o \in Orders, Pay(o)
    PROVE  IInv'
<1> USE DEF IInv
<1>1. /\ o \in secrets /\ intents[o].status = "open"
      /\ intents' = [intents EXCEPT ![o].status = "succeeded"]
      /\ BreaksUpdate(o)
      /\ UNCHANGED <<secrets, payments, calls, delivery, account, books>>
  BY DEF Pay
<1>2. /\ broken \subseteq broken' /\ broken' \subseteq broken \cup {<<"update", o>>}
      /\ Updating(o) => <<"update", o>> \in broken'
      /\ \A q \in Orders : <<"cancel", q>> \in broken' <=> <<"cancel", q>> \in broken
  BY <1>1 DEF BreaksUpdate
<1>3. /\ \A q \in Orders : q # o => intents'[q] = intents[q]
      /\ \A q \in Orders : intents'[q].credits = intents[q].credits
      /\ intents'[o].status = "succeeded"
  BY <1>1 DEF TypeOK
<1>4. TypeOK'
  BY <1>1, <1>2 DEF TypeOK, account, books
<1>5. CreatesAreFresh'
  <2> SUFFICES ASSUME NEW b \in Calls, calls[b].op = "create"
               PROVE  LET q == calls[b].order IN
                      /\ intents'[q].status = "open"
                      /\ intents'[q].credits = calls[b].credits
                      /\ q \notin secrets
                      /\ ~Owned(q)
                      /\ \A a \in Calls : calls[a] # NoCall /\ calls[a].order = q => a = b
    BY <1>1 DEF CreatesAreFresh, Owned
  <2>1. calls[b].order \in Orders /\ calls[b].order # o
    BY <1>1, CallTypes DEF CreatesAreFresh
  <2> QED
    BY <1>3, <2>1 DEF CreatesAreFresh
<1>6. KnownHaveIntents' /\ CallsAreKnown'
  BY <1>1, <1>3 DEF KnownHaveIntents, CallsAreKnown, Owned
<1>7. UpdatesAreAhead'
  <2> SUFFICES ASSUME NEW b \in Calls, calls[b].op = "update",
                      <<"update", calls[b].order>> \notin broken'
               PROVE  LET q == calls[b].order IN
                      /\ intents'[q].status # "succeeded"
                      /\ intents'[q].credits = calls[b].credits
                      /\ \A a \in Calls : calls[a].op = "update" /\ calls[a].order = q => a = b
    BY <1>1 DEF UpdatesAreAhead, Whole
  <2>1. calls[b].order \in Orders /\ calls[b].order # o
    BY <1>2, CallTypes DEF Updating
  <2> QED
    BY <1>2, <1>3, <2>1 DEF UpdatesAreAhead, Whole
<1>8. PriceMatchesOrder'
  BY <1>1, <1>2, <1>3 DEF PriceMatchesOrder, Owned, Updating
<1>9. ReadAsPaid'
  <2> SUFFICES ASSUME NEW d \in Deliveries, delivery[d].userId
               PROVE  /\ intents'[delivery[d].order].status = "succeeded"
                      /\ <<"update", delivery[d].order>> \notin broken' =>
                            delivery[d].credits = intents'[delivery[d].order].credits
    BY <1>1 DEF ReadAsPaid, Whole
  <2>1. delivery[d].order \in Orders /\ delivery[d].order # o
    BY <1>1, DeliveryTypes DEF ReadAsPaid
  <2> QED
    BY <1>2, <1>3, <2>1 DEF ReadAsPaid, Whole
<1>10. GrantedAsPaid'
  BY <1>1, <1>2, <1>3 DEF GrantedAsPaid, books
<1>11. PayableIsKnown'
  <2> SUFFICES ASSUME NEW q \in secrets, intents'[q].status # "canceled",
                      <<"cancel", q>> \notin broken'
               PROVE  Owned(q) \/ Canceling(q)
    BY <1>1 DEF PayableIsKnown, Owned, Canceling
  <2>1. q \in Orders /\ intents[q].status # "canceled" /\ <<"cancel", q>> \notin broken
    BY <1>1, <1>2, <1>3 DEF TypeOK
  <2> QED
    BY <2>1 DEF PayableIsKnown
<1>12. NeverGranted'
  BY <1>1 DEF NeverGranted, books
<1> QED
  BY <1>4, <1>5, <1>6, <1>7, <1>8, <1>9, <1>10, <1>11, <1>12
-----------------------------------------------------------------------------
\* What is paid, with no update broken, is no longer being updated, so that the
\* table has the credits of the price: this is why the webhook may read it.
LEMMA ReceiveInv ==
    ASSUME IInv, NEW d \in Deliveries, NEW o \in Orders, Receive(d, o)
    PROVE  IInv'
<1> USE DEF IInv
<1>1. /\ intents[o].status = "succeeded"
      /\ delivery' = [delivery EXCEPT ![d] = ReadOrder(o)]
      /\ UNCHANGED <<intents, secrets, payments, calls, account, books, broken>>
  BY DEF Receive, stripe
<1>2. /\ ReadOrder(o) \in [order : Orders, userId : BOOLEAN, credits : Nat]
      /\ ReadOrder(o).order = o
      /\ ReadOrder(o).userId = Owned(o)
      /\ ReadOrder(o).credits = payments[o].credits
  BY DEF ReadOrder, TypeOK, Row, Owned
<1>3. TypeOK'
  BY <1>1, <1>2 DEF TypeOK, account, books
<1>4. Whole(o) => ~Updating(o)
  BY <1>1 DEF UpdatesAreAhead, Updating
<1>5. Whole(o) /\ Owned(o) => payments[o].credits = intents[o].credits
  BY <1>4 DEF PriceMatchesOrder, Whole
<1>6. ReadAsPaid'
  <2> SUFFICES ASSUME NEW e \in Deliveries, delivery'[e].userId
               PROVE  /\ intents[delivery'[e].order].status = "succeeded"
                      /\ <<"update", delivery'[e].order>> \notin broken =>
                            delivery'[e].credits = intents[delivery'[e].order].credits
    BY <1>1 DEF ReadAsPaid, Whole
  <2>1. CASE e = d
    <3>1. delivery'[e] = ReadOrder(o)
      BY <1>1, <2>1 DEF TypeOK
    <3> QED
      BY <1>1, <1>2, <1>5, <3>1 DEF Whole
  <2>2. CASE e # d
    BY <1>1, <2>2 DEF ReadAsPaid, Whole, TypeOK
  <2> QED
    BY <2>1, <2>2
<1>7. CreatesAreFresh' /\ KnownHaveIntents' /\ CallsAreKnown' /\ UpdatesAreAhead'
  BY <1>1 DEF CreatesAreFresh, KnownHaveIntents, CallsAreKnown, UpdatesAreAhead, Owned, Whole
<1>8. PriceMatchesOrder' /\ NeverGranted' /\ GrantedAsPaid' /\ PayableIsKnown'
  BY <1>1
     DEF PriceMatchesOrder, NeverGranted, GrantedAsPaid, PayableIsKnown,
         Owned, Updating, Canceling, books
<1> QED
  BY <1>3, <1>6, <1>7, <1>8

LEMMA CreditInv ==
    ASSUME IInv, NEW d \in Deliveries, Credit(d)
    PROVE  IInv'
<1> USE DEF IInv
<1> DEFINE o == delivery[d].order
<1> DEFINE n == delivery[d].credits
<1>1. /\ delivery[d].userId
      /\ user' = [exists |-> TRUE, credits |-> user.credits + n]
      /\ payments' = [payments EXCEPT ![o].complete = TRUE]
      /\ received' = [received EXCEPT ![o] = @ + 1]
      /\ granted' = [granted EXCEPT ![o] = @ + n]
      /\ delivery' = [delivery EXCEPT ![d] = NoDelivery]
      /\ UNCHANGED <<intents, secrets, calls, confirmed, broken>>
  BY DEF Credit, stripe
<1>2. o \in Orders /\ n \in Nat
  BY <1>1, DeliveryTypes
<1>3. /\ intents[o].status = "succeeded"
      /\ Whole(o) => n = intents[o].credits
  BY <1>1 DEF ReadAsPaid
<1> HIDE DEF o, n
<1>4. /\ payments' \in [Orders -> Row]
      /\ \A q \in Orders : payments'[q].userId = payments[q].userId
                           /\ payments'[q].credits = payments[q].credits
  <2> DEFINE row == [payments[o] EXCEPT !.complete = TRUE]
  <2>1. row \in Row /\ row.userId = payments[o].userId /\ row.credits = payments[o].credits
    <3>1. payments[o] \in [credits : Nat, userId : BOOLEAN, complete : BOOLEAN]
      BY <1>2 DEF TypeOK, Row
    <3>2. row \in [credits : Nat, userId : BOOLEAN, complete : BOOLEAN]
      BY <3>1
    <3>3. row.userId = payments[o].userId /\ row.credits = payments[o].credits
      BY <3>1
    <3> QED
      BY <3>2, <3>3 DEF Row
  <2>2. payments' = [payments EXCEPT ![o] = row]
    BY <1>1
  <2> HIDE DEF row
  <2> QED
    BY <1>2, <2>1, <2>2 DEF TypeOK
<1>5. TypeOK'
  <2>1. user' \in [exists : BOOLEAN, credits : Nat]
    BY <1>1, <1>2 DEF TypeOK
  <2>2. received' \in [Orders -> Nat] /\ granted' \in [Orders -> Nat]
    BY <1>1, <1>2 DEF TypeOK
  <2>3. delivery' \in [Deliveries -> [order : Orders, userId : BOOLEAN, credits : Nat]
                                       \cup {NoDelivery}]
    BY <1>1 DEF TypeOK
  <2> QED
    BY <1>1, <1>4, <2>1, <2>2, <2>3 DEF TypeOK
<1>6. CreatesAreFresh' /\ KnownHaveIntents' /\ CallsAreKnown' /\ UpdatesAreAhead'
  <2>1. CreatesAreFresh'
    BY <1>1, <1>4, CallTypes DEF CreatesAreFresh, Owned
  <2>2. KnownHaveIntents' /\ CallsAreKnown' /\ UpdatesAreAhead'
    BY <1>1, <1>4 DEF KnownHaveIntents, CallsAreKnown, UpdatesAreAhead, Owned, Whole
  <2> QED
    BY <2>1, <2>2
<1>7. PriceMatchesOrder'
  BY <1>1, <1>4 DEF PriceMatchesOrder, Owned, Updating
<1>8. ReadAsPaid'
  <2>1. /\ delivery'[d] = NoDelivery /\ ~NoDelivery.userId
        /\ \A e \in Deliveries : e # d => delivery'[e] = delivery[e]
    BY <1>1 DEF TypeOK, NoDelivery
  <2> QED
    BY <1>1, <2>1 DEF ReadAsPaid, Whole
<1>9. GrantedAsPaid'
  <2> SUFFICES ASSUME NEW q \in Orders, received'[q] > 0
               PROVE  /\ intents[q].status = "succeeded"
                      /\ Whole(q) => granted'[q] = received'[q] * intents[q].credits
    BY <1>1 DEF GrantedAsPaid, Whole
  <2>1. CASE q = o
    <3>1. received'[o] = received[o] + 1 /\ granted'[o] = granted[o] + n
      BY <1>1, <1>2 DEF TypeOK
    <3>2. received[o] \in Nat /\ granted[o] \in Nat /\ intents[o].credits \in Nat
      BY <1>2 DEF TypeOK
    <3>3. Whole(o) => granted[o] = received[o] * intents[o].credits
      <4>1. CASE received[o] > 0
        BY <1>2, <4>1 DEF GrantedAsPaid, Whole
      <4>2. CASE received[o] = 0
        BY <1>2, <3>2, <4>2 DEF NeverGranted
      <4> QED
        BY <3>2, <4>1, <4>2
    <3>4. (received[o] + 1) * intents[o].credits
             = received[o] * intents[o].credits + intents[o].credits
      BY <3>2
    <3> QED
      BY <1>3, <2>1, <3>1, <3>2, <3>3, <3>4
  <2>2. CASE q # o
    <3>1. received'[q] = received[q] /\ granted'[q] = granted[q]
      BY <1>1, <2>2 DEF TypeOK
    <3> QED
      BY <3>1 DEF GrantedAsPaid, Whole
  <2> QED
    BY <2>1, <2>2
<1>10. PayableIsKnown'
  <2> SUFFICES ASSUME NEW q \in secrets, intents[q].status # "canceled",
                      <<"cancel", q>> \notin broken
               PROVE  payments'[q].userId \/ Canceling(q)
    BY <1>1 DEF PayableIsKnown, Owned, Canceling
  <2>1. q \in Orders
    BY DEF TypeOK
  <2> QED
    BY <1>4, <2>1 DEF PayableIsKnown, Owned
<1>11. NeverGranted'
  BY <1>1, <1>2 DEF NeverGranted, TypeOK
<1> QED
  BY <1>5, <1>6, <1>7, <1>8, <1>9, <1>10, <1>11

LEMMA LoseDeliveryInv ==
    ASSUME IInv, NEW d \in Deliveries, LoseDelivery(d)
    PROVE  IInv'
<1> USE DEF IInv
<1>1. /\ delivery' = [delivery EXCEPT ![d] = NoDelivery]
      /\ UNCHANGED <<intents, secrets, payments, calls, account, books, broken>>
  BY DEF LoseDelivery, stripe
<1>2. TypeOK'
  BY <1>1 DEF TypeOK, account, books
<1>3. ReadAsPaid'
  <2>1. /\ delivery'[d] = NoDelivery /\ ~NoDelivery.userId
        /\ \A e \in Deliveries : e # d => delivery'[e] = delivery[e]
    BY <1>1 DEF TypeOK, NoDelivery
  <2> QED
    BY <1>1, <2>1 DEF ReadAsPaid, Whole
<1>4. CreatesAreFresh' /\ KnownHaveIntents' /\ CallsAreKnown' /\ UpdatesAreAhead'
  BY <1>1 DEF CreatesAreFresh, KnownHaveIntents, CallsAreKnown, UpdatesAreAhead, Owned, Whole
<1>5. PriceMatchesOrder' /\ NeverGranted' /\ GrantedAsPaid' /\ PayableIsKnown'
  BY <1>1
     DEF PriceMatchesOrder, NeverGranted, GrantedAsPaid, PayableIsKnown,
         Owned, Updating, Canceling, books
<1> QED
  BY <1>2, <1>3, <1>4, <1>5
-----------------------------------------------------------------------------
LEMMA NextInv == IInv /\ [Next]_vars => IInv'
<1> SUFFICES ASSUME IInv, [Next]_vars PROVE IInv'
  OBVIOUS
<1>1. CASE CreateUser \/ SaveEvents
  BY <1>1, UserInv
<1>2. ASSUME NEW c \in Calls, NEW o \in Orders, NEW n \in Offers,
             NewIntent(c, o, n) \/ UpdateIntent(c, o, n)
      PROVE  IInv'
  BY <1>2, NewIntentInv, UpdateIntentInv
<1>3. ASSUME NEW c \in Calls, NEW o \in Orders, DeleteOrder(c, o)
      PROVE  IInv'
  BY <1>3, DeleteOrderInv
<1>4. ASSUME NEW c \in Calls, PutOrder(c) \/ UpdateOrder(c) \/ CancelIntent(c) \/ Fail(c)
      PROVE  IInv'
  BY <1>4, PutOrderInv, UpdateOrderInv, CancelIntentInv, FailInv
<1>5. ASSUME NEW o \in Orders, Pay(o)
      PROVE  IInv'
  BY <1>5, PayInv
<1>6. ASSUME NEW d \in Deliveries, NEW o \in Orders, Receive(d, o)
      PROVE  IInv'
  BY <1>6, ReceiveInv
<1>7. ASSUME NEW d \in Deliveries, Credit(d) \/ LoseDelivery(d)
      PROVE  IInv'
  BY <1>7, CreditInv, LoseDeliveryInv
<1>8. CASE UNCHANGED vars
  <2>1. UNCHANGED <<stripe, payments, calls, delivery, account, books, broken>>
    BY <1>8 DEF vars
  <2>2. TypeOK'
    BY <2>1 DEF IInv, TypeOK, stripe, account, books
  <2> QED
    BY <2>1, <2>2, OrdersStay
<1> QED
  BY <1>1, <1>2, <1>3, <1>4, <1>5, <1>6, <1>7, <1>8 DEF Next

\* The inductive invariant of the orders holds in every state.
THEOREM Invariant == Spec => []IInv
BY InitInv, NextInv, PTL DEF Spec
-----------------------------------------------------------------------------

\* Intents, orders, calls and balance keep their types, whatever the lambdas, the
\* webhook and the user do.
THEOREM TypeCorrect == Spec => []TypeOK
<1>1. IInv => TypeOK
  BY DEF IInv
<1> QED
  BY <1>1, Invariant, PTL

\* The lambdas keep the credits of an order and the price of its intent together,
\* unless an update is under way or something came between its two calls.
THEOREM PricesMatchOrders == Spec => []PriceMatchesOrder
<1>1. IInv => PriceMatchesOrder
  BY DEF IInv
<1> QED
  BY <1>1, Invariant, PTL

\* However often the webhook is called, it gives credits for money only, and each
\* time as many as were paid for.
THEOREM GrantsArePaidFor == Spec => []GrantedAsPaid
<1>1. IInv => GrantedAsPaid
  BY DEF IInv
<1> QED
  BY <1>1, Invariant, PTL

\* What the page can pay is in the table, unless a cancellation has taken it.
THEOREM PayablesAreKnown == Spec => []PayableIsKnown
<1>1. IInv => PayableIsKnown
  BY DEF IInv
<1> QED
  BY <1>1, Invariant, PTL

\* A user without a row has no credits that the row put at sign-up could take.
RowlessHasNone == ~user.exists => user.credits = 0

LEMMA OthersLeaveUser ==
    ASSUME [Next]_vars
    PROVE  \/ CreateUser \/ SaveEvents
           \/ \E d \in Deliveries : Credit(d)
           \/ UNCHANGED user
BY DEF Next, NewIntent, PutOrder, UpdateIntent, UpdateOrder, DeleteOrder, CancelIntent,
       Fail, Pay, Receive, LoseDelivery, account, vars

LEMMA RowlessInvariant == Spec => []RowlessHasNone
<1>1. Init => RowlessHasNone
  BY DEF Init, NoUser, RowlessHasNone
<1>2. TypeOK /\ RowlessHasNone /\ [Next]_vars => RowlessHasNone'
  <2> SUFFICES ASSUME TypeOK, RowlessHasNone, [Next]_vars PROVE RowlessHasNone'
    OBVIOUS
  <2>1. UNCHANGED user \/ user'.exists
    <3>1. CreateUser => UNCHANGED user \/ user'.exists
      BY DEF CreateUser, PutUser
    <3>2. SaveEvents => user'.exists
      BY DEF SaveEvents, TypeOK
    <3>3. \A d \in Deliveries : Credit(d) => user'.exists
      BY DEF Credit
    <3> QED
      BY <3>1, <3>2, <3>3, OthersLeaveUser
  <2> QED
    BY <2>1 DEF RowlessHasNone
<1> QED
  BY <1>1, <1>2, TypeCorrect, PTL DEF Spec

\* Neither the webhook, nor create_user, nor saveEvents ever takes credits or the
\* user's row.
THEOREM CreditsAreOnlyAdded == Spec => CreditsOnlyAdded
<1> DEFINE Added == user'.credits >= user.credits /\ (user.exists => user'.exists)
<1>1. TypeOK /\ RowlessHasNone /\ [Next]_vars => [Added]_vars
  <2> SUFFICES ASSUME TypeOK, RowlessHasNone, [Next]_vars PROVE [Added]_vars
    OBVIOUS
  <2>1. user.credits \in Nat
    BY DEF TypeOK
  <2>2. UNCHANGED user => Added
    BY <2>1
  <2>3. CreateUser => Added
    BY <2>1, <2>2, OffersAssumption DEF CreateUser, PutUser, RowlessHasNone
  <2>4. SaveEvents => Added
    BY <2>1 DEF SaveEvents, TypeOK
  <2>5. \A d \in Deliveries : Credit(d) => Added
    BY <2>1, DeliveryTypes DEF Credit
  <2> QED
    BY <2>2, <2>3, <2>4, <2>5, OthersLeaveUser
<1> QED
  BY <1>1, TypeCorrect, RowlessInvariant, PTL DEF Spec, CreditsOnlyAdded
=============================================================================
