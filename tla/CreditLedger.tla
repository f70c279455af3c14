---------------------------- MODULE CreditLedger ----------------------------
(***************************************************************************)
(* What the scheduling requests of a user may do to the user's credits.  A *)
(* request is admitted when the balance covers it, charged at most once,   *)
(* and only after its schedule is recorded.  Admission reserves nothing.   *)
(***************************************************************************)
EXTENDS Integers

CONSTANTS Requests, Costs

VARIABLES
    balance,   \* the credits of the user
    account    \* per request: how far it is, and the credits it spends

ledgerVars == <<balance, account>>

Init ==
    /\ balance \in Nat
    /\ account = [r \in Requests |-> [state |-> "none", cost |-> 0]]

Grant ==
    /\ balance' - balance \in Nat
    /\ UNCHANGED account

Admit(r, c) ==
    /\ account[r].state = "none"
    /\ c > 0
    /\ c <= balance
    /\ account' = [account EXCEPT ![r] = [state |-> "admitted", cost |-> c]]
    /\ UNCHANGED balance

Record(r) ==
    /\ account[r].state = "admitted"
    /\ account' = [account EXCEPT ![r].state = "recorded"]
    /\ UNCHANGED balance

Charge(r) ==
    /\ account[r].state = "recorded"
    /\ balance' = balance - account[r].cost
    /\ account' = [account EXCEPT ![r] = [state |-> "none", cost |-> 0]]

\* The request ends without a charge.
Waive(r) ==
    /\ account' = [account EXCEPT ![r] = [state |-> "none", cost |-> 0]]
    /\ UNCHANGED balance

Next ==
    \/ Grant
    \/ \E r \in Requests :
          \/ \E c \in Costs : Admit(r, c)
          \/ Record(r)
          \/ Charge(r)
          \/ Waive(r)

Spec == Init /\ [][Next]_ledgerVars
=============================================================================
