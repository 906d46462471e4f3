------------------------------ MODULE MoneyOut ------------------------------
(***************************************************************************)
(* What a payment system owes its customer: for one invoice at most one    *)
(* payment has money out at a time, the next may start only when the one   *)
(* before is over, and a payment that is over never starts again.          *)
(*                                                                         *)
(* A payment pays one invoice.  Several invoices may move in one step: a   *)
(* run is recorded as a whole.                                             *)
(***************************************************************************)
CONSTANTS Invoices, Payments

VARIABLES
    out,    \* out[i]: the payments of invoice i whose money is out, unanswered
    over    \* payments whose money was out and is answered for

vars == <<out, over>>

Init ==
    /\ out = [i \in Invoices |-> {}]
    /\ over = {}

\* Money leaves for an invoice that has none out, under a payment not yet used.
Starts(i, p) == out[i] = {} /\ p \notin over /\ out'[i] = {p}

\* The one payment out is answered for: it failed, or a person dealt with it.
Ends(i) == out'[i] = {} /\ over' = over \cup out[i]

Next ==
    /\ out' \in [Invoices -> SUBSET Payments]
    /\ \A i, j \in Invoices : i # j => out'[i] \cap out'[j] = {}
    /\ \/ /\ over' = over
          /\ \A i \in Invoices : out'[i] = out[i] \/ \E p \in Payments : Starts(i, p)
       \/ \E i \in Invoices : Ends(i) /\ \A j \in Invoices \ {i} : out'[j] = out[j]

Spec == Init /\ [][Next]_vars
=============================================================================
