----------------------- MODULE PaymentErpSyncInvariant -----------------------
(***************************************************************************)
(* The invariant behind the properties of PaymentErpSync, preserved by     *)
(* every step whatever state the step starts in.                           *)
(***************************************************************************)
EXTENDS PaymentErpSync

\* The states from which a payment does not return to the rail.
Closed == {"completed", "voided"}

\* A row in use belongs to an invoice; one made outside was completed as it was
\* booked; only a payment of ours that completed is ever written to a bill, and
\* a bill that carries one is not deleted.
RowsWellFormed ==
    \A p \in Payments :
        /\ status[p] # "unused" => invoiceOf[p] \in Invoices
        /\ p \in external => status[p] \in Closed
        /\ billPay[p] # "none" => status[p] \in Closed /\ p \notin external
        /\ billPay[p] = "live" => invoiceOf[p] \notin deleted
        /\ p \in external => settled[p] = Total

\* A worker, or a task not begun, is at a payment of ours that did complete.
WorkOnRows ==
    /\ \A w \in Workers :
          IF pc[w] = "idle" THEN leg[w] = None
          ELSE /\ leg[w] \in Payments
               /\ status[leg[w]] \in Closed /\ leg[w] \notin external
    /\ \A p \in writeback : status[p] \in Closed /\ p \notin external

\* The ERP is asked to void what is voided here, and a void it has confirmed
\* left nothing of ours standing, what was written late apart.
VoidsWellFormed ==
    \A p \in Payments :
        /\ p \in pendingVoid => status[p] = "voided"
        /\ voiding[p] # "none" => p \in pendingVoid
        /\ voiding[p] = "ok" /\ billPay[p] = "live" => p \in late

\* A report is offered for recording only while the last one applied said paid.
ReportsStand ==
    \A i \in Invoices : flags[i] \cap Reports # {} => applied[i] # "unpaid"

\* The inductive invariant.
IInv ==
    /\ TypeOK
    /\ RowsWellFormed
    /\ WorkOnRows
    /\ VoidsWellFormed
    /\ VoidIsRemembered
    /\ PaidRestsOnPayment
    /\ OneErpReport
    /\ OutsidePaymentIsTold
    /\ ReportsStand

(***************************************************************************)
(* Why a bill carries one payment of ours, those written late apart: a row *)
(* of ours that is at the rail, or settled, finds no other on its bill.    *)
(***************************************************************************)

Rival(p)  == status[p] \in {"in_flight", "completed"} /\ p \notin external
OnBill(p) == billPay[p] = "live" /\ p \notin late

\* uq_payments_one_live_per_invoice, whoever booked the row.
OneLiveRow ==
    \A p, q \in Payments : Live(p) /\ Live(q) /\ invoiceOf[p] = invoiceOf[q] => p = q

OneOnBill ==
    \A p, q \in Payments :
        OnBill(p) /\ (Rival(q) \/ OnBill(q)) /\ invoiceOf[p] = invoiceOf[q] => p = q

BillInv == OneLiveRow /\ OneOnBill

(***************************************************************************)
(* The two breaches the code leaves need a void between a read of the      *)
(* payment and what is done on its strength.                               *)
(***************************************************************************)

\* No payment is voided between its re-read and its post.
NoVoidBeforePost == \A w \in Workers : pc[w] = "posting" => status[leg[w]] = "completed"

\* No payment is voided between a leg's read and its lock of the invoice.
NoVoidBeforeLock == \A w \in Workers : pc[w] = "read" => status[leg[w]] = "completed"

\* PaidRestsOnPayment without its exception.
PaidMeansPaid == \A i \in Invoices : invoiceStatus[i] = "paid" => Completed(i) # {}
=============================================================================
