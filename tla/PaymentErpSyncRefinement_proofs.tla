------------------- MODULE PaymentErpSyncRefinement_proofs -------------------
(***************************************************************************)
(* PaymentErpSync implements ErpLedger, and its two breaches have one      *)
(* cause each, for any sets of invoices, payment rows, tasks and readers,  *)
(* and any amount owed.                                                    *)
(*                                                                         *)
(* An entry of the ledger is about one payment, so each step of the code   *)
(* is put into one of three kinds: it changes nothing the ledger shows,    *)
(* one row's status with what the ERP is owed for it, or what the ERP      *)
(* shows and is owed of one payment.                                       *)
(***************************************************************************)
EXTENDS PaymentErpSync_proofs

\* The tuples of variables are abbreviations, and None is known to be no value.
USE DEF books, rows, workers, voids, erp, history
USE NoneIsNoIdentity, TotalIsPositive

-----------------------------------------------------------------------------
(* The ledger's books *)

\* How the ledger reads a row's status.
Entry(s) == IF s = "completed" THEN "paid" ELSE IF s = "voided" THEN "void" ELSE "none"

Entries == [p \in Payments |-> Entry(status[p])]

\* The ledger's variables, named by those of the code.
LEMMA LedgerVars ==
  /\ Ledger!vars = <<Entries, billPay, pendingVoid, late>>
  /\ Ledger!vars' = <<Entries', billPay', pendingVoid', late'>>
  BY DEF Ledger!vars, Entries, Entry

\* A step that changes nothing the ledger shows is a stutter.
LEMMA SameLedger ==
  ASSUME \A p \in Payments : Entry(status'[p]) = Entry(status[p]),
         UNCHANGED <<billPay, pendingVoid, late>>
  PROVE  UNCHANGED Ledger!vars
  <1>1. Entries' = Entries
    BY DEF Entries
  <1> QED BY <1>1, LedgerVars

\* A step that changes one row's status changes one entry.
LEMMA OneEntry ==
  ASSUME TypeOK, NEW p \in Payments, NEW s, status' = [status EXCEPT ![p] = s]
  PROVE  Entries' = [Entries EXCEPT ![p] = Entry(s)]
  <1>1. DOMAIN status = Payments
    BY DEF TypeOK
  <1>2. \A q \in Payments : Entry(status[q])' = Entry(IF q = p THEN s ELSE status[q])
    BY <1>1 DEF Entry
  <1> QED BY <1>2 DEF Entries

\* A row that completes is the ledger's Complete.
LEMMA Completes ==
  ASSUME IInv, NEW p \in Payments, status[p] \notin Closed,
         status' = [status EXCEPT ![p] = "completed"],
         UNCHANGED <<billPay, pendingVoid, late>>
  PROVE  Ledger!Next
  <1>1. Entries' = [Entries EXCEPT ![p] = "paid"]
    BY OneEntry DEF IInv, Entry
  <1>2. Entries[p] = "none"
    BY DEF Entries, Entry, Closed
  <1>3. Ledger!Complete(p)
    BY <1>1, <1>2 DEF Ledger!Complete, Entries, Entry
  <1> QED BY <1>3 DEF Ledger!Next

\* A row that never completed may move, short of that, unnoticed.
LEMMA NeverCompleted ==
  ASSUME IInv, NEW p \in Payments, status[p] \notin Closed, NEW s, s \notin Closed,
         status' = [status EXCEPT ![p] = s],
         UNCHANGED <<billPay, pendingVoid, late>>
  PROVE  UNCHANGED Ledger!vars
  <1>1. \A q \in Payments : Entry(status'[q]) = Entry(status[q])
    BY DEF IInv, TypeOK, Entry, Closed
  <1> QED BY <1>1, SameLedger

-----------------------------------------------------------------------------
(* Step by step *)

\* Booking and refusals are no entry, a settlement completes, a void takes back.
LEMMA PayingKept ==
  ASSUME IInv, Paying
  PROVE  [Ledger!Next]_Ledger!vars
  <1>1. ASSUME NEW i \in Invoices, NEW p \in Payments, Book(i, p)
        PROVE  UNCHANGED Ledger!vars
    BY <1>1, NeverCompleted DEF Book, Closed
  <1>2. ASSUME NEW p \in Payments, RefuseDispatch(p) \/ StopDispatch(p) \/ Dispatch(p) \/ Fail(p)
        PROVE  UNCHANGED Ledger!vars
    BY <1>2, NeverCompleted DEF RefuseDispatch, StopDispatch, Dispatch, Fail, Closed
  <1>3. ASSUME NEW p \in Payments, NEW n, Settle(p, n)
        PROVE  Ledger!Next
    BY <1>3, Completes DEF Settle, Closed
  <1>4. ASSUME NEW p \in Payments, AcceptSettlement(p)
        PROVE  UNCHANGED Ledger!vars
    BY <1>4, SameLedger DEF AcceptSettlement
  <1>5. ASSUME NEW p \in Payments, Void(p)
        PROVE  Ledger!Next
    <2>1. Entries' = [Entries EXCEPT ![p] = "void"] /\ Entries[p] # "void"
      <3>1. Entries' = [Entries EXCEPT ![p] = "void"]
        BY <1>5, OneEntry DEF Void, IInv, Entry
      <3> QED BY <1>5, <3>1 DEF Void, Entries, Entry
    <2>2. \/ pendingVoid' = pendingVoid \cup {p}
          \/ pendingVoid' = pendingVoid /\ billPay[p] = "none"
      <3>1. status[p] = "in_flight" \/ p \in external => billPay[p] = "none"
        BY DEF IInv, RowsWellFormed, Closed
      <3> QED BY <1>5, <3>1 DEF Void
    <2>3. UNCHANGED <<billPay, late>>
      BY <1>5 DEF Void
    <2>4. Ledger!TakeBack(p)
      BY <2>1, <2>2, <2>3 DEF Ledger!TakeBack, Entries, Entry
    <2> QED BY <2>4 DEF Ledger!Next
  <1> QED BY <1>1, <1>2, <1>3, <1>4, <1>5 DEF Paying

\* Of the sync and the write-back, only the post that creates is an entry.
LEMMA SyncingKept ==
  ASSUME IInv, NEW w \in Workers, Syncing(w)
  PROVE  [Ledger!Next]_Ledger!vars
  <1>1. CASE PostCreates(w)
    <2>1. PICK p \in Payments : p = leg[w] /\ status[p] \in Closed
      BY <1>1 DEF PostCreates, IInv, WorkOnRows
    <2>2. Entries' = Entries /\ Entries[p] # "none"
          /\ (status[p] = "completed" <=> Entries[p] = "paid")
      BY <1>1, <2>1 DEF PostCreates, Entries, Entry, Closed
    <2>3. Ledger!Write(p)
      BY <1>1, <2>1, <2>2 DEF PostCreates, Ledger!Write, Entries, Entry
    <2> QED BY <2>3 DEF Ledger!Next
  <1>2. CASE ~PostCreates(w)
    <2>1. UNCHANGED <<status, billPay, pendingVoid, late>>
      BY <1>2
         DEF Syncing, StartLeg, StartWriteback, LegFails, MarkPaid, FindPaid, HoldLeg,
             Recheck, PostRefused, PostFindsOurs
    <2> QED BY <2>1, SameLedger
  <1> QED BY <1>1, <1>2

\* A bill payment that is voided is taken off.
LEMMA TakenOffKept ==
  ASSUME NEW p \in Payments, billPay[p] = "live",
         billPay' = [billPay EXCEPT ![p] = "voided"],
         UNCHANGED <<status, pendingVoid, late>>
  PROVE  Ledger!Next
  <1>1. Ledger!TakeOff(p)
    BY DEF Ledger!TakeOff
  <1> QED BY <1>1 DEF Ledger!Next

\* A call to void takes off or changes nothing; its record discharges only what
\* was taken off, or came late.
LEMMA VoidingKept ==
  ASSUME IInv, NEW p \in Payments, VoidingInErp(p)
  PROVE  [Ledger!Next]_Ledger!vars
  <1>1. CASE VoidAnswered(p) \/ VoidUnanswered(p)
    <2>1. UNCHANGED <<status, pendingVoid, late>>
      BY <1>1 DEF VoidAnswered, VoidUnanswered
    <2>2. \/ billPay' = billPay
          \/ billPay[p] = "live" /\ billPay' = [billPay EXCEPT ![p] = "voided"]
      BY <1>1 DEF VoidAnswered, VoidUnanswered
    <2> QED BY <2>1, <2>2, TakenOffKept, SameLedger
  <1>2. CASE RecordVoid(p)
    <2>1. UNCHANGED <<status, billPay, late>>
      BY <1>2 DEF RecordVoid
    <2>2. CASE voiding[p] = "ok"
      <3>1. p \in pendingVoid /\ (billPay[p] # "live" \/ p \in late)
        BY <2>2 DEF IInv, VoidsWellFormed
      <3>2. pendingVoid' = pendingVoid \ {p}
        BY <1>2, <2>2 DEF RecordVoid, VoidDone
      <3>3. Ledger!Discharge(p)
        BY <2>1, <3>1, <3>2 DEF Ledger!Discharge
      <3> QED BY <3>3 DEF Ledger!Next
    <2>3. CASE voiding[p] # "ok"
      BY <1>2, <2>1, <2>3, SameLedger DEF RecordVoid, VoidDone
    <2> QED BY <2>2, <2>3
  <1> QED BY <1>1, <1>2 DEF VoidingInErp

\* What people do in the ERP takes a payment of ours off, or is none of it.
LEMMA ErpActsKept ==
  ASSUME InTheErp
  PROVE  [Ledger!Next]_Ledger!vars
  <1>1. ASSUME NEW p \in Payments, ErpVoidsOurs(p)
        PROVE  Ledger!Next
    BY <1>1, TakenOffKept DEF ErpVoidsOurs
  <1>2. ASSUME NEW i \in Invoices, (\E n \in 1 .. Total : ErpPays(i, n)) \/ ErpUndoes(i) \/ ErpDeletes(i)
        PROVE  UNCHANGED Ledger!vars
    BY <1>2, SameLedger DEF ErpPays, ErpUndoes, ErpDeletes
  <1> QED BY <1>1, <1>2 DEF InTheErp

\* A payment made outside is booked completed.
LEMMA BookOutsideKept ==
  ASSUME IInv, NEW i \in Invoices, NEW p \in Payments, BookOutside(i, p),
         UNCHANGED <<billPay, pendingVoid, late>>
  PROVE  Ledger!Next
  BY Completes DEF BookOutside, Closed

\* A reported payment is booked completed, or no row changes.
LEMMA RecordReportedKept ==
  ASSUME IInv, NEW i \in Invoices, NEW F, RecordReported(i, F),
         UNCHANGED <<billPay, pendingVoid, late>>
  PROVE  [Ledger!Next]_Ledger!vars
  BY BookOutsideKept, SameLedger DEF RecordReported

\* A report read changes nothing, one applied books at most a payment made outside.
LEMMA ReportingKept ==
  ASSUME IInv, NEW r \in Readers, Reporting(r)
  PROVE  [Ledger!Next]_Ledger!vars
  <1>1. ASSUME NEW i \in Invoices, ReadBill(r, i)
        PROVE  UNCHANGED Ledger!vars
    BY <1>1, SameLedger DEF ReadBill
  <1>2. CASE ApplyReport(r)
    <2>1. PICK i \in Invoices : i = report[r].invoice
      BY <1>2 DEF ApplyReport, IInv, TypeOK
    <2>2. (\E F : RecordReported(i, F)) \/ UNCHANGED status
      BY <1>2, <2>1 DEF ApplyReport
    <2>3. UNCHANGED <<billPay, pendingVoid, late>>
      BY <1>2 DEF ApplyReport
    <2> QED BY <2>2, <2>3, RecordReportedKept, SameLedger
  <1> QED BY <1>1, <1>2 DEF Reporting

\* So does a decision.
LEMMA DecidingKept ==
  ASSUME IInv, NEW i \in Invoices, Deciding(i)
  PROVE  [Ledger!Next]_Ledger!vars
  <1>1. ASSUME NEW k \in Flag, Resolve(i, k)
        PROVE  [Ledger!Next]_Ledger!vars
    <2>1. (\E F : RecordReported(i, F)) \/ UNCHANGED status
      BY <1>1 DEF Resolve
    <2>2. UNCHANGED <<billPay, pendingVoid, late>>
      BY <1>1 DEF Resolve
    <2> QED BY <2>1, <2>2, RecordReportedKept, SameLedger
  <1>2. ASSUME NEW k \in Reports, RecordErpPayment(i, k)
        PROVE  Ledger!Next
    BY <1>2, BookOutsideKept DEF RecordErpPayment
  <1> QED BY <1>1, <1>2 DEF Deciding

\* Every step is an entry of the ledger, or none.
LEMMA NextKept ==
  ASSUME IInv, [Next]_vars
  PROVE  [Ledger!Next]_Ledger!vars
  <1>1. CASE Restart \/ UNCHANGED vars
    BY <1>1, SameLedger DEF Restart, vars
  <1> QED
    BY <1>1, PayingKept, SyncingKept, VoidingKept, ErpActsKept, ReportingKept, DecidingKept
       DEF Next

-----------------------------------------------------------------------------
(* What the two breaches rest on *)

\* Only a post writes late, and only a leg marks by mistake.
LEMMA BreachSteps ==
  ASSUME IInv, [Next]_vars
  PROVE  /\ late' = late \/ \E w \in Workers : pc[w] = "posting" /\ status[leg[w]] # "completed"
         /\ mistaken' = mistaken \/ \E w \in Workers : pc[w] = "read" /\ status[leg[w]] # "completed"
  <1>1. Paying \/ InTheErp \/ Restart \/ UNCHANGED vars => UNCHANGED <<late, mistaken>>
    BY DEF Paying, Book, RefuseDispatch, StopDispatch, Dispatch, Settle, Fail, AcceptSettlement,
           Void, InTheErp, ErpPays, ErpUndoes, ErpDeletes, ErpVoidsOurs, Restart, vars
  <1>2. ASSUME NEW w \in Workers, Syncing(w)
        PROVE  /\ late' = late \/ (pc[w] = "posting" /\ status[leg[w]] # "completed")
               /\ mistaken' = mistaken \/ (pc[w] = "read" /\ status[leg[w]] # "completed")
    <2>1. CASE MarkPaid(w)
      BY <2>1 DEF MarkPaid
    <2>2. CASE PostCreates(w)
      BY <2>2 DEF PostCreates
    <2>3. CASE ~MarkPaid(w) /\ ~PostCreates(w)
      BY <1>2, <2>3
         DEF Syncing, StartLeg, StartWriteback, LegFails, FindPaid, HoldLeg, Recheck,
             PostRefused, PostFindsOurs
    <2> QED BY <2>1, <2>2, <2>3
  <1>3. ASSUME NEW p \in Payments, VoidingInErp(p)
        PROVE  UNCHANGED <<late, mistaken>>
    BY <1>3 DEF VoidingInErp, VoidAnswered, VoidUnanswered, RecordVoid
  <1>4. ASSUME NEW r \in Readers, Reporting(r)
        PROVE  UNCHANGED <<late, mistaken>>
    BY <1>4 DEF Reporting, ReadBill, ApplyReport
  <1>5. ASSUME NEW i \in Invoices, Deciding(i)
        PROVE  UNCHANGED <<late, mistaken>>
    BY <1>5 DEF Deciding, Resolve, RecordErpPayment
  <1> QED BY <1>1, <1>2, <1>3, <1>4, <1>5 DEF Next

-----------------------------------------------------------------------------
(* The theorems *)

\* The books here and in the ERP are those of ErpLedger: a payment is written to the
\* ERP once, a void is owed until it is done, and what is off the bill stays off
\* (write_back_payment, record_pending_erp_void, void_written_payment).
THEOREM KeepsTheLedger == Spec => LedgerKept
  <1>1. Init => Ledger!Init
    BY DEF Init, Ledger!Init
  <1>2. IInv /\ [Next]_vars => [Ledger!Next]_Ledger!vars
    BY NextKept
  <1> QED BY <1>1, <1>2, Invariance, PTL DEF Spec, LedgerKept, Ledger!Spec

\* Were no payment voided between the write-back's re-read and its post, no voided
\* payment would stand in the ERP without a void on its way: refusals, lost
\* answers and restarts never do it (write_back_payment, void_written_payment).
THEOREM VoidsReachErp == Spec /\ []NoVoidBeforePost => []VoidReachesErp
  <1>1. Init => late = {}
    BY DEF Init
  <1>2. IInv /\ NoVoidBeforePost /\ late = {} /\ [Next]_vars => (late = {})'
    BY BreachSteps DEF NoVoidBeforePost
  <1>3. IInv /\ late = {} => VoidReachesErp
    BY DEF IInv, VoidIsRemembered, VoidReachesErp
  <1> QED BY <1>1, <1>2, <1>3, Invariance, PTL DEF Spec

\* Under the same condition a bill never carries two payments of ours, whatever is
\* voided and paid again (erp_bill_dispatch_refusal, write_back_payment).
THEOREM OnePaymentOnABill ==
  Spec /\ []NoVoidBeforePost =>
    [](\A p, q \in Payments :
         billPay[p] = "live" /\ billPay[q] = "live" /\ invoiceOf[p] = invoiceOf[q] => p = q)
  <1>1. Init => late = {}
    BY DEF Init
  <1>2. IInv /\ NoVoidBeforePost /\ late = {} /\ [Next]_vars => (late = {})'
    BY BreachSteps DEF NoVoidBeforePost
  <1>3. BillPaidOnce /\ late = {} =>
          \A p, q \in Payments :
            billPay[p] = "live" /\ billPay[q] = "live" /\ invoiceOf[p] = invoiceOf[q] => p = q
    BY DEF BillPaidOnce
  <1> QED BY <1>1, <1>2, <1>3, Invariance, PaidOnce, PTL DEF Spec

\* Were no payment voided between a leg's read of it and its lock of the invoice, an
\* invoice would never read paid without a completed payment: voids, failures and
\* re-bookings beside the sync never do it (_sync_one_leg, void_payment).
THEOREM PaidIsPaid == Spec /\ []NoVoidBeforeLock => []PaidMeansPaid
  <1>1. Init => mistaken = {}
    BY DEF Init
  <1>2. IInv /\ NoVoidBeforeLock /\ mistaken = {} /\ [Next]_vars => (mistaken = {})'
    BY BreachSteps DEF NoVoidBeforeLock
  <1>3. IInv /\ mistaken = {} => PaidMeansPaid
    BY DEF IInv, PaidRestsOnPayment, PaidMeansPaid
  <1> QED BY <1>1, <1>2, <1>3, Invariance, PTL DEF Spec

\* A payment that stands here is taken off its bill by a person in the ERP only: no
\* sweep, repeated void or answer after a restart voids one that was not voided here
\* first (void_written_payment, resume_pending_voids).
THEOREM OnlyTheVoidedAreVoided ==
  Spec => [][\A p \in Payments :
               billPay[p] = "live" /\ billPay'[p] # "live" =>
                 status[p] = "voided" \/ ErpVoidsOurs(p)]_vars
  <1>1. ASSUME IInv, [Next]_vars, NEW p \in Payments, billPay[p] = "live", billPay'[p] # "live"
        PROVE  status[p] = "voided" \/ ErpVoidsOurs(p)
    <2>1. CASE \E q \in Payments : VoidingInErp(q)
      <3>1. PICK q \in Payments : VoidingInErp(q)
        BY <2>1
      <3>2. q \in pendingVoid /\ \E x : billPay' = [billPay EXCEPT ![q] = x]
        BY <1>1, <3>1 DEF VoidingInErp, VoidAnswered, VoidUnanswered, RecordVoid
      <3>3. p = q
        BY <1>1, <3>2 DEF IInv, TypeOK
      <3> QED BY <1>1, <3>2, <3>3 DEF IInv, VoidsWellFormed
    <2>2. CASE InTheErp
      BY <1>1, <2>2 DEF InTheErp, ErpPays, ErpUndoes, ErpDeletes, ErpVoidsOurs, IInv, TypeOK
    <2>3. CASE \E w \in Workers : Syncing(w)
      <3>1. PICK w \in Workers : Syncing(w)
        BY <2>3
      <3>2. billPay' = billPay \/ billPay' = [billPay EXCEPT ![leg[w]] = "live"]
        BY <3>1
           DEF Syncing, StartLeg, StartWriteback, LegFails, MarkPaid, FindPaid, HoldLeg,
               Recheck, PostRefused, PostFindsOurs, PostCreates
      <3> QED BY <1>1, <3>2 DEF IInv, TypeOK
    <2>4. CASE Paying \/ Restart \/ UNCHANGED vars
      BY <1>1, <2>4
         DEF Paying, Book, RefuseDispatch, StopDispatch, Dispatch, Settle, Fail,
             AcceptSettlement, Void, Restart, vars
    <2>5. CASE \E r \in Readers : Reporting(r)
      BY <1>1, <2>5 DEF Reporting, ReadBill, ApplyReport
    <2>6. CASE \E i \in Invoices : Deciding(i)
      BY <1>1, <2>6 DEF Deciding, Resolve, RecordErpPayment
    <2> QED BY <1>1, <2>1, <2>2, <2>3, <2>4, <2>5, <2>6 DEF Next
  <1>2. IInv /\ [Next]_vars =>
          [\A p \in Payments :
             billPay[p] = "live" /\ billPay'[p] # "live" =>
               status[p] = "voided" \/ ErpVoidsOurs(p)]_vars
    BY <1>1
  <1> QED BY <1>2, Invariance, PTL DEF Spec
=============================================================================
