---------------------------- MODULE PaymentErpSync ----------------------------
(***************************************************************************)
(* What happens after a payment settles, for a tenant whose ERP reports    *)
(* its bills back (QuickBooks Online): the sync pass moves the invoice to  *)
(* `paid' and writes the payment to the bill; a void takes it back out of  *)
(* the ERP; and what people do to the bill in the ERP comes back as bill   *)
(* reports, which become payments made outside or questions for a person.  *)
(*                                                                         *)
(* One action is one database transaction, or one call to the ERP.  A call *)
(* is atomic at the ERP; its answer may be lost.  The post of a payment is *)
(* one step with the record of its outcome, which decides nothing; the     *)
(* outcome of a void, which does, is recorded in a step of its own.        *)
(* Every invoice here was posted to the ERP the tenant is connected to,    *)
(* and every payment belongs to a run.                                     *)
(*                                                                         *)
(* Abstractions of data: `approved' stands for approved and posted_in_erp, *)
(* `in_flight' for submitted and processing.  Money is counted in units of *)
(* which an invoice owes Total; a settlement below Total, or one that      *)
(* cannot be read, does not discharge the invoice.                         *)
(*                                                                         *)
(* A definition marked (mutant) is a plausible bug, put in the place of    *)
(* the definition after it to show that a property would notice.           *)
(***************************************************************************)
EXTENDS Integers, FiniteSetsExt

CONSTANTS
    Invoices,   \* invoices of one tenant
    Payments,   \* identities for payment rows
    Workers,    \* tasks that may sync and write back at the same time
    Readers,    \* webhook deliveries and sweeps that may read bills at the same time
    Total,      \* what an invoice owes
    None        \* nothing

ASSUME TotalIsPositive == Total \in Nat \ {0}

ASSUME NoneIsNoIdentity == None \notin Invoices \cup Payments

VARIABLES
    invoiceStatus,  \* [Invoices -> InvoiceStatus]
    flags,          \* the kinds of live exception on the invoice, see Flag
    status,         \* [Payments -> PaymentStatus], "unused" when there is no such row
    invoiceOf,      \* Payment.invoice_id
    settled,        \* Payment.settled_amount of a completed row
    external,       \* rows with provider external: made outside FeohLedger
    named,          \* those whose reference is the invoice's bill in the ERP
    pendingVoid,    \* rows in state_data.erp_payment_voids_pending
    pc, leg,        \* the workers: where each is, and the payment it is at
    writeback,      \* rows with a dispatch_settled_writeback task not begun
    voiding,        \* what the ERP answered a void_written_payment task of the row
    report,         \* the bill a reader has read and not applied
    billPay,        \* the ERP's payment of the bill, written by us for this row
    outside,        \* what else was taken off the bill in the ERP
    deleted,        \* bills deleted in the ERP
    applied,        \* history: what the last report applied to the invoice said, see Said
    told,           \* history: since the ERP last reported the bill paid outside, a
                    \* person closed a flag, or undid a record under their own reference
    mistaken,       \* history: invoices a leg marked paid for a payment voided before
    late            \* history: rows written to the ERP after they were voided

books   == <<invoiceStatus, flags>>
rows    == <<status, invoiceOf, settled, external, named>>
workers == <<pc, leg, writeback>>
voids   == <<pendingVoid, voiding>>
erp     == <<billPay, outside, deleted>>
history == <<told, mistaken, late>>
vars    == <<books, rows, workers, voids, report, erp, applied, history>>

-----------------------------------------------------------------------------
(* Values *)

InvoiceStatus == {"approved", "payment_scheduled", "paid"}
Payable       == {"approved", "payment_scheduled"}

Terminal      == {"failed", "voided"}
PaymentStatus == {"unused", "pending", "in_flight", "completed"} \cup Terminal

\* block: a payment_reconciliation exception; note: an erp_reconciliation one.
\* blockReport, noteReport: the same types, carrying a payment the ERP reported
\* and FeohLedger could not record (erp_report.kind = paid_not_recorded).
Flag     == {"block", "blockReport", "note", "noteReport"}
Blocking == {"block", "blockReport"}
Noting   == {"note", "noteReport"}
Reports  == {"blockReport", "noteReport"}

\* A bill as an ErpBillReport shows it: its state, and reduced_outside.
BillReport == [state : {"open", "partial", "paid", "deleted"}, outside : BOOLEAN]

\* pc[w]: idle;  read - payment seen completed, invoice not locked yet;
\* paid - invoice paid and committed;  posting - payment re-read completed.
PC == {"idle", "read", "paid", "posting"}

\* Every variable holds a value of its kind; a record made outside is never named
\* without its provider.
TypeOK ==
    /\ invoiceStatus \in [Invoices -> InvoiceStatus]
    /\ flags \in [Invoices -> SUBSET Flag]
    /\ status \in [Payments -> PaymentStatus]
    /\ invoiceOf \in [Payments -> Invoices \cup {None}]
    /\ settled \in [Payments -> 0 .. Total]
    /\ named \subseteq external /\ external \subseteq Payments
    /\ pendingVoid \subseteq Payments
    /\ pc \in [Workers -> PC]
    /\ leg \in [Workers -> Payments \cup {None}]
    /\ writeback \subseteq Payments
    /\ voiding \in [Payments -> {"none", "ok", "refused"}]
    /\ report \in [Readers -> [invoice : Invoices, bill : BillReport] \cup {None}]
    /\ billPay \in [Payments -> {"none", "live", "voided"}]
    /\ outside \in [Invoices -> Nat]
    /\ deleted \subseteq Invoices
    /\ applied \in [Invoices -> {"unpaid", "paid", "paid_outside"}]
    /\ told \subseteq Invoices
    /\ mistaken \subseteq Invoices /\ late \subseteq Payments

-----------------------------------------------------------------------------
(* Rows and the bill *)

Live(p)   == status[p] \notin Terminal \cup {"unused"}
RowsOf(i) == {p \in Payments : status[p] # "unused" /\ invoiceOf[p] = i}

\* uq_payments_one_live_per_invoice leaves room for a live row.
SlotFree(i) == \A p \in RowsOf(i) : ~Live(p)

Completed(i)    == {p \in RowsOf(i) : status[p] = "completed"}
Ours(i)         == {p \in RowsOf(i) : billPay[p] = "live"}
OursApplied(i)  == MapThenSumSet(LAMBDA p : settled[p], Ours(i))
TakenOff(i)     == OursApplied(i) + outside[i]
Untouched(i)    == Ours(i) = {} /\ outside[i] = 0

\* bill_report: what the ERP answers for the bill now.
Bill(i) ==
    IF i \in deleted
    THEN [state |-> "deleted", outside |-> FALSE]
    ELSE [state   |-> IF Untouched(i) THEN "open"
                      ELSE IF TakenOff(i) >= Total THEN "paid" ELSE "partial",
          outside |-> outside[i] > 0]

PaidOutside(b) == b.state = "paid" /\ b.outside

Said(b) == IF PaidOutside(b) THEN "paid_outside"
           ELSE IF b.state = "paid" THEN "paid" ELSE "unpaid"

-----------------------------------------------------------------------------
(* Exceptions *)

\* open_erp_reconciliation_exception: one live row of a type per invoice.
OpenBlock(F) == IF F \cap Blocking = {} THEN F \cup {"block"} ELSE F
OpenNote(F)  == IF F \cap Noting = {} THEN F \cup {"note"} ELSE F

\* (mutant) the row that a blocking one replaces stays.
KeepReportBeside(F, blocking) ==
    IF "blockReport" \in F \/ (blocking /\ "block" \notin F)
    THEN F \cup {"blockReport"}
    ELSE F \cup {"noteReport"}

\* _keep_erp_paid_report: one live paid_not_recorded row, whatever its type.
KeepReport(F, blocking) ==
    IF "blockReport" \in F \/ (blocking /\ "block" \notin F)
    THEN (F \ {"noteReport"}) \cup {"blockReport"}
    ELSE F \cup {"noteReport"}

\* (mutant) a withdrawn report goes on offering its payment.
WithdrawNothing(F) == F

\* withdraw_erp_paid_reports: the row stays, and no longer offers a payment.
Withdraw(F) ==
    (F \ Reports) \cup {IF k = "blockReport" THEN "block" ELSE "note" : k \in F \cap Reports}

\* close_erp_paid_reports
CloseReports(F) == F \ Reports

\* dispatch_preflight and the run builder refuse a flagged invoice.
Blocked(i) == flags[i] \cap Blocking # {}

-----------------------------------------------------------------------------
Init ==
    /\ invoiceStatus = [i \in Invoices |-> "approved"]
    /\ flags = [i \in Invoices |-> {}]
    /\ status = [p \in Payments |-> "unused"]
    /\ invoiceOf = [p \in Payments |-> None]
    /\ settled = [p \in Payments |-> 0]
    /\ external = {} /\ named = {} /\ pendingVoid = {} /\ writeback = {}
    /\ pc = [w \in Workers |-> "idle"]
    /\ leg = [w \in Workers |-> None]
    /\ voiding = [p \in Payments |-> "none"]
    /\ report = [r \in Readers |-> None]
    /\ billPay = [p \in Payments |-> "none"]
    /\ outside = [i \in Invoices |-> 0]
    /\ deleted = {} /\ told = {} /\ mistaken = {} /\ late = {}
    /\ applied = [i \in Invoices |-> "unpaid"]

-----------------------------------------------------------------------------
(* Booking, dispatch and settlement, as far as the ERP has a part in them *)

\* create_payment_run_for_invoices: book p for i.
Book(i, p) ==
    /\ status[p] = "unused" /\ SlotFree(i)
    /\ invoiceStatus[i] \in Payable /\ ~Blocked(i)
    /\ status' = [status EXCEPT ![p] = "pending"]
    /\ invoiceOf' = [invoiceOf EXCEPT ![p] = i]
    /\ UNCHANGED <<books, settled, external, named, workers, voids, report, erp, applied, history>>

\* _execute_single_payment refuses before the rail: preflight, or a bill it could
\* not verify, or one paid by our own write-back whose void is pending.
RefuseDispatch(p) ==
    /\ status[p] = "pending"
    /\ status' = [status EXCEPT ![p] = "failed"]
    /\ UNCHANGED <<books, invoiceOf, settled, external, named, workers, voids, report, erp,
                   applied, history>>

PendingVoidOf(i) == pendingVoid \cap RowsOf(i) # {}

\* erp_bill_dispatch_refusal: the bill is not open, and nothing explains it.
StopDispatch(p) ==
    LET i == invoiceOf[p] IN
    /\ status[p] = "pending"
    /\ invoiceStatus[i] \in Payable /\ ~Blocked(i)
    /\ Bill(i).state # "open"
    /\ ~(Bill(i).state # "deleted" /\ ~Bill(i).outside /\ PendingVoidOf(i))
    /\ status' = [status EXCEPT ![p] = "failed"]
    /\ flags' = [flags EXCEPT ![i] = OpenBlock(@)]
    /\ UNCHANGED <<invoiceStatus, invoiceOf, settled, external, named, workers, voids, report,
                   erp, applied, history>>

\* (mutant) the bill is not read before the rail.
DispatchUnread(p) ==
    LET i == invoiceOf[p] IN
    /\ status[p] = "pending"
    /\ invoiceStatus[i] \in Payable /\ ~Blocked(i)
    /\ status' = [status EXCEPT ![p] = "in_flight"]
    /\ invoiceStatus' = [invoiceStatus EXCEPT ![i] = "payment_scheduled"]
    /\ UNCHANGED <<flags, invoiceOf, settled, external, named, workers, voids, report, erp,
                   applied, history>>

\* Every gate passed and the rail took the payment.
Dispatch(p) ==
    LET i == invoiceOf[p] IN
    /\ status[p] = "pending"
    /\ invoiceStatus[i] \in Payable /\ ~Blocked(i)
    /\ Bill(i).state = "open"
    /\ status' = [status EXCEPT ![p] = "in_flight"]
    /\ invoiceStatus' = [invoiceStatus EXCEPT ![i] = "payment_scheduled"]
    /\ UNCHANGED <<flags, invoiceOf, settled, external, named, workers, voids, report, erp,
                   applied, history>>

\* payment_webhook, the reconciler's poll: the rail's verdict, with what it settled.
Settle(p, n) ==
    /\ status[p] = "in_flight"
    /\ status' = [status EXCEPT ![p] = "completed"]
    /\ settled' = [settled EXCEPT ![p] = n]
    /\ UNCHANGED <<books, invoiceOf, external, named, workers, voids, report, erp, applied,
                   history>>

Fail(p) ==
    /\ status[p] = "in_flight"
    /\ status' = [status EXCEPT ![p] = "failed"]
    /\ UNCHANGED <<books, invoiceOf, settled, external, named, workers, voids, report, erp,
                   applied, history>>

-----------------------------------------------------------------------------
(* The sync pass, one leg at a time *)

\* _sync_one_leg: the payment is read without a lock.  A pass starts after a
\* run's execution, a webhook, a poll or POST /runs/{id}/sync-erp.
StartLeg(w, p) ==
    /\ pc[w] = "idle"
    /\ status[p] = "completed" /\ p \notin external
    /\ pc' = [pc EXCEPT ![w] = "read"]
    /\ leg' = [leg EXCEPT ![w] = p]
    /\ UNCHANGED <<books, rows, writeback, voids, report, erp, applied, history>>

ToIdle(w) ==
    /\ pc' = [pc EXCEPT ![w] = "idle"]
    /\ leg' = [leg EXCEPT ![w] = None]

\* The adapter cannot be had or the database fails: roll back, then
\* _flag_sync_failure, which is itself best effort.
LegFails(w) ==
    /\ pc[w] \in {"read", "paid"}
    /\ ToIdle(w)
    /\ \/ flags' = [flags EXCEPT ![invoiceOf[leg[w]]] = OpenNote(@)]
       \/ flags' = flags
    /\ UNCHANGED <<invoiceStatus, rows, writeback, voids, report, erp, applied, history>>

\* settlement_coverage(...).completes_invoice
Covers(p) == settled[p] = Total

\* The invoice is locked, judged with the payment as it was read, and committed.
MarkPaid(w) ==
    LET i == invoiceOf[leg[w]] IN
    /\ pc[w] = "read"
    /\ invoiceStatus[i] = "payment_scheduled" /\ Covers(leg[w])
    /\ invoiceStatus' = [invoiceStatus EXCEPT ![i] = "paid"]
    /\ pc' = [pc EXCEPT ![w] = "paid"]
    /\ mistaken' = IF status[leg[w]] = "completed" THEN mistaken ELSE mistaken \cup {i}
    /\ UNCHANGED <<flags, rows, leg, writeback, voids, report, erp, applied, told,
                   late>>

\* Already paid: nothing to move, and the write-back is still due.
FindPaid(w) ==
    /\ pc[w] = "read"
    /\ invoiceStatus[invoiceOf[leg[w]]] = "paid"
    /\ pc' = [pc EXCEPT ![w] = "paid"]
    /\ UNCHANGED <<books, rows, leg, writeback, voids, report, erp, applied, history>>

\* Held for a short settlement, or the invoice is neither scheduled nor paid.
HoldLeg(w) ==
    LET i == invoiceOf[leg[w]] IN
    /\ pc[w] = "read"
    /\ \/ invoiceStatus[i] = "payment_scheduled" /\ ~Covers(leg[w])
       \/ invoiceStatus[i] = "approved"
    /\ ToIdle(w)
    /\ UNCHANGED <<books, rows, writeback, voids, report, erp, applied, history>>

\* POST /payments/{id}/settlement/accept: a person closes a short settlement.
AcceptSettlement(p) ==
    LET i == invoiceOf[p] IN
    /\ status[p] = "completed" /\ ~Covers(p)
    /\ invoiceStatus[i] = "payment_scheduled"
    /\ invoiceStatus' = [invoiceStatus EXCEPT ![i] = "paid"]
    /\ writeback' = writeback \cup {p}
    /\ UNCHANGED <<flags, rows, pc, leg, voids, report, erp, applied, history>>

\* write_back_settled_payment: the task begins.
StartWriteback(w, p) ==
    /\ pc[w] = "idle" /\ p \in writeback
    /\ writeback' = writeback \ {p}
    /\ IF invoiceStatus[invoiceOf[p]] = "paid"
       THEN pc' = [pc EXCEPT ![w] = "paid"] /\ leg' = [leg EXCEPT ![w] = p]
       ELSE UNCHANGED <<pc, leg>>
    /\ UNCHANGED <<books, rows, voids, report, erp, applied, history>>

-----------------------------------------------------------------------------
(* The payment, written to the bill: write_back_payment, post_payment *)

\* The payment is read again, then its transaction ends.
Recheck(w) ==
    /\ pc[w] = "paid"
    /\ IF status[leg[w]] = "completed"
       THEN pc' = [pc EXCEPT ![w] = "posting"] /\ UNCHANGED leg
       ELSE ToIdle(w)
    /\ UNCHANGED <<books, rows, writeback, voids, report, erp, applied, history>>

\* The ERP has answered, and the outcome is recorded at best effort: a refusal, or a
\* bill left partly open, is flagged.
Answered(w, flag) ==
    /\ ToIdle(w)
    /\ \/ flag /\ flags' = [flags EXCEPT ![invoiceOf[leg[w]]] = OpenNote(@)]
       \/ flags' = flags

\* Nothing was written: no account, no bill, more than its balance, or an error.
\* Also an answer that did not arrive for a payment that is there already, and
\* one that someone has voided in the ERP.
PostRefused(w) ==
    /\ pc[w] = "posting"
    /\ Answered(w, TRUE)
    /\ UNCHANGED <<invoiceStatus, rows, writeback, voids, report, erp, applied, history>>

\* payment_exceeds_balance
FitsBalance(p) == settled[p] <= Total - TakenOff(invoiceOf[p])

\* The bill payment is there already: found by its marker, nothing created.
PostFindsOurs(w) ==
    LET p == leg[w] IN
    /\ pc[w] = "posting"
    /\ invoiceOf[p] \notin deleted /\ billPay[p] = "live"
    /\ Answered(w, TakenOff(invoiceOf[p]) < Total)
    /\ UNCHANGED <<invoiceStatus, rows, writeback, voids, report, erp, applied, history>>

\* The bill payment is created; the answer arrives, or is lost and reads as a refusal.
PostCreates(w) ==
    LET p == leg[w] IN
    /\ pc[w] = "posting"
    /\ invoiceOf[p] \notin deleted /\ billPay[p] = "none" /\ FitsBalance(p)
    /\ billPay' = [billPay EXCEPT ![p] = "live"]
    /\ Answered(w, TRUE)
    /\ late' = IF status[p] = "completed" THEN late ELSE late \cup {p}
    /\ UNCHANGED <<invoiceStatus, rows, writeback, voids, report, outside, deleted, applied,
                   told, mistaken>>

-----------------------------------------------------------------------------
(* A payment is voided, here and then in the ERP *)

\* (mutant) only a scheduled invoice is taken back.
ReopenScheduled(s) == IF s = "payment_scheduled" THEN "approved" ELSE s

\* What a void makes of the invoice's status.
Reopen(s) == IF s \in {"payment_scheduled", "paid"} THEN "approved" ELSE s

\* (mutant) a void of a payment the ERP reported is like any other.
NeverReported(p) == FALSE

\* flag_void_of_erp_reported_payment: a record of the ERP's own payment, known by
\* its reference.
WasReported(p) == status[p] = "completed" /\ p \in named

\* void_payment: the invoice is payable again.  A payment the ERP reported blocks
\* it; one that may have been written back leaves a pending void for the ERP.
Void(p) ==
    LET i == invoiceOf[p] IN
    /\ status[p] \in {"in_flight", "completed"}
    /\ status' = [status EXCEPT ![p] = "voided"]
    /\ invoiceStatus' = [invoiceStatus EXCEPT ![i] = Reopen(@)]
    /\ flags' = IF WasReported(p) THEN [flags EXCEPT ![i] = OpenBlock(@)] ELSE flags
    /\ told' = IF p \in external \ named /\ applied[i] = "paid_outside"
               THEN told \cup {i} ELSE told
    /\ pendingVoid' = IF status[p] = "completed" /\ p \notin external
                      THEN pendingVoid \cup {p} ELSE pendingVoid
    /\ UNCHANGED <<invoiceOf, settled, external, named, workers, voiding, report, erp, applied,
                   mistaken, late>>

\* void_written_payment, after the void or from the sweep (resume_pending_voids),
\* calls the ERP, which voids the bill payment or finds nothing of ours.
VoidAnswered(p) ==
    /\ p \in pendingVoid /\ voiding[p] = "none"
    /\ billPay' = IF billPay[p] = "live" /\ invoiceOf[p] \notin deleted
                  THEN [billPay EXCEPT ![p] = "voided"] ELSE billPay
    /\ voiding' = [voiding EXCEPT ![p] = "ok"]
    /\ UNCHANGED <<books, rows, workers, pendingVoid, report, outside, deleted,
                   applied, history>>

\* The ERP refuses, or voids and its answer is lost.
VoidUnanswered(p) ==
    /\ p \in pendingVoid /\ voiding[p] = "none"
    /\ voiding' = [voiding EXCEPT ![p] = "refused"]
    /\ \/ billPay[p] = "live" /\ billPay' = [billPay EXCEPT ![p] = "voided"]
       \/ billPay' = billPay
    /\ UNCHANGED <<books, rows, workers, pendingVoid, report, outside, deleted,
                   applied, history>>

\* (mutant) the marker is cleared whatever the ERP said.
AnyAnswerDone(p) == TRUE

VoidDone(p) == voiding[p] = "ok"

\* The outcome is recorded: voided, or nothing of ours there, clears the marker; a
\* refusal is flagged and leaves it for the sweep.
RecordVoid(p) ==
    /\ voiding[p] # "none"
    /\ voiding' = [voiding EXCEPT ![p] = "none"]
    /\ IF VoidDone(p)
       THEN pendingVoid' = pendingVoid \ {p} /\ UNCHANGED flags
       ELSE flags' = [flags EXCEPT ![invoiceOf[p]] = OpenNote(@)] /\ UNCHANGED pendingVoid
    /\ UNCHANGED <<invoiceStatus, rows, workers, report, erp, applied, history>>

\* The process restarts: its tasks and what they hold in memory are gone.
Restart ==
    /\ pc' = [w \in Workers |-> "idle"]
    /\ leg' = [w \in Workers |-> None]
    /\ writeback' = {}
    /\ voiding' = [p \in Payments |-> "none"]
    /\ report' = [r \in Readers |-> None]
    /\ UNCHANGED <<books, rows, pendingVoid, erp, applied, history>>

-----------------------------------------------------------------------------
(* What people do in the ERP *)

\* n units are taken off the bill, by a payment or a vendor credit.
ErpPays(i, n) ==
    /\ i \notin deleted /\ n <= Total - TakenOff(i)
    /\ outside' = [outside EXCEPT ![i] = @ + n]
    /\ UNCHANGED <<books, rows, workers, voids, report, billPay, deleted, applied, history>>

\* All of that is undone.
ErpUndoes(i) ==
    /\ outside[i] > 0
    /\ outside' = [outside EXCEPT ![i] = 0]
    /\ UNCHANGED <<books, rows, workers, voids, report, billPay, deleted, applied, history>>

\* A bill with nothing taken off it is deleted.
ErpDeletes(i) ==
    /\ i \notin deleted /\ Untouched(i)
    /\ deleted' = deleted \cup {i}
    /\ UNCHANGED <<books, rows, workers, voids, report, billPay, outside, applied, history>>

\* A bill payment of ours is voided by a person.
ErpVoidsOurs(p) ==
    /\ billPay[p] = "live"
    /\ billPay' = [billPay EXCEPT ![p] = "voided"]
    /\ UNCHANGED <<books, rows, workers, voids, report, outside, deleted, applied,
                   history>>

-----------------------------------------------------------------------------
(* Bill reports: sync_bills, apply_bill_report *)

\* A webhook or the sweep reads the bill; nothing is locked.
ReadBill(r, i) ==
    /\ report[r] = None
    /\ report' = [report EXCEPT ![r] = [invoice |-> i, bill |-> Bill(i)]]
    /\ UNCHANGED <<books, rows, workers, voids, erp, applied, history>>

\* (mutant) the row is booked without its provider.
BookOutsideUnmarked(i, p) ==
    /\ status[p] = "unused"
    /\ status' = [status EXCEPT ![p] = "completed"]
    /\ invoiceOf' = [invoiceOf EXCEPT ![p] = i]
    /\ settled' = [settled EXCEPT ![p] = Total]
    /\ UNCHANGED external
    /\ invoiceStatus' = [invoiceStatus EXCEPT ![i] = "paid"]

\* _complete: a fresh row, completed outside FeohLedger.
BookOutside(i, p) ==
    /\ status[p] = "unused"
    /\ status' = [status EXCEPT ![p] = "completed"]
    /\ invoiceOf' = [invoiceOf EXCEPT ![p] = i]
    /\ settled' = [settled EXCEPT ![p] = Total]
    /\ external' = external \cup {p}
    /\ invoiceStatus' = [invoiceStatus EXCEPT ![i] = "paid"]

\* record_erp_reported_payment through record_invoice_paid_outside, on an invoice
\* with flags F: booked under a fresh row, or refused and kept as a report.
RecordReported(i, F) ==
    \/ /\ F \cap Blocking = {} /\ SlotFree(i)
       /\ \E p \in Payments : BookOutside(i, p) /\ named' = named \cup {p}
       /\ flags' = [flags EXCEPT ![i] = CloseReports(F)]
    \/ /\ F \cap Blocking = {} /\ ~SlotFree(i)
       /\ flags' = [flags EXCEPT ![i] = KeepReport(F, TRUE)]
       /\ UNCHANGED <<invoiceStatus, rows>>
    \/ \* a blocking exception, an amount or a credit that does not add up
       /\ flags' = [flags EXCEPT ![i] = KeepReport(F, FALSE)]
       /\ UNCHANGED <<invoiceStatus, rows>>

\* What a report other than a payment to record does to the flags.
FlagsFor(i, b, F) ==
    CASE PaidOutside(b) /\ invoiceStatus[i] \in Payable
            -> OpenBlock(F)
      [] PaidOutside(b) /\ invoiceStatus[i] = "paid"
            -> IF Completed(i) \ external # {} THEN OpenNote(F) ELSE F
      [] b.state = "partial" /\ b.outside /\ invoiceStatus[i] \in Payable
            -> OpenBlock(F)
      [] b.state = "open" /\ invoiceStatus[i] = "paid" /\ Completed(i) \cap named # {}
            -> OpenNote(F)
      [] b.state = "deleted"
            -> IF invoiceStatus[i] \in Payable THEN OpenBlock(F) ELSE OpenNote(F)
      [] OTHER -> F

\* A payment of a bill whose invoice has no FeohLedger payment out.
IsRecordable(i, b) == PaidOutside(b) /\ invoiceStatus[i] = "approved"

\* apply_bill_report, under the invoice's lock.  What a vendor credit settled is
\* never recorded as a payment, so a recordable report may be flagged instead.
ApplyReport(r) ==
    /\ report[r] # None
    /\ LET i == report[r].invoice
           b == report[r].bill
           F == IF b.state = "paid" THEN flags[i] ELSE Withdraw(flags[i])
       IN  /\ \/ IsRecordable(i, b) /\ RecordReported(i, F)
              \/ /\ flags' = [flags EXCEPT ![i] = FlagsFor(i, b, F)]
                 /\ UNCHANGED <<invoiceStatus, rows>>
           /\ applied' = [applied EXCEPT ![i] = Said(b)]
           /\ told' = IF PaidOutside(b) THEN told ELSE told \ {i}
    /\ report' = [report EXCEPT ![r] = None]
    /\ UNCHANGED <<workers, voids, erp, mistaken, late>>

-----------------------------------------------------------------------------
(* A person works the exceptions *)

\* record_decision: the flag is closed.  When that unblocks an invoice with a kept
\* report, the payment is recorded (retry_erp_reported_payments).
Resolve(i, k) ==
    LET F == flags[i] \ {k} IN
    /\ k \in flags[i]
    /\ told' = IF applied[i] = "paid_outside" THEN told \cup {i} ELSE told
    /\ IF k = "block" /\ "noteReport" \in F /\ invoiceStatus[i] = "approved"
       THEN RecordReported(i, F)
       ELSE flags' = [flags EXCEPT ![i] = F] /\ UNCHANGED <<invoiceStatus, rows>>
    /\ UNCHANGED <<workers, voids, report, erp, applied, mistaken, late>>

\* POST /exceptions/{id}/record-erp-payment: the row that holds the report is
\* answered by recording its payment; any other blocker refuses.  The person may
\* correct the reference.
RecordErpPayment(i, k) ==
    /\ k \in flags[i] \cap Reports
    /\ invoiceStatus[i] \in Payable
    /\ (flags[i] \ {k}) \cap Blocking = {} /\ SlotFree(i)
    /\ \E p \in Payments : BookOutside(i, p) /\ named' \in {named, named \cup {p}}
    /\ flags' = [flags EXCEPT ![i] = CloseReports(@)]
    /\ UNCHANGED <<workers, voids, report, erp, applied, history>>

-----------------------------------------------------------------------------
Paying ==
    \/ \E i \in Invoices, p \in Payments : Book(i, p)
    \/ \E p \in Payments : \/ RefuseDispatch(p) \/ StopDispatch(p) \/ Dispatch(p)
                           \/ (\E n \in 1 .. Total : Settle(p, n)) \/ Fail(p)
                           \/ AcceptSettlement(p) \/ Void(p)

Syncing(w) ==
    \/ \E p \in Payments : StartLeg(w, p) \/ StartWriteback(w, p)
    \/ LegFails(w) \/ MarkPaid(w) \/ FindPaid(w) \/ HoldLeg(w)
    \/ Recheck(w) \/ PostRefused(w) \/ PostFindsOurs(w) \/ PostCreates(w)

VoidingInErp(p) == VoidAnswered(p) \/ VoidUnanswered(p) \/ RecordVoid(p)

InTheErp ==
    \/ \E i \in Invoices : \/ \E n \in 1 .. Total : ErpPays(i, n)
                           \/ ErpUndoes(i) \/ ErpDeletes(i)
    \/ \E p \in Payments : ErpVoidsOurs(p)

Reporting(r) == (\E i \in Invoices : ReadBill(r, i)) \/ ApplyReport(r)

Deciding(i) ==
    \/ \E k \in Flag : Resolve(i, k)
    \/ \E k \in Reports : RecordErpPayment(i, k)

Next ==
    \/ Paying
    \/ \E w \in Workers : Syncing(w)
    \/ \E p \in Payments : VoidingInErp(p)
    \/ InTheErp
    \/ \E r \in Readers : Reporting(r)
    \/ \E i \in Invoices : Deciding(i)
    \/ Restart

Spec == Init /\ [][Next]_vars

-----------------------------------------------------------------------------
(* Properties *)

\* An invoice reads paid only on the strength of a completed payment.  The sync,
\* an acceptance, a report and a person each move it there; voids, failures and
\* re-bookings run beside them (payment_erp_sync.py:299-306).  `mistaken' is the
\* one exception the code leaves: a leg reads the payment completed, and by the
\* time it has the invoice's lock that payment is voided and another in flight.
PaidRestsOnPayment ==
    \A i \in Invoices :
        invoiceStatus[i] = "paid" /\ i \notin mistaken => Completed(i) # {}

\* A payment made outside FeohLedger that closed the bill, once the ERP has reported
\* it and until it reports otherwise, is recorded, or an exception is live, or a
\* person has dealt with one: whatever the invoice was when the report came, and
\* whatever is voided or decided after it (record_erp_reported_payment: "never
\* silent").
OutsidePaymentIsTold ==
    \A i \in Invoices :
        applied[i] = "paid_outside" =>
            \/ Completed(i) \cap external # {}
            \/ flags[i] # {}
            \/ i \in told \cup mistaken

\* One payment the ERP reported is offered for recording once, and one exception
\* at a time blocks an invoice: clearing it is the decision (_keep_erp_paid_report).
OneErpReport ==
    \A i \in Invoices : ~(Reports \subseteq flags[i]) /\ ~(Blocking \subseteq flags[i])

\* A payment is recorded on the ERP's word only while the last report applied
\* says paid: one that the ERP has withdrawn is never booked, whichever blocker
\* a person clears and whenever (withdraw_erp_paid_reports).
ErpRecordsStand ==
    [][\A p \in Payments :
          p \notin external /\ p \in external' => applied'[invoiceOf'[p]] # "unpaid"]_vars

\* A voided payment stands in the ERP only while its void is still to be sent, across
\* refusals, lost answers and restarts (PENDING_VOIDS_KEY).  `late' is the exception
\* the code leaves, see VoidReachesErp.
VoidIsRemembered ==
    \A p \in Payments :
        status[p] = "voided" /\ billPay[p] = "live" => p \in pendingVoid \cup late

\* The same without the exception: "a BillPayment for a voided payment would show
\* the bill paid in the ERP" (erp_payment_writeback.py:188-189), so the write-back
\* reads the payment again, and posts after that read's transaction has ended.
VoidReachesErp ==
    \A p \in Payments : status[p] = "voided" /\ billPay[p] = "live" => p \in pendingVoid

\* Two payments of ours never stand on one bill, whatever is voided here, refused
\* there and booked again between them, and though each fits the balance: no payment
\* goes to the rail before the void of the last one has reached the ERP
\* (erp_bill_dispatch_refusal: "paid only by our own write-back ... held").  One
\* written late is the exception, as above.
BillPaidOnce ==
    \A p, q \in Payments :
        p # q /\ billPay[p] = "live" /\ billPay[q] = "live" /\ invoiceOf[p] = invoiceOf[q] =>
            {p, q} \cap late # {}

\* The books kept here and in the ERP are those of ErpLedger: every step of the
\* sync, the write-back, a void, a restart or a person in the ERP is one of its
\* entries for one payment, or none.
Ledger == INSTANCE ErpLedger WITH
    books <- [p \in Payments |-> IF status[p] = "completed" THEN "paid"
                                 ELSE IF status[p] = "voided" THEN "void" ELSE "none"],
    there <- billPay,
    owed  <- pendingVoid,
    late  <- late

LedgerKept == Ledger!Spec
=============================================================================
