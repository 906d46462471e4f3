------------------------ MODULE PaymentErpSync_proofs ------------------------
(***************************************************************************)
(* Proofs about PaymentErpSync, for any sets of invoices, payment rows,    *)
(* tasks and readers, and any amount owed.                                 *)
(*                                                                         *)
(* The first part is about the exceptions of one invoice: what each way of *)
(* raising, keeping, withdrawing and closing them leaves.  The second      *)
(* gathers what most steps leave alone into three frames: the books, the   *)
(* rows with the work on them, and the voids.  The third proves IInv of    *)
(* PaymentErpSyncInvariant inductive, action by action, and the fourth     *)
(* draws theorems from it.  The last adds BillInv, what holds of the       *)
(* payments of ours in the ERP, and shows a bill paid once by us.          *)
(***************************************************************************)
EXTENDS PaymentErpSyncInvariant, TLAPS

\* The tuples of variables are abbreviations, and None is known to be no value.
USE DEF books, rows, workers, voids, erp, history
USE NoneIsNoIdentity, TotalIsPositive

\* What the exceptions of an invoice always are: at most one carries a report,
\* and at most one blocks.
Good(F) == F \in SUBSET Flag /\ ~(Reports \subseteq F) /\ ~(Blocking \subseteq F)

-----------------------------------------------------------------------------
(* The exceptions of one invoice *)

\* Opening a blocking exception leaves one, and no new report.
LEMMA OpenBlockGood ==
  ASSUME NEW F, Good(F)
  PROVE  Good(OpenBlock(F)) /\ OpenBlock(F) # {} /\ OpenBlock(F) \cap Reports = F \cap Reports
  BY DEF Good, OpenBlock, Flag, Blocking, Reports

\* The same for an exception that does not block.
LEMMA OpenNoteGood ==
  ASSUME NEW F, Good(F)
  PROVE  Good(OpenNote(F)) /\ OpenNote(F) # {} /\ OpenNote(F) \cap Reports = F \cap Reports
  BY DEF Good, OpenNote, Flag, Noting, Reports, Blocking

\* A report kept is live, alone, and beside at most one blocker.
LEMMA KeepReportGood ==
  ASSUME NEW F, Good(F), NEW blocking \in BOOLEAN
  PROVE  Good(KeepReport(F, blocking)) /\ KeepReport(F, blocking) # {}
  BY DEF Good, KeepReport, Flag, Blocking, Reports

\* A report withdrawn leaves its exception, without the report.
LEMMA WithdrawGood ==
  ASSUME NEW F, Good(F)
  PROVE  Good(Withdraw(F)) /\ Withdraw(F) \cap Reports = {} /\ (F # {} => Withdraw(F) # {})
  BY DEF Good, Withdraw, Flag, Blocking, Reports

\* Reports closed leave the rest.
LEMMA CloseReportsGood ==
  ASSUME NEW F, Good(F)
  PROVE  Good(CloseReports(F)) /\ CloseReports(F) \cap Reports = {}
  BY DEF Good, CloseReports, Flag, Blocking, Reports

\* An exception closed leaves the others.
LEMMA ClosedGood ==
  ASSUME NEW F, Good(F), NEW k
  PROVE  Good(F \ {k})
  BY DEF Good

\* The invariant says so of every invoice.
LEMMA FlagsAreGood ==
  ASSUME IInv, NEW i \in Invoices
  PROVE  Good(flags[i])
  BY DEF IInv, TypeOK, OneErpReport, Good

\* Whatever was taken off it, a bill reads as a bill report does.
LEMMA BillIsReport == ASSUME NEW i PROVE Bill(i) \in BillReport
  BY DEF Bill, BillReport

-----------------------------------------------------------------------------
(* What most steps leave alone *)

\* No completed payment is lost and nothing that answers for an invoice is forgotten.
CompletedStay ==
    /\ \A p \in Payments : status[p] = "completed" =>
          status'[p] = "completed" /\ invoiceOf'[p] = invoiceOf[p]
    /\ external \subseteq external' /\ told \subseteq told' /\ mistaken \subseteq mistaken'

\* Exceptions are kept or raised, and none takes up a report.
FlagsKept ==
    \A i \in Invoices :
        /\ Good(flags'[i])
        /\ flags'[i] \cap Reports # {} => flags[i] \cap Reports # {}
        /\ flags[i] # {} => flags'[i] # {}

\* Exceptions that were good still are, when only those of one invoice change,
\* for others of which the same holds.
LEMMA OneInvoiceFlagged ==
  ASSUME IInv, NEW i \in Invoices, NEW F, Good(F), F # {}, F \cap Reports \subseteq flags[i],
         flags' = [flags EXCEPT ![i] = F]
  PROVE  FlagsKept /\ flags' \in [Invoices -> SUBSET Flag]
  <1>1. flags \in [Invoices -> SUBSET Flag]
    BY DEF IInv, TypeOK
  <1>2. \A j \in Invoices : Good(flags[j])
    BY FlagsAreGood
  <1> QED
    BY <1>1, <1>2 DEF FlagsKept, Good

\* Exceptions that do not change are kept.
LEMMA SameFlags ==
  ASSUME IInv, UNCHANGED flags
  PROVE  FlagsKept /\ flags' \in [Invoices -> SUBSET Flag]
  <1>1. flags \in [Invoices -> SUBSET Flag]
    BY DEF IInv, TypeOK
  <1>2. \A j \in Invoices : Good(flags[j])
    BY FlagsAreGood
  <1> QED BY <1>1, <1>2 DEF FlagsKept

\* A step that loses no completed payment, marks nothing paid and keeps the
\* exceptions keeps what the invariant says of invoices.
LEMMA ExceptionsStand ==
  ASSUME IInv, UNCHANGED applied, CompletedStay, FlagsKept
  PROVE  OneErpReport' /\ OutsidePaymentIsTold' /\ ReportsStand'
  <1>1. OneErpReport'
    BY DEF FlagsKept, OneErpReport, Good
  <1>2. OutsidePaymentIsTold'
    <2> SUFFICES ASSUME NEW i \in Invoices, applied[i] = "paid_outside"
                 PROVE  Completed(i)' \cap external' # {} \/ flags'[i] # {}
                        \/ i \in told' \cup mistaken'
      BY DEF OutsidePaymentIsTold
    <2>1. Completed(i) \cap external # {} \/ flags[i] # {} \/ i \in told \cup mistaken
      BY DEF IInv, OutsidePaymentIsTold
    <2>2. Completed(i) \subseteq Completed(i)'
      BY DEF CompletedStay, Completed, RowsOf
    <2> QED BY <2>1, <2>2 DEF CompletedStay, FlagsKept
  <1>3. ReportsStand'
    BY DEF IInv, ReportsStand, FlagsKept
  <1> QED BY <1>1, <1>2, <1>3

\* Likewise for the invoices that read paid.
LEMMA PaidStand ==
  ASSUME IInv, CompletedStay,
         \A i \in Invoices : invoiceStatus'[i] = "paid" => invoiceStatus[i] = "paid"
  PROVE  PaidRestsOnPayment'
  <1> SUFFICES ASSUME NEW i \in Invoices, invoiceStatus'[i] = "paid", i \notin mistaken'
               PROVE  Completed(i)' # {}
    BY DEF PaidRestsOnPayment
  <1>1. Completed(i) # {}
    BY DEF IInv, PaidRestsOnPayment, CompletedStay
  <1>2. Completed(i) \subseteq Completed(i)'
    BY DEF CompletedStay, Completed, RowsOf
  <1> QED BY <1>1, <1>2

\* A worker's step: it stops, goes on, or takes up a payment that completed.
WorkersMove ==
    /\ \A w \in Workers :
          \/ pc'[w] = "idle" /\ leg'[w] = None
          \/ pc'[w] # "idle" /\ pc[w] # "idle" /\ leg'[w] = leg[w]
          \/ /\ pc'[w] # "idle" /\ leg'[w] \in Payments
             /\ status[leg'[w]] \in Closed /\ leg'[w] \notin external
    /\ \A p \in writeback' :
          p \in writeback \/ (p \in Payments /\ status[p] \in Closed /\ p \notin external)

\* Rows closed stay closed, and belong where they did.
RowsStay ==
    /\ \A p \in Payments : status[p] \in Closed =>
          status'[p] \in Closed /\ (p \in external' <=> p \in external)
    /\ \A p \in Payments : status[p] # "unused" => invoiceOf'[p] = invoiceOf[p]

\* The work stays on rows that completed.
LEMMA WorkStands ==
  ASSUME IInv, RowsStay, WorkersMove
  PROVE  WorkOnRows'
  <1> USE DEF IInv, TypeOK, RowsStay, WorkersMove, WorkOnRows
  <1>1. ASSUME NEW w \in Workers, pc'[w] # "idle"
        PROVE  leg'[w] \in Payments /\ status'[leg'[w]] \in Closed /\ leg'[w] \notin external'
    BY <1>1
  <1>2. ASSUME NEW w \in Workers, pc'[w] = "idle"
        PROVE  leg'[w] = None
    BY <1>2
  <1>3. \A p \in writeback' : status'[p] \in Closed /\ p \notin external'
    OBVIOUS
  <1> QED BY <1>1, <1>2, <1>3

\* Neither rows nor their part in the ERP change.
LEMMA RowsStand ==
  ASSUME IInv, UNCHANGED <<rows, billPay, deleted>>
  PROVE  RowsWellFormed' /\ RowsStay
  BY DEF IInv, RowsWellFormed, RowsStay

\* Nor do the voids.
LEMMA VoidsStand ==
  ASSUME IInv, UNCHANGED <<status, voids, billPay, late>>
  PROVE  VoidsWellFormed' /\ VoidIsRemembered'
  BY DEF IInv, VoidsWellFormed, VoidIsRemembered

\* A step of the sync or of a reader that leaves rows, voids and the ERP alone.
LEMMA QuietRows ==
  ASSUME IInv, UNCHANGED <<rows, voids, billPay, deleted, late>>, WorkersMove
  PROVE  RowsWellFormed' /\ WorkOnRows' /\ VoidsWellFormed' /\ VoidIsRemembered'
  BY RowsStand, WorkStands, VoidsStand

\* Workers that do not move.
LEMMA WorkersRest ==
  ASSUME IInv, UNCHANGED workers
  PROVE  WorkersMove
  BY DEF IInv, WorkOnRows, WorkersMove

-----------------------------------------------------------------------------
(* Init, booking and the rail *)

\* A tenant with approved invoices, open bills and no payments.
LEMMA InitInv == Init => IInv
  <1> SUFFICES ASSUME Init PROVE IInv
    OBVIOUS
  <1>1. TypeOK
    BY DEF Init, TypeOK, InvoiceStatus, PaymentStatus, PC, Flag
  <1>2. RowsWellFormed /\ WorkOnRows /\ VoidsWellFormed /\ VoidIsRemembered
    BY DEF Init, RowsWellFormed, WorkOnRows, VoidsWellFormed, VoidIsRemembered
  <1>3. PaidRestsOnPayment /\ OneErpReport /\ OutsidePaymentIsTold /\ ReportsStand
    BY DEF Init, PaidRestsOnPayment, OneErpReport, OutsidePaymentIsTold, ReportsStand,
           Reports, Blocking
  <1> QED BY <1>1, <1>2, <1>3 DEF IInv

\* Booking takes a row that is not in use.
LEMMA BookInv ==
  ASSUME IInv, NEW i \in Invoices, NEW p \in Payments, Book(i, p)
  PROVE  IInv'
  <1> USE DEF Book
  <1>1. TypeOK'
    BY DEF IInv, TypeOK, PaymentStatus
  <1>2. RowsWellFormed'
    BY DEF IInv, TypeOK, RowsWellFormed, Closed
  <1>3. RowsStay /\ WorkersMove
    BY WorkersRest DEF IInv, TypeOK, RowsStay, Closed
  <1>4. WorkOnRows'
    BY <1>3, WorkStands
  <1>5. VoidsWellFormed' /\ VoidIsRemembered'
    BY DEF IInv, TypeOK, VoidsWellFormed, VoidIsRemembered
  <1>6. CompletedStay
    BY DEF IInv, TypeOK, CompletedStay
  <1>7. PaidRestsOnPayment' /\ OneErpReport' /\ OutsidePaymentIsTold' /\ ReportsStand'
    BY <1>6, PaidStand, ExceptionsStand, SameFlags
  <1> QED BY <1>1, <1>2, <1>4, <1>5, <1>7 DEF IInv

\* A row on its way through the rail: from a live state that is not completed, to any
\* state but completed and voided, or completed by the rail; its invoice may be
\* scheduled, and flagged.
RailStep(p) ==
    /\ \E s \in {"failed", "in_flight", "completed"} : status' = [status EXCEPT ![p] = s]
    /\ status[p] \in {"pending", "in_flight"}
    /\ invoiceStatus' \in [Invoices -> InvoiceStatus]
    /\ \A i \in Invoices : invoiceStatus'[i] = "paid" => invoiceStatus[i] = "paid"
    /\ settled' \in [Payments -> 0 .. Total]
    /\ \A q \in Payments \ {p} : settled'[q] = settled[q]
    /\ UNCHANGED <<invoiceOf, external, named, workers, voids, report, erp, applied, history>>

\* No such step disturbs what the invariant says.
LEMMA RailInv ==
  ASSUME IInv, NEW p \in Payments, RailStep(p), FlagsKept, flags' \in [Invoices -> SUBSET Flag]
  PROVE  IInv'
  <1> USE DEF RailStep
  <1>0. /\ p \notin external /\ billPay[p] = "none" /\ status[p] \notin Closed
        /\ invoiceOf[p] \in Invoices
    BY DEF IInv, RowsWellFormed, Closed
  <1>1. TypeOK'
    <2>1. status' \in [Payments -> PaymentStatus]
      BY DEF IInv, TypeOK, PaymentStatus, Terminal
    <2> QED BY <2>1 DEF IInv, TypeOK
  <1>2. RowsWellFormed'
    BY <1>0 DEF IInv, TypeOK, RowsWellFormed, Closed
  <1>3. RowsStay /\ WorkersMove
    BY <1>0, WorkersRest DEF IInv, TypeOK, RowsStay, Closed
  <1>4. WorkOnRows'
    BY <1>3, WorkStands
  <1>5. VoidsWellFormed' /\ VoidIsRemembered'
    BY <1>0 DEF IInv, TypeOK, VoidsWellFormed, VoidIsRemembered, Closed
  <1>6. CompletedStay
    BY <1>0 DEF IInv, TypeOK, CompletedStay, Closed
  <1>7. PaidRestsOnPayment' /\ OneErpReport' /\ OutsidePaymentIsTold' /\ ReportsStand'
    BY <1>6, PaidStand, ExceptionsStand
  <1> QED BY <1>1, <1>2, <1>4, <1>5, <1>7 DEF IInv

\* The steps that are.
LEMMA RefuseInv ==
  ASSUME IInv, NEW p \in Payments, RefuseDispatch(p)
  PROVE  IInv'
  <1>1. RailStep(p)
    BY DEF IInv, TypeOK, RefuseDispatch, RailStep
  <1> QED
    BY <1>1, RailInv, SameFlags DEF RefuseDispatch

LEMMA StopInv ==
  ASSUME IInv, NEW p \in Payments, StopDispatch(p)
  PROVE  IInv'
  <1>1. RailStep(p)
    BY DEF IInv, TypeOK, StopDispatch, RailStep
  <1>2. invoiceOf[p] \in Invoices
    BY DEF IInv, RowsWellFormed, StopDispatch
  <1>3. flags' = [flags EXCEPT ![invoiceOf[p]] = OpenBlock(flags[invoiceOf[p]])]
    BY DEF StopDispatch
  <1>4. FlagsKept /\ flags' \in [Invoices -> SUBSET Flag]
    BY <1>2, <1>3, FlagsAreGood, OpenBlockGood, OneInvoiceFlagged
  <1> QED BY <1>1, <1>4, RailInv

LEMMA DispatchStepInv ==
  ASSUME IInv, NEW p \in Payments, Dispatch(p)
  PROVE  IInv'
  <1>1. RailStep(p)
    BY DEF IInv, TypeOK, RowsWellFormed, Dispatch, RailStep, InvoiceStatus, Payable
  <1> QED
    BY <1>1, RailInv, SameFlags DEF Dispatch

LEMMA SettleInv ==
  ASSUME IInv, NEW p \in Payments, NEW n \in 1 .. Total, Settle(p, n)
  PROVE  IInv'
  <1>1. RailStep(p)
    BY DEF IInv, TypeOK, Settle, RailStep
  <1> QED
    BY <1>1, RailInv, SameFlags DEF Settle

LEMMA FailInv ==
  ASSUME IInv, NEW p \in Payments, Fail(p)
  PROVE  IInv'
  <1>1. RailStep(p)
    BY DEF IInv, TypeOK, Fail, RailStep
  <1> QED
    BY <1>1, RailInv, SameFlags DEF Fail

-----------------------------------------------------------------------------
(* The sync and the write-back *)

\* What a step of a worker that marks no invoice has to show.
LEMMA SyncStepInv ==
  ASSUME IInv, WorkersMove,
         pc' \in [Workers -> PC], leg' \in [Workers -> Payments \cup {None}],
         writeback' \subseteq Payments,
         FlagsKept, flags' \in [Invoices -> SUBSET Flag],
         UNCHANGED <<invoiceStatus, rows, voids, report, erp, applied, history>>
  PROVE  IInv'
  <1>1. TypeOK'
    BY DEF IInv, TypeOK
  <1>2. RowsWellFormed' /\ WorkOnRows' /\ VoidsWellFormed' /\ VoidIsRemembered'
    BY QuietRows
  <1>3. CompletedStay
    BY DEF CompletedStay
  <1>4. PaidRestsOnPayment' /\ OneErpReport' /\ OutsidePaymentIsTold' /\ ReportsStand'
    BY <1>3, PaidStand, ExceptionsStand
  <1> QED BY <1>1, <1>2, <1>4 DEF IInv

\* A worker that stops leaves nothing behind.
LEMMA StopsWell ==
  ASSUME IInv, NEW w \in Workers, ToIdle(w), UNCHANGED writeback
  PROVE  /\ WorkersMove
         /\ pc' \in [Workers -> PC] /\ leg' \in [Workers -> Payments \cup {None}]
         /\ writeback' \subseteq Payments
  <1>1. \A v \in Workers \ {w} : pc'[v] = pc[v] /\ leg'[v] = leg[v]
    BY DEF IInv, TypeOK, ToIdle
  <1>2. pc'[w] = "idle" /\ leg'[w] = None
    BY DEF IInv, TypeOK, ToIdle
  <1>3. \A v \in Workers : pc[v] = "idle" => leg[v] = None
    BY DEF IInv, WorkOnRows
  <1>4. WorkersMove
    BY <1>1, <1>2, <1>3 DEF WorkersMove
  <1>5. pc' \in [Workers -> PC] /\ leg' \in [Workers -> Payments \cup {None}]
    BY DEF IInv, TypeOK, ToIdle, PC
  <1> QED BY <1>4, <1>5 DEF IInv, TypeOK

\* A worker that goes on stays at its payment.
LEMMA GoesOnWell ==
  ASSUME IInv, NEW w \in Workers, pc[w] # "idle", NEW s \in PC \ {"idle"},
         pc' = [pc EXCEPT ![w] = s], UNCHANGED <<leg, writeback>>
  PROVE  /\ WorkersMove
         /\ pc' \in [Workers -> PC] /\ leg' \in [Workers -> Payments \cup {None}]
         /\ writeback' \subseteq Payments
  <1>1. \A v \in Workers \ {w} : pc'[v] = pc[v] /\ leg'[v] = leg[v]
    BY DEF IInv, TypeOK
  <1>2. pc'[w] = s /\ leg'[w] = leg[w]
    BY DEF IInv, TypeOK
  <1>3. \A v \in Workers : pc[v] = "idle" => leg[v] = None
    BY DEF IInv, WorkOnRows
  <1>4. WorkersMove
    BY <1>1, <1>2, <1>3 DEF WorkersMove
  <1> QED BY <1>4 DEF IInv, TypeOK

\* A worker that takes up a payment takes one that completed.
LEMMA TakesUpWell ==
  ASSUME IInv, NEW w \in Workers, NEW p \in Payments, NEW s \in PC \ {"idle"},
         status[p] \in Closed, p \notin external,
         pc' = [pc EXCEPT ![w] = s], leg' = [leg EXCEPT ![w] = p], writeback' \subseteq writeback
  PROVE  /\ WorkersMove
         /\ pc' \in [Workers -> PC] /\ leg' \in [Workers -> Payments \cup {None}]
         /\ writeback' \subseteq Payments
  <1>1. \A v \in Workers \ {w} : pc'[v] = pc[v] /\ leg'[v] = leg[v]
    BY DEF IInv, TypeOK
  <1>2. pc'[w] = s /\ leg'[w] = p
    BY DEF IInv, TypeOK
  <1>3. \A v \in Workers : pc[v] = "idle" => leg[v] = None
    BY DEF IInv, WorkOnRows
  <1>4. WorkersMove
    BY <1>1, <1>2, <1>3 DEF WorkersMove
  <1> QED BY <1>4 DEF IInv, TypeOK

\* The payment a busy worker is at, and its invoice.
LEMMA LegOfBusy ==
  ASSUME IInv, NEW w \in Workers, pc[w] # "idle"
  PROVE  /\ leg[w] \in Payments /\ status[leg[w]] \in Closed /\ leg[w] \notin external
         /\ invoiceOf[leg[w]] \in Invoices
  <1>1. leg[w] \in Payments /\ status[leg[w]] \in Closed /\ leg[w] \notin external
    BY DEF IInv, WorkOnRows
  <1> QED BY <1>1 DEF IInv, RowsWellFormed, Closed

\* An exception raised for the invoice of a payment, or none.
LEMMA MayFlag ==
  ASSUME IInv, NEW i \in Invoices,
         flags' = [flags EXCEPT ![i] = OpenNote(flags[i])] \/ UNCHANGED flags
  PROVE  FlagsKept /\ flags' \in [Invoices -> SUBSET Flag]
  <1>1. CASE UNCHANGED flags
    BY <1>1, SameFlags
  <1>2. CASE flags' = [flags EXCEPT ![i] = OpenNote(flags[i])]
    BY <1>2, FlagsAreGood, OpenNoteGood, OneInvoiceFlagged
  <1> QED BY <1>1, <1>2

LEMMA StartLegInv ==
  ASSUME IInv, NEW w \in Workers, NEW p \in Payments, StartLeg(w, p)
  PROVE  IInv'
  <1>1. /\ WorkersMove
        /\ pc' \in [Workers -> PC] /\ leg' \in [Workers -> Payments \cup {None}]
        /\ writeback' \subseteq Payments
    BY TakesUpWell DEF StartLeg, Closed, PC
  <1> QED BY <1>1, SameFlags, SyncStepInv DEF StartLeg

LEMMA StartWritebackInv ==
  ASSUME IInv, NEW w \in Workers, NEW p \in Payments, StartWriteback(w, p)
  PROVE  IInv'
  <1>1. status[p] \in Closed /\ p \notin external
    BY DEF StartWriteback, IInv, WorkOnRows
  <1>2. CASE invoiceStatus[invoiceOf[p]] = "paid"
    <2>1. /\ WorkersMove
          /\ pc' \in [Workers -> PC] /\ leg' \in [Workers -> Payments \cup {None}]
          /\ writeback' \subseteq Payments
      BY <1>1, <1>2, TakesUpWell DEF StartWriteback, PC
    <2> QED BY <2>1, SameFlags, SyncStepInv DEF StartWriteback
  <1>3. CASE invoiceStatus[invoiceOf[p]] # "paid"
    <2>1. \A v \in Workers : pc[v] = "idle" => leg[v] = None
      BY DEF IInv, WorkOnRows
    <2>2. WorkersMove /\ writeback' \subseteq Payments
      BY <1>3, <2>1 DEF StartWriteback, WorkersMove, IInv, TypeOK
    <2>3. pc' \in [Workers -> PC] /\ leg' \in [Workers -> Payments \cup {None}]
      BY <1>3 DEF StartWriteback, IInv, TypeOK
    <2> QED BY <2>2, <2>3, SameFlags, SyncStepInv DEF StartWriteback
  <1> QED BY <1>2, <1>3

LEMMA LegFailsInv ==
  ASSUME IInv, NEW w \in Workers, LegFails(w)
  PROVE  IInv'
  <1>1. invoiceOf[leg[w]] \in Invoices
    BY LegOfBusy DEF LegFails
  <1>2. FlagsKept /\ flags' \in [Invoices -> SUBSET Flag]
    BY <1>1, MayFlag DEF LegFails
  <1> QED BY <1>2, StopsWell, SyncStepInv DEF LegFails

LEMMA FindPaidInv ==
  ASSUME IInv, NEW w \in Workers, FindPaid(w)
  PROVE  IInv'
  BY GoesOnWell, SameFlags, SyncStepInv DEF FindPaid, PC

LEMMA HoldLegInv ==
  ASSUME IInv, NEW w \in Workers, HoldLeg(w)
  PROVE  IInv'
  BY StopsWell, SameFlags, SyncStepInv DEF HoldLeg

LEMMA RecheckInv ==
  ASSUME IInv, NEW w \in Workers, Recheck(w)
  PROVE  IInv'
  <1>1. CASE status[leg[w]] = "completed"
    BY <1>1, GoesOnWell, SameFlags, SyncStepInv DEF Recheck, PC
  <1>2. CASE status[leg[w]] # "completed"
    BY <1>2, StopsWell, SameFlags, SyncStepInv DEF Recheck
  <1> QED BY <1>1, <1>2

\* The two answers of the ERP that change nothing there.
LEMMA AnsweredInv ==
  ASSUME IInv, NEW w \in Workers, NEW flag \in BOOLEAN, pc[w] = "posting", Answered(w, flag),
         UNCHANGED <<invoiceStatus, rows, writeback, voids, report, erp, applied, history>>
  PROVE  IInv'
  <1>1. invoiceOf[leg[w]] \in Invoices
    BY LegOfBusy
  <1>2. FlagsKept /\ flags' \in [Invoices -> SUBSET Flag]
    BY <1>1, MayFlag DEF Answered
  <1> QED BY <1>2, StopsWell, SyncStepInv DEF Answered

LEMMA PostRefusedInv ==
  ASSUME IInv, NEW w \in Workers, PostRefused(w)
  PROVE  IInv'
  BY AnsweredInv DEF PostRefused

LEMMA PostFindsOursInv ==
  ASSUME IInv, NEW w \in Workers, PostFindsOurs(w)
  PROVE  IInv'
  <1> DEFINE flag == TakenOff(invoiceOf[leg[w]]) < Total
  <1>1. Answered(w, flag)
    BY DEF PostFindsOurs
  <1>2. Answered(w, TRUE) \/ Answered(w, FALSE)
    BY <1>1 DEF Answered
  <1> QED BY <1>2, AnsweredInv DEF PostFindsOurs

\* The bill payment is created for a payment that completed, on a bill not deleted;
\* if the payment is voided by then, it is late.
LEMMA PostCreatesInv ==
  ASSUME IInv, NEW w \in Workers, PostCreates(w)
  PROVE  IInv'
  <1> DEFINE p == leg[w]
  <1> USE DEF PostCreates
  <1>0. p \in Payments /\ status[p] \in Closed /\ p \notin external /\ invoiceOf[p] \in Invoices
    BY LegOfBusy
  <1>1. FlagsKept /\ flags' \in [Invoices -> SUBSET Flag]
    BY <1>0, MayFlag DEF Answered
  <1>2. /\ WorkersMove
        /\ pc' \in [Workers -> PC] /\ leg' \in [Workers -> Payments \cup {None}]
        /\ writeback' \subseteq Payments
    BY StopsWell DEF Answered
  <1>3. /\ late' \subseteq Payments /\ late \subseteq late'
        /\ billPay' \in [Payments -> {"none", "live", "voided"}]
    BY <1>0 DEF IInv, TypeOK
  <1>4. TypeOK'
    BY <1>1, <1>2, <1>3 DEF IInv, TypeOK
  <1>5. RowsWellFormed'
    BY <1>0 DEF IInv, TypeOK, RowsWellFormed
  <1>6. WorkOnRows'
    BY <1>2, WorkStands DEF RowsStay
  <1>7. /\ \A q \in Payments \ {p} : billPay'[q] = billPay[q]
        /\ status[p] = "voided" => p \in late'
    BY <1>0 DEF IInv, TypeOK
  <1>8. VoidsWellFormed' /\ VoidIsRemembered'
    BY <1>3, <1>7 DEF IInv, VoidsWellFormed, VoidIsRemembered
  <1>9. CompletedStay
    BY DEF CompletedStay
  <1>10. PaidRestsOnPayment' /\ OneErpReport' /\ OutsidePaymentIsTold' /\ ReportsStand'
    BY <1>1, <1>9, PaidStand, ExceptionsStand
  <1> QED BY <1>4, <1>5, <1>6, <1>8, <1>10 DEF IInv

\* A leg marks its invoice paid for a payment still completed, or by mistake.
LEMMA MarkPaidInv ==
  ASSUME IInv, NEW w \in Workers, MarkPaid(w)
  PROVE  IInv'
  <1> DEFINE p == leg[w]
             i == invoiceOf[leg[w]]
  <1> USE DEF MarkPaid
  <1>0. p \in Payments /\ status[p] \in Closed /\ i \in Invoices
    BY LegOfBusy
  <1>1. /\ WorkersMove
        /\ pc' \in [Workers -> PC] /\ leg' \in [Workers -> Payments \cup {None}]
        /\ writeback' \subseteq Payments
    BY GoesOnWell DEF PC
  <1>2. mistaken' \subseteq Invoices /\ mistaken \subseteq mistaken'
    BY <1>0 DEF IInv, TypeOK
  <1>3. TypeOK'
    BY <1>0, <1>1, <1>2 DEF IInv, TypeOK, InvoiceStatus
  <1>4. RowsWellFormed' /\ WorkOnRows' /\ VoidsWellFormed' /\ VoidIsRemembered'
    BY <1>1, QuietRows
  <1>5. CompletedStay
    BY <1>2 DEF CompletedStay
  <1>6. PaidRestsOnPayment'
    <2> SUFFICES ASSUME NEW j \in Invoices, invoiceStatus'[j] = "paid", j \notin mistaken'
                 PROVE  Completed(j)' # {}
      BY DEF PaidRestsOnPayment
    <2>1. CASE j = i
      <3>1. status[p] = "completed"
        BY <2>1
      <3> QED BY <2>1, <3>1, <1>0 DEF Completed, RowsOf
    <2>2. CASE j # i
      <3>1. invoiceStatus[j] = "paid"
        BY <2>2, <1>0 DEF IInv, TypeOK
      <3>2. Completed(j) # {}
        BY <1>2, <3>1 DEF IInv, PaidRestsOnPayment
      <3> QED BY <3>2 DEF Completed, RowsOf
    <2> QED BY <2>1, <2>2
  <1>7. OneErpReport' /\ OutsidePaymentIsTold' /\ ReportsStand'
    BY <1>5, SameFlags, ExceptionsStand
  <1> QED BY <1>3, <1>4, <1>6, <1>7 DEF IInv

\* A settlement is accepted for a payment that is completed.
LEMMA AcceptInv ==
  ASSUME IInv, NEW p \in Payments, AcceptSettlement(p)
  PROVE  IInv'
  <1> DEFINE i == invoiceOf[p]
  <1> USE DEF AcceptSettlement
  <1>0. i \in Invoices /\ p \notin external
    BY DEF IInv, RowsWellFormed, Covers
  <1>1. WorkersMove
    <2>1. \A v \in Workers : pc[v] = "idle" => leg[v] = None
      BY DEF IInv, WorkOnRows
    <2> QED BY <1>0, <2>1 DEF WorkersMove, Closed
  <1>2. TypeOK'
    BY <1>0 DEF IInv, TypeOK, InvoiceStatus
  <1>3. RowsWellFormed' /\ WorkOnRows' /\ VoidsWellFormed' /\ VoidIsRemembered'
    BY <1>1, QuietRows
  <1>4. CompletedStay
    BY DEF CompletedStay
  <1>5. PaidRestsOnPayment'
    <2> SUFFICES ASSUME NEW j \in Invoices, invoiceStatus'[j] = "paid", j \notin mistaken
                 PROVE  Completed(j)' # {}
      BY DEF PaidRestsOnPayment
    <2>1. CASE j = i
      BY <2>1, <1>0 DEF Completed, RowsOf
    <2>2. CASE j # i
      <3>1. invoiceStatus[j] = "paid"
        BY <2>2, <1>0 DEF IInv, TypeOK
      <3>2. Completed(j) # {}
        BY <3>1 DEF IInv, PaidRestsOnPayment
      <3> QED BY <3>2 DEF Completed, RowsOf
    <2> QED BY <2>1, <2>2
  <1>6. OneErpReport' /\ OutsidePaymentIsTold' /\ ReportsStand'
    BY <1>4, SameFlags, ExceptionsStand
  <1> QED BY <1>2, <1>3, <1>5, <1>6 DEF IInv

\* Everything in memory is lost at once.
LEMMA RestartInv ==
  ASSUME IInv, Restart
  PROVE  IInv'
  <1> USE DEF Restart
  <1>1. TypeOK'
    BY DEF IInv, TypeOK, PC
  <1>2. RowsWellFormed'
    BY RowsStand
  <1>3. WorkOnRows'
    BY DEF WorkOnRows
  <1>4. VoidsWellFormed' /\ VoidIsRemembered'
    BY DEF IInv, VoidsWellFormed, VoidIsRemembered
  <1>5. CompletedStay
    BY DEF CompletedStay
  <1>6. PaidRestsOnPayment' /\ OneErpReport' /\ OutsidePaymentIsTold' /\ ReportsStand'
    BY <1>5, SameFlags, PaidStand, ExceptionsStand
  <1> QED BY <1>1, <1>2, <1>3, <1>4, <1>6 DEF IInv

-----------------------------------------------------------------------------
(* Voids, and the ERP *)

\* A void reopens the invoice, blocks it for a payment the ERP reported, and leaves a
\* pending void for a payment that may have been written.
LEMMA VoidInv ==
  ASSUME IInv, NEW p \in Payments, Void(p)
  PROVE  IInv'
  <1> DEFINE i == invoiceOf[p]
  <1> USE DEF Void
  <1>0. i \in Invoices
    BY DEF IInv, RowsWellFormed
  <1>1. FlagsKept /\ flags' \in [Invoices -> SUBSET Flag]
    <2>1. CASE WasReported(p)
      <3>1. flags' = [flags EXCEPT ![i] = OpenBlock(flags[i])]
        BY <2>1
      <3> QED BY <3>1, <1>0, FlagsAreGood, OpenBlockGood, OneInvoiceFlagged
    <2>2. CASE ~WasReported(p)
      BY <2>2, SameFlags
    <2> QED BY <2>1, <2>2
  <1>2. /\ status' \in [Payments -> PaymentStatus]
        /\ invoiceStatus' \in [Invoices -> InvoiceStatus]
        /\ \A j \in Invoices : invoiceStatus'[j] = "paid" => invoiceStatus[j] = "paid" /\ j # i
    BY <1>0 DEF IInv, TypeOK, PaymentStatus, Terminal, InvoiceStatus, Reopen
  <1>3. told' \subseteq Invoices /\ told \subseteq told' /\ pendingVoid' \subseteq Payments
    BY <1>0 DEF IInv, TypeOK
  <1>4. TypeOK'
    BY <1>1, <1>2, <1>3 DEF IInv, TypeOK
  <1>5. /\ status'[p] = "voided"
        /\ \A q \in Payments \ {p} : status'[q] = status[q]
    BY DEF IInv, TypeOK
  <1>6. RowsWellFormed'
    <2>1. billPay[p] # "none" => p \notin external
      BY DEF IInv, RowsWellFormed
    <2> QED BY <1>0, <1>5, <2>1 DEF IInv, RowsWellFormed, Closed
  <1>7. WorkOnRows'
    <2>1. RowsStay
      BY <1>5 DEF RowsStay, Closed
    <2> QED BY <2>1, WorkersRest, WorkStands
  <1>8. VoidsWellFormed' /\ VoidIsRemembered'
    <2>1. pendingVoid \subseteq pendingVoid' /\ pendingVoid' \subseteq pendingVoid \cup {p}
      OBVIOUS
    <2>2. p \notin pendingVoid
      BY DEF IInv, VoidsWellFormed
    <2>3. voiding[p] = "none"
      BY <2>2 DEF IInv, VoidsWellFormed
    <2>4. billPay[p] = "live" => p \in pendingVoid'
      BY DEF IInv, RowsWellFormed, Closed
    <2>5. VoidsWellFormed'
      BY <1>5, <2>1, <2>3 DEF IInv, VoidsWellFormed
    <2>6. VoidIsRemembered'
      BY <1>5, <2>1, <2>4 DEF IInv, VoidIsRemembered
    <2> QED BY <2>5, <2>6
  <1>9. PaidRestsOnPayment'
    <2> SUFFICES ASSUME NEW j \in Invoices, invoiceStatus'[j] = "paid", j \notin mistaken
                 PROVE  Completed(j)' # {}
      BY DEF PaidRestsOnPayment
    <2>1. Completed(j) # {} /\ j # i
      BY <1>2 DEF IInv, PaidRestsOnPayment
    <2>2. Completed(j) \subseteq Completed(j)'
      BY <1>5, <2>1 DEF Completed, RowsOf
    <2> QED BY <2>1, <2>2
  <1>10. OutsidePaymentIsTold'
    <2> SUFFICES ASSUME NEW j \in Invoices, applied[j] = "paid_outside"
                 PROVE  Completed(j)' \cap external # {} \/ flags'[j] # {}
                        \/ j \in told' \cup mistaken
      BY DEF OutsidePaymentIsTold
    <2>1. CASE j = i /\ p \in external
      <3>1. CASE p \in named
        <4>1. WasReported(p)
          <5>1. status[p] = "completed"
            BY <2>1 DEF IInv, RowsWellFormed, Closed
          <5> QED BY <3>1, <5>1 DEF WasReported
        <4>2. flags'[i] = OpenBlock(flags[i])
          BY <4>1, <1>0 DEF IInv, TypeOK
        <4>3. OpenBlock(flags[i]) # {}
          BY <1>0, FlagsAreGood, OpenBlockGood
        <4> QED BY <2>1, <4>2, <4>3
      <3>2. CASE p \notin named
        BY <2>1, <3>2
      <3> QED BY <3>1, <3>2
    <2>2. CASE j # i \/ p \notin external
      <3>1. Completed(j) \cap external # {} \/ flags[j] # {} \/ j \in told \cup mistaken
        BY DEF IInv, OutsidePaymentIsTold
      <3>2. Completed(j) \cap external \subseteq Completed(j)'
        BY <1>5, <2>2 DEF Completed, RowsOf
      <3> QED BY <1>1, <1>3, <3>1, <3>2 DEF FlagsKept
    <2> QED BY <2>1, <2>2
  <1>11. OneErpReport' /\ ReportsStand'
    BY <1>1 DEF IInv, FlagsKept, Good, OneErpReport, ReportsStand
  <1> QED BY <1>4, <1>6, <1>7, <1>8, <1>9, <1>10, <1>11 DEF IInv

\* What a step that changes nothing but voids and the ERP has to show.
LEMMA ErpStepInv ==
  ASSUME IInv, TypeOK', RowsWellFormed', VoidsWellFormed', VoidIsRemembered', FlagsKept,
         UNCHANGED <<invoiceStatus, rows, workers, applied, told, mistaken>>
  PROVE  IInv'
  <1>1. WorkOnRows'
    BY WorkersRest, WorkStands DEF RowsStay
  <1>2. CompletedStay
    BY DEF CompletedStay
  <1>3. PaidRestsOnPayment' /\ OneErpReport' /\ OutsidePaymentIsTold' /\ ReportsStand'
    BY <1>2, PaidStand, ExceptionsStand
  <1> QED BY <1>1, <1>3 DEF IInv

LEMMA VoidAnsweredInv ==
  ASSUME IInv, NEW p \in Payments, VoidAnswered(p)
  PROVE  IInv'
  <1> USE DEF VoidAnswered
  <1>1. TypeOK'
    BY DEF IInv, TypeOK
  <1>2. \A q \in Payments : \/ billPay'[q] = billPay[q]
                            \/ q = p /\ billPay[q] = "live" /\ billPay'[q] = "voided"
    BY DEF IInv, TypeOK
  <1>3. billPay'[p] # "live"
    BY DEF IInv, TypeOK, RowsWellFormed
  <1>4. RowsWellFormed'
    BY <1>2 DEF IInv, RowsWellFormed
  <1>5. VoidsWellFormed' /\ VoidIsRemembered'
    BY <1>2, <1>3 DEF IInv, TypeOK, VoidsWellFormed, VoidIsRemembered
  <1> QED BY <1>1, <1>4, <1>5, SameFlags, ErpStepInv

LEMMA VoidUnansweredInv ==
  ASSUME IInv, NEW p \in Payments, VoidUnanswered(p)
  PROVE  IInv'
  <1> USE DEF VoidUnanswered
  <1>1. TypeOK'
    BY DEF IInv, TypeOK
  <1>2. \A q \in Payments : \/ billPay'[q] = billPay[q]
                            \/ q = p /\ billPay[q] = "live" /\ billPay'[q] = "voided"
    BY DEF IInv, TypeOK
  <1>4. RowsWellFormed'
    BY <1>2 DEF IInv, RowsWellFormed
  <1>5. VoidsWellFormed' /\ VoidIsRemembered'
    BY <1>2 DEF IInv, TypeOK, VoidsWellFormed, VoidIsRemembered
  <1> QED BY <1>1, <1>4, <1>5, SameFlags, ErpStepInv

\* The marker is cleared when nothing of ours stands, what was written late apart.
LEMMA RecordVoidInv ==
  ASSUME IInv, NEW p \in Payments, RecordVoid(p)
  PROVE  IInv'
  <1> USE DEF RecordVoid
  <1>0. status[p] = "voided" /\ invoiceOf[p] \in Invoices
    BY DEF IInv, VoidsWellFormed, RowsWellFormed
  <1>1. FlagsKept /\ flags' \in [Invoices -> SUBSET Flag]
    BY <1>0, MayFlag
  <1>2. TypeOK'
    BY <1>1 DEF IInv, TypeOK
  <1>3. RowsWellFormed'
    BY RowsStand
  <1>4. /\ voiding'[p] = "none" /\ \A q \in Payments \ {p} : voiding'[q] = voiding[q]
        /\ pendingVoid \ {p} \subseteq pendingVoid' /\ pendingVoid' \subseteq pendingVoid
        /\ p \in pendingVoid' \/ voiding[p] = "ok"
    BY DEF IInv, TypeOK, VoidDone, VoidsWellFormed
  <1>5. VoidsWellFormed'
    BY <1>4 DEF IInv, TypeOK, VoidsWellFormed
  <1>6. VoidIsRemembered'
    BY <1>4 DEF IInv, VoidsWellFormed, VoidIsRemembered
  <1> QED BY <1>1, <1>2, <1>3, <1>5, <1>6, ErpStepInv

\* People in the ERP touch no row of ours.
LEMMA ErpActsInv ==
  ASSUME IInv, InTheErp
  PROVE  IInv'
  <1>1. ASSUME NEW i \in Invoices, NEW n \in 1 .. Total, ErpPays(i, n)
        PROVE  IInv'
    <2> USE <1>1 DEF ErpPays
    <2>1. outside' \in [Invoices -> Nat]
      BY DEF IInv, TypeOK
    <2>2. TypeOK'
      BY <2>1 DEF IInv, TypeOK
    <2> QED BY <2>2, RowsStand, VoidsStand, SameFlags, ErpStepInv
  <1>2. ASSUME NEW i \in Invoices, ErpUndoes(i)
        PROVE  IInv'
    <2> USE <1>2 DEF ErpUndoes
    <2>1. TypeOK'
      BY DEF IInv, TypeOK
    <2> QED BY <2>1, RowsStand, VoidsStand, SameFlags, ErpStepInv
  <1>3. ASSUME NEW i \in Invoices, ErpDeletes(i)
        PROVE  IInv'
    <2> USE <1>3 DEF ErpDeletes
    <2>1. TypeOK'
      BY DEF IInv, TypeOK
    <2>2. \A p \in Payments : billPay[p] = "live" => invoiceOf[p] # i
      BY DEF IInv, RowsWellFormed, Untouched, Ours, RowsOf, Closed
    <2>3. RowsWellFormed'
      BY <2>2 DEF IInv, TypeOK, RowsWellFormed
    <2> QED BY <2>1, <2>3, VoidsStand, SameFlags, ErpStepInv
  <1>4. ASSUME NEW p \in Payments, ErpVoidsOurs(p)
        PROVE  IInv'
    <2> USE <1>4 DEF ErpVoidsOurs
    <2>1. TypeOK'
      BY DEF IInv, TypeOK
    <2>2. RowsWellFormed'
      BY DEF IInv, TypeOK, RowsWellFormed
    <2>3. VoidsWellFormed' /\ VoidIsRemembered'
      BY DEF IInv, TypeOK, VoidsWellFormed, VoidIsRemembered
    <2> QED BY <2>1, <2>2, <2>3, SameFlags, ErpStepInv
  <1> QED BY <1>1, <1>2, <1>3, <1>4 DEF InTheErp

-----------------------------------------------------------------------------
(* Bill reports, and the person who works the exceptions *)

\* Nothing but a reader changes when a bill is read.
LEMMA ReadBillInv ==
  ASSUME IInv, NEW r \in Readers, NEW i \in Invoices, ReadBill(r, i)
  PROVE  IInv'
  <1>1. TypeOK'
    BY BillIsReport DEF ReadBill, IInv, TypeOK
  <1> QED BY <1>1, RowsStand, VoidsStand, SameFlags, ErpStepInv DEF ReadBill

\* A payment made outside is booked for i, or no row is.
BookedOrNot(i) ==
    \/ \E p \in Payments : BookOutside(i, p) /\ named' \in {named, named \cup {p}}
    \/ UNCHANGED <<invoiceStatus, rows>>

\* What booking, or not, makes of the rows and of the invoices that read paid.
LEMMA BookedRows ==
  ASSUME IInv, NEW i \in Invoices, BookedOrNot(i),
         UNCHANGED <<workers, voids, erp, mistaken, late>>
  PROVE  /\ invoiceStatus' \in [Invoices -> InvoiceStatus]
         /\ status' \in [Payments -> PaymentStatus]
         /\ invoiceOf' \in [Payments -> Invoices \cup {None}]
         /\ settled' \in [Payments -> 0 .. Total]
         /\ named' \subseteq external' /\ external' \subseteq Payments
         /\ RowsWellFormed' /\ WorkOnRows' /\ VoidsWellFormed' /\ VoidIsRemembered'
         /\ PaidRestsOnPayment'
         /\ \A j \in Invoices : Completed(j) \cap external \subseteq Completed(j)' \cap external'
  <1>1. CASE UNCHANGED <<invoiceStatus, rows>>
    <2>1. PaidRestsOnPayment'
      BY <1>1, PaidStand DEF CompletedStay, IInv, PaidRestsOnPayment, Completed, RowsOf
    <2>2. \A j \in Invoices : Completed(j) \cap external \subseteq Completed(j)' \cap external'
      BY <1>1 DEF Completed, RowsOf
    <2> QED
      BY <1>1, <2>1, <2>2, RowsStand, WorkersRest, WorkStands, VoidsStand DEF IInv, TypeOK
  <1>2. ASSUME NEW p \in Payments, BookOutside(i, p), named' \in {named, named \cup {p}}
        PROVE  /\ invoiceStatus' \in [Invoices -> InvoiceStatus]
               /\ status' \in [Payments -> PaymentStatus]
               /\ invoiceOf' \in [Payments -> Invoices \cup {None}]
               /\ settled' \in [Payments -> 0 .. Total]
               /\ named' \subseteq external' /\ external' \subseteq Payments
               /\ RowsWellFormed' /\ WorkOnRows' /\ VoidsWellFormed' /\ VoidIsRemembered'
               /\ PaidRestsOnPayment'
               /\ \A j \in Invoices : Completed(j) \cap external \subseteq Completed(j)' \cap external'
    <2> USE <1>2 DEF BookOutside
    <2>0. /\ billPay[p] = "none" /\ p \notin external /\ p \notin writeback /\ p \notin pendingVoid
          /\ \A w \in Workers : leg[w] # p
      <3>1. \A w \in Workers : leg[w] # p
        BY DEF IInv, WorkOnRows, Closed
      <3> QED
        BY <3>1 DEF IInv, TypeOK, RowsWellFormed, WorkOnRows, VoidsWellFormed, Closed
    <2>1. /\ status'[p] = "completed" /\ invoiceOf'[p] = i /\ settled'[p] = Total
          /\ \A q \in Payments \ {p} : /\ status'[q] = status[q] /\ invoiceOf'[q] = invoiceOf[q]
                                       /\ settled'[q] = settled[q]
      BY DEF IInv, TypeOK
    <2>2. /\ invoiceStatus' \in [Invoices -> InvoiceStatus]
          /\ status' \in [Payments -> PaymentStatus]
          /\ invoiceOf' \in [Payments -> Invoices \cup {None}]
          /\ settled' \in [Payments -> 0 .. Total]
          /\ named' \subseteq external' /\ external' \subseteq Payments
      BY DEF IInv, TypeOK, InvoiceStatus, PaymentStatus
    <2>3. RowsWellFormed'
      BY <2>0, <2>1 DEF IInv, TypeOK, RowsWellFormed, Closed
    <2>4. WorkOnRows'
      <3>1. RowsStay
        BY <2>1 DEF RowsStay, Closed
      <3> QED BY <3>1, WorkersRest, WorkStands
    <2>5. VoidsWellFormed' /\ VoidIsRemembered'
      BY <2>0, <2>1 DEF IInv, VoidsWellFormed, VoidIsRemembered
    <2>6. \A j \in Invoices : Completed(j) \cup (IF j = i THEN {p} ELSE {}) \subseteq Completed(j)'
      BY <2>1 DEF Completed, RowsOf
    <2>7. PaidRestsOnPayment'
      <3> SUFFICES ASSUME NEW j \in Invoices, invoiceStatus'[j] = "paid", j \notin mistaken
                   PROVE  Completed(j)' # {}
        BY DEF PaidRestsOnPayment
      <3>1. CASE j = i
        BY <3>1, <2>6
      <3>2. CASE j # i
        <4>1. invoiceStatus[j] = "paid"
          BY <3>2 DEF IInv, TypeOK
        <4>2. Completed(j) # {}
          BY <4>1 DEF IInv, PaidRestsOnPayment
        <4> QED BY <4>2, <2>6
      <3> QED BY <3>1, <3>2
    <2> QED BY <2>2, <2>3, <2>4, <2>5, <2>6, <2>7
  <1> QED BY <1>1, <1>2 DEF BookedOrNot

\* Recording the payment of a report either books it, or leaves an exception.
LEMMA RecordReportedFlags ==
  ASSUME IInv, NEW i \in Invoices, NEW F, Good(F), RecordReported(i, F)
  PROVE  /\ BookedOrNot(i)
         /\ \E G : /\ Good(G) /\ flags' = [flags EXCEPT ![i] = G]
                   /\ G # {} \/ Completed(i)' \cap external' # {}
  <1>1. ASSUME NEW p \in Payments, BookOutside(i, p), named' = named \cup {p},
               flags' = [flags EXCEPT ![i] = CloseReports(F)]
        PROVE  /\ BookedOrNot(i)
               /\ \E G : /\ Good(G) /\ flags' = [flags EXCEPT ![i] = G]
                         /\ G # {} \/ Completed(i)' \cap external' # {}
    <2>1. p \in Completed(i)' \cap external'
      BY <1>1 DEF BookOutside, IInv, TypeOK, Completed, RowsOf
    <2>2. Good(CloseReports(F))
      BY CloseReportsGood
    <2> QED BY <1>1, <2>1, <2>2 DEF BookedOrNot
  <1>2. ASSUME NEW blocking \in BOOLEAN, UNCHANGED <<invoiceStatus, rows>>,
               flags' = [flags EXCEPT ![i] = KeepReport(F, blocking)]
        PROVE  /\ BookedOrNot(i)
               /\ \E G : /\ Good(G) /\ flags' = [flags EXCEPT ![i] = G]
                         /\ G # {} \/ Completed(i)' \cap external' # {}
    <2>1. Good(KeepReport(F, blocking)) /\ KeepReport(F, blocking) # {}
      BY KeepReportGood
    <2> QED BY <1>2, <2>1 DEF BookedOrNot
  <1> QED BY <1>1, <1>2 DEF RecordReported

\* What another report raises: nothing for a payment only if one made outside is
\* recorded already.
LEMMA FlagsForGood ==
  ASSUME IInv, NEW i \in Invoices, NEW b \in BillReport, NEW F, Good(F)
  PROVE  /\ Good(FlagsFor(i, b, F)) /\ FlagsFor(i, b, F) \cap Reports = F \cap Reports
         /\ PaidOutside(b) => \/ FlagsFor(i, b, F) # {} \/ i \in mistaken
                              \/ Completed(i) \cap external # {}
  <1> DEFINE G == FlagsFor(i, b, F)
  <1>1. G \in {F, OpenBlock(F), OpenNote(F)}
    BY DEF FlagsFor
  <1>2. Good(G) /\ G \cap Reports = F \cap Reports
    BY <1>1, OpenBlockGood, OpenNoteGood
  <1>3. ASSUME PaidOutside(b)
        PROVE  G # {} \/ i \in mistaken \/ Completed(i) \cap external # {}
    <2>1. CASE invoiceStatus[i] \in Payable
      <3>1. G = OpenBlock(F)
        BY <1>3, <2>1 DEF FlagsFor, Payable, PaidOutside
      <3> QED BY <3>1, OpenBlockGood
    <2>2. CASE invoiceStatus[i] = "paid"
      <3>1. G = IF Completed(i) \ external # {} THEN OpenNote(F) ELSE F
        BY <1>3, <2>2 DEF FlagsFor, Payable, PaidOutside
      <3>2. i \in mistaken \/ Completed(i) # {}
        BY <2>2 DEF IInv, PaidRestsOnPayment
      <3> QED BY <3>1, <3>2, OpenNoteGood
    <2> QED BY <2>1, <2>2 DEF IInv, TypeOK, InvoiceStatus, Payable
  <1> QED BY <1>2, <1>3

\* What a step that may record a payment for i has to show of the exceptions: those
\* of i are good, answer for what the ERP last said, and report only if it said paid.
LEMMA RecordStepInv ==
  ASSUME IInv, NEW i \in Invoices, BookedOrNot(i),
         NEW G, Good(G), flags' = [flags EXCEPT ![i] = G],
         NEW said \in {"unpaid", "paid", "paid_outside"}, applied' = [applied EXCEPT ![i] = said],
         said = "paid_outside" => G # {} \/ i \in told' \cup mistaken
                                  \/ Completed(i)' \cap external' # {},
         G \cap Reports # {} => said # "unpaid",
         told' \subseteq Invoices, told \ {i} \subseteq told',
         report' \in [Readers -> [invoice : Invoices, bill : BillReport] \cup {None}],
         UNCHANGED <<workers, voids, erp, mistaken, late>>
  PROVE  IInv'
  <1>1. /\ invoiceStatus' \in [Invoices -> InvoiceStatus]
        /\ status' \in [Payments -> PaymentStatus]
        /\ invoiceOf' \in [Payments -> Invoices \cup {None}]
        /\ settled' \in [Payments -> 0 .. Total]
        /\ named' \subseteq external' /\ external' \subseteq Payments
        /\ RowsWellFormed' /\ WorkOnRows' /\ VoidsWellFormed' /\ VoidIsRemembered'
        /\ PaidRestsOnPayment'
        /\ \A j \in Invoices : Completed(j) \cap external \subseteq Completed(j)' \cap external'
    BY BookedRows
  <1>2. /\ flags'[i] = G /\ \A j \in Invoices \ {i} : flags'[j] = flags[j]
        /\ applied'[i] = said /\ \A j \in Invoices \ {i} : applied'[j] = applied[j]
    BY DEF IInv, TypeOK
  <1>3. TypeOK'
    <2>1. /\ flags' \in [Invoices -> SUBSET Flag]
          /\ applied' \in [Invoices -> {"unpaid", "paid", "paid_outside"}]
      BY DEF IInv, TypeOK, Good
    <2> QED BY <1>1, <2>1 DEF IInv, TypeOK
  <1>4. OneErpReport' /\ ReportsStand'
    BY <1>2 DEF IInv, Good, OneErpReport, ReportsStand
  <1>5. OutsidePaymentIsTold'
    <2> SUFFICES ASSUME NEW j \in Invoices, applied'[j] = "paid_outside"
                 PROVE  Completed(j)' \cap external' # {} \/ flags'[j] # {}
                        \/ j \in told' \cup mistaken
      BY DEF OutsidePaymentIsTold
    <2>1. CASE j = i
      BY <2>1, <1>2
    <2>2. CASE j # i
      <3>1. Completed(j) \cap external # {} \/ flags[j] # {} \/ j \in told \cup mistaken
        BY <1>2, <2>2 DEF IInv, OutsidePaymentIsTold
      <3> QED BY <3>1, <2>2, <1>1, <1>2
    <2> QED BY <2>1, <2>2
  <1> QED BY <1>1, <1>3, <1>4, <1>5 DEF IInv

\* A report is applied to the invoice as it is now.
LEMMA ApplyReportInv ==
  ASSUME IInv, NEW r \in Readers, ApplyReport(r)
  PROVE  IInv'
  <1>1. PICK i \in Invoices, b \in BillReport : i = report[r].invoice /\ b = report[r].bill
    BY DEF ApplyReport, IInv, TypeOK
  <1> DEFINE F == IF b.state = "paid" THEN flags[i] ELSE Withdraw(flags[i])
  <1>2. Good(F) /\ (b.state # "paid" => F \cap Reports = {})
    BY FlagsAreGood, WithdrawGood
  <1>3. Said(b) \in {"unpaid", "paid", "paid_outside"}
    BY DEF Said
  <1>4. /\ applied' = [applied EXCEPT ![i] = Said(b)]
        /\ told' = IF PaidOutside(b) THEN told ELSE told \ {i}
        /\ report' = [report EXCEPT ![r] = None]
        /\ UNCHANGED <<workers, voids, erp, mistaken, late>>
    BY <1>1 DEF ApplyReport
  <1>5. /\ told' \subseteq Invoices /\ told \ {i} \subseteq told'
        /\ report' \in [Readers -> [invoice : Invoices, bill : BillReport] \cup {None}]
    BY <1>4 DEF IInv, TypeOK
  <1>6. CASE IsRecordable(i, b) /\ RecordReported(i, F)
    <2>1. PICK G : /\ Good(G) /\ flags' = [flags EXCEPT ![i] = G]
                   /\ G # {} \/ Completed(i)' \cap external' # {}
      BY <1>2, <1>6, RecordReportedFlags
    <2>2. BookedOrNot(i)
      BY <1>1, <1>2, <1>6, RecordReportedFlags
    <2>3. Said(b) = "paid_outside"
      BY <1>6 DEF IsRecordable, Said
    <2> QED BY <1>1, <1>3, <1>4, <1>5, <2>1, <2>2, <2>3, RecordStepInv
  <1>7. CASE flags' = [flags EXCEPT ![i] = FlagsFor(i, b, F)] /\ UNCHANGED <<invoiceStatus, rows>>
    <2> DEFINE G == FlagsFor(i, b, F)
    <2>1. /\ Good(G) /\ G \cap Reports = F \cap Reports
          /\ PaidOutside(b) => G # {} \/ i \in mistaken \/ Completed(i) \cap external # {}
      BY <1>1, <1>2, FlagsForGood
    <2>2. BookedOrNot(i)
      BY <1>7 DEF BookedOrNot
    <2>3. Completed(i)' \cap external' = Completed(i) \cap external
      BY <1>7 DEF Completed, RowsOf
    <2>4. Said(b) = "paid_outside" => PaidOutside(b)
      BY DEF Said
    <2>5. G \cap Reports # {} => Said(b) # "unpaid"
      BY <1>2, <2>1 DEF Said
    <2>6. Said(b) = "paid_outside" => G # {} \/ i \in told' \cup mistaken
                                      \/ Completed(i)' \cap external' # {}
      BY <2>1, <2>3, <2>4
    <2>7. flags' = [flags EXCEPT ![i] = G]
      BY <1>7
    <2> HIDE DEF G, F
    <2> QED BY <1>3, <1>4, <1>5, <2>1, <2>2, <2>5, <2>6, <2>7, RecordStepInv
  <1> QED BY <1>1, <1>6, <1>7 DEF ApplyReport

\* A person closes an exception; a report kept behind it may be recorded.
LEMMA ResolveInv ==
  ASSUME IInv, NEW i \in Invoices, NEW k \in Flag, Resolve(i, k)
  PROVE  IInv'
  <1> DEFINE F == flags[i] \ {k}
  <1>1. Good(F)
    BY FlagsAreGood, ClosedGood
  <1>2. /\ told' = IF applied[i] = "paid_outside" THEN told \cup {i} ELSE told
        /\ UNCHANGED <<workers, voids, report, erp, applied, mistaken, late>>
    BY DEF Resolve
  <1>3. /\ told' \subseteq Invoices /\ told \ {i} \subseteq told'
        /\ report' \in [Readers -> [invoice : Invoices, bill : BillReport] \cup {None}]
        /\ applied[i] \in {"unpaid", "paid", "paid_outside"}
        /\ applied' = [applied EXCEPT ![i] = applied[i]]
        /\ applied[i] = "paid_outside" => i \in told'
    BY <1>2 DEF IInv, TypeOK
  <1>4. flags[i] \cap Reports # {} => applied[i] # "unpaid"
    BY DEF IInv, ReportsStand
  <1>5. CASE RecordReported(i, F) /\ "noteReport" \in F
    <2>1. PICK G : Good(G) /\ flags' = [flags EXCEPT ![i] = G]
      BY <1>1, <1>5, RecordReportedFlags
    <2>2. BookedOrNot(i)
      BY <1>1, <1>5, RecordReportedFlags
    <2>3. applied[i] # "unpaid"
      BY <1>4, <1>5 DEF Reports
    <2> QED BY <1>2, <1>3, <2>1, <2>2, <2>3, RecordStepInv
  <1>6. CASE flags' = [flags EXCEPT ![i] = F] /\ UNCHANGED <<invoiceStatus, rows>>
    <2>1. BookedOrNot(i)
      BY <1>6 DEF BookedOrNot
    <2>2. F \cap Reports # {} => applied[i] # "unpaid"
      BY <1>4
    <2> HIDE DEF F
    <2> QED BY <1>1, <1>2, <1>3, <1>6, <2>1, <2>2, RecordStepInv
  <1> QED BY <1>5, <1>6 DEF Resolve

\* A person records the payment of a report by hand.
LEMMA RecordErpPaymentInv ==
  ASSUME IInv, NEW i \in Invoices, NEW k \in Reports, RecordErpPayment(i, k)
  PROVE  IInv'
  <1> DEFINE G == CloseReports(flags[i])
  <1> USE DEF RecordErpPayment
  <1>1. Good(G) /\ G \cap Reports = {}
    BY FlagsAreGood, CloseReportsGood
  <1>2. BookedOrNot(i) /\ flags' = [flags EXCEPT ![i] = G]
    BY DEF BookedOrNot
  <1>3. /\ told' \subseteq Invoices /\ told \ {i} \subseteq told'
        /\ report' \in [Readers -> [invoice : Invoices, bill : BillReport] \cup {None}]
        /\ applied[i] \in {"unpaid", "paid", "paid_outside"}
        /\ applied' = [applied EXCEPT ![i] = applied[i]]
    BY DEF IInv, TypeOK
  <1>4. Completed(i)' \cap external' # {}
    BY DEF BookOutside, IInv, TypeOK, Completed, RowsOf
  <1> HIDE DEF G
  <1> QED BY <1>1, <1>2, <1>3, <1>4, RecordStepInv

-----------------------------------------------------------------------------
(* The theorems *)

\* IInv is inductive.
LEMMA NextInv ==
  ASSUME IInv, [Next]_vars
  PROVE  IInv'
  <1>1. CASE Paying
    BY <1>1, BookInv, RefuseInv, StopInv, DispatchStepInv, SettleInv, FailInv, AcceptInv, VoidInv
       DEF Paying
  <1>2. ASSUME NEW w \in Workers, Syncing(w)
        PROVE  IInv'
    BY <1>2, StartLegInv, StartWritebackInv, LegFailsInv, MarkPaidInv, FindPaidInv, HoldLegInv,
       RecheckInv, PostRefusedInv, PostFindsOursInv, PostCreatesInv DEF Syncing
  <1>3. ASSUME NEW p \in Payments, VoidingInErp(p)
        PROVE  IInv'
    BY <1>3, VoidAnsweredInv, VoidUnansweredInv, RecordVoidInv DEF VoidingInErp
  <1>4. CASE InTheErp
    BY <1>4, ErpActsInv
  <1>5. ASSUME NEW r \in Readers, Reporting(r)
        PROVE  IInv'
    BY <1>5, ReadBillInv, ApplyReportInv DEF Reporting
  <1>6. ASSUME NEW i \in Invoices, Deciding(i)
        PROVE  IInv'
    BY <1>6, ResolveInv, RecordErpPaymentInv DEF Deciding
  <1>7. CASE Restart
    BY <1>7, RestartInv
  <1>8. CASE UNCHANGED vars
    <2> USE <1>8 DEF vars
    <2>1. TypeOK' /\ CompletedStay
      BY DEF IInv, TypeOK, CompletedStay
    <2> QED BY <2>1, RowsStand, VoidsStand, SameFlags, ErpStepInv
  <1> QED BY <1>1, <1>2, <1>3, <1>4, <1>5, <1>6, <1>7, <1>8 DEF Next

\* Every reachable state satisfies the invariant.
THEOREM Invariance == Spec => []IInv
  <1>1. Init => IInv
    BY InitInv
  <1>2. IInv /\ [Next]_vars => IInv'
    BY NextInv
  <1> QED BY <1>1, <1>2, PTL DEF Spec

\* Every variable keeps its type (no code path writes a status or a settlement the
\* model does not know).
THEOREM TypeCorrect == Spec => []TypeOK
  <1>1. IInv => TypeOK
    BY DEF IInv
  <1> QED BY <1>1, Invariance, PTL

\* An invoice reads paid only on a completed payment, one leg's stale read apart
\* (_sync_one_leg, accept_settlement, record_invoice_paid_outside, void_payment).
THEOREM PaidRests == Spec => []PaidRestsOnPayment
  <1>1. IInv => PaidRestsOnPayment
    BY DEF IInv
  <1> QED BY <1>1, Invariance, PTL

\* A bill the ERP reported closed from outside is never passed over
\* (apply_bill_report, retry_erp_reported_payments, flag_void_of_erp_reported_payment).
THEOREM OutsideTold == Spec => []OutsidePaymentIsTold
  <1>1. IInv => OutsidePaymentIsTold
    BY DEF IInv
  <1> QED BY <1>1, Invariance, PTL

\* One report, one blocker (_keep_erp_paid_report, open_erp_reconciliation_exception).
THEOREM OneReport == Spec => []OneErpReport
  <1>1. IInv => OneErpReport
    BY DEF IInv
  <1> QED BY <1>1, Invariance, PTL

\* A voided payment that stands in the ERP still has its void to be sent, unless it
\* was written late (record_pending_erp_void, void_written_payment).
THEOREM VoidRemembered == Spec => []VoidIsRemembered
  <1>1. IInv => VoidIsRemembered
    BY DEF IInv
  <1> QED BY <1>1, Invariance, PTL

\* What a booking of the ERP's payment rests on, for a step of either kind.
LEMMA BookedOnItsWord ==
  ASSUME IInv, NEW i \in Invoices, NEW p \in Payments, BookOutside(i, p),
         applied'[i] # "unpaid",
         NEW q \in external' \ external
  PROVE  applied'[invoiceOf'[q]] # "unpaid"
  BY DEF BookOutside, IInv, TypeOK

\* No step books a payment on the word of a report the ERP has withdrawn.
LEMMA StepStands ==
  ASSUME IInv, [Next]_vars
  PROVE  \A q \in external' \ external : applied'[invoiceOf'[q]] # "unpaid"
  <1>1. CASE UNCHANGED external
    BY <1>1
  <1>2. ASSUME NEW r \in Readers, ApplyReport(r)
        PROVE  \A q \in external' \ external : applied'[invoiceOf'[q]] # "unpaid"
    <2>1. PICK i \in Invoices, b \in BillReport : i = report[r].invoice /\ b = report[r].bill
      BY <1>2 DEF ApplyReport, IInv, TypeOK
    <2>2. applied'[i] = Said(b)
      BY <1>2, <2>1 DEF ApplyReport, IInv, TypeOK
    <2>3. UNCHANGED external \/ (IsRecordable(i, b) /\ \E p \in Payments : BookOutside(i, p))
      BY <1>2, <2>1 DEF ApplyReport, RecordReported
    <2>4. IsRecordable(i, b) => Said(b) # "unpaid"
      BY DEF IsRecordable, Said
    <2> QED BY <2>2, <2>3, <2>4, BookedOnItsWord
  <1>3. ASSUME NEW i \in Invoices, NEW k \in Flag, Resolve(i, k)
        PROVE  \A q \in external' \ external : applied'[invoiceOf'[q]] # "unpaid"
    <2>1. UNCHANGED external
          \/ ("noteReport" \in flags[i] /\ \E p \in Payments : BookOutside(i, p))
      BY <1>3 DEF Resolve, RecordReported
    <2>2. "noteReport" \in flags[i] => applied'[i] # "unpaid"
      BY <1>3 DEF Resolve, IInv, ReportsStand, Reports
    <2> QED BY <2>1, <2>2, BookedOnItsWord
  <1>4. ASSUME NEW i \in Invoices, NEW k \in Reports, RecordErpPayment(i, k)
        PROVE  \A q \in external' \ external : applied'[invoiceOf'[q]] # "unpaid"
    <2>1. applied'[i] # "unpaid"
      BY <1>4 DEF RecordErpPayment, IInv, ReportsStand
    <2> QED BY <1>4, <2>1, BookedOnItsWord DEF RecordErpPayment
  <1>5. Paying \/ InTheErp \/ Restart \/ UNCHANGED vars => UNCHANGED external
    BY DEF Paying, Book, RefuseDispatch, StopDispatch, Dispatch, Settle, Fail, AcceptSettlement,
           Void, InTheErp, ErpPays, ErpUndoes, ErpDeletes, ErpVoidsOurs, Restart, vars
  <1>6. ASSUME NEW w \in Workers, Syncing(w)
        PROVE  UNCHANGED external
    BY <1>6 DEF Syncing, StartLeg, StartWriteback, LegFails, MarkPaid, FindPaid, HoldLeg,
                Recheck, PostRefused, PostFindsOurs, PostCreates
  <1>7. ASSUME NEW p \in Payments, VoidingInErp(p)
        PROVE  UNCHANGED external
    BY <1>7 DEF VoidingInErp, VoidAnswered, VoidUnanswered, RecordVoid
  <1>8. ASSUME NEW r \in Readers, NEW i \in Invoices, ReadBill(r, i)
        PROVE  UNCHANGED external
    BY <1>8 DEF ReadBill
  <1> QED BY <1>1, <1>2, <1>3, <1>4, <1>5, <1>6, <1>7, <1>8 DEF Next, Reporting, Deciding

\* A payment is recorded on the ERP's word only while that word stands
\* (withdraw_erp_paid_reports, retry_erp_reported_payments, record_erp_payment).
THEOREM RecordsStand == Spec => ErpRecordsStand
  <1>1. IInv /\ [Next]_vars
           => [\A p \in Payments :
                  p \notin external /\ p \in external' => applied'[invoiceOf'[p]] # "unpaid"]_vars
    BY StepStands
  <1> QED BY <1>1, Invariance, PTL DEF Spec, ErpRecordsStand
-----------------------------------------------------------------------------
(* One payment of ours on a bill *)

\* A step that brings no row to life, none to the rail and none onto a bill.
NothingNew ==
    \A p \in Payments :
        /\ Live(p)' => Live(p)
        /\ Rival(p)' => Rival(p)
        /\ OnBill(p)' => OnBill(p)
        /\ status[p] # "unused" => invoiceOf'[p] = invoiceOf[p]

\* It keeps BillInv.
LEMMA NothingNewKeeps ==
  ASSUME IInv, BillInv, NothingNew
  PROVE  BillInv'
  <1>1. \A p \in Payments : Live(p) \/ Rival(p) \/ OnBill(p) => status[p] # "unused"
    BY DEF IInv, RowsWellFormed, Live, Rival, OnBill, Closed
  <1>2. OneLiveRow'
    BY <1>1 DEF BillInv, OneLiveRow, NothingNew
  <1>3. OneOnBill'
    BY <1>1 DEF BillInv, OneOnBill, NothingNew
  <1> QED BY <1>2, <1>3 DEF BillInv

\* A row that comes to life for an invoice with none, not at the rail and not ours to
\* write, meets no other.
LEMMA FreshRowKeeps ==
  ASSUME IInv, BillInv, NEW i \in Invoices, NEW p \in Payments,
         status[p] = "unused", SlotFree(i), invoiceOf' = [invoiceOf EXCEPT ![p] = i],
         \A q \in Payments \ {p} : status'[q] = status[q],
         external \subseteq external', status'[p] = "pending" \/ p \in external',
         UNCHANGED <<billPay, late>>
  PROVE  BillInv'
  <1>1. /\ invoiceOf'[p] = i
        /\ \A q \in Payments \ {p} : invoiceOf'[q] = invoiceOf[q]
    BY DEF IInv, TypeOK
  <1>2. \A q \in Payments \ {p} : Live(q)' => Live(q) /\ invoiceOf[q] # i
    BY <1>1 DEF Live, SlotFree, RowsOf
  <1>3. OneLiveRow'
    BY <1>1, <1>2 DEF BillInv, OneLiveRow, Live
  <1>4. ~OnBill(p)' /\ ~Rival(p)'
    BY DEF IInv, RowsWellFormed, OnBill, Rival, Closed
  <1>5. \A q \in Payments \ {p} : (Rival(q)' => Rival(q)) /\ (OnBill(q)' => OnBill(q))
    BY DEF Rival, OnBill
  <1>6. OneOnBill'
    BY <1>1, <1>4, <1>5 DEF BillInv, OneOnBill
  <1> QED BY <1>3, <1>6 DEF BillInv

\* A payment goes to the rail when nothing of ours stands on its bill.
LEMMA DispatchKeepsBill ==
  ASSUME IInv, BillInv, NEW p \in Payments, Dispatch(p)
  PROVE  BillInv'
  <1> USE DEF Dispatch
  <1>1. \A q \in Payments : OnBill(q) => invoiceOf[q] # invoiceOf[p]
    <2>1. Untouched(invoiceOf[p])
      BY DEF Bill
    <2>2. \A q \in Payments : billPay[q] = "live" => status[q] # "unused"
      BY DEF IInv, RowsWellFormed, Closed
    <2> QED BY <2>1, <2>2 DEF Untouched, Ours, RowsOf, OnBill
  <1>2. /\ \A q \in Payments : (Live(q)' <=> Live(q)) /\ (OnBill(q)' <=> OnBill(q))
        /\ \A q \in Payments \ {p} : Rival(q)' => Rival(q)
    BY DEF IInv, TypeOK, Live, Rival, OnBill, Terminal
  <1>3. OneLiveRow'
    BY <1>2 DEF BillInv, OneLiveRow
  <1>4. OneOnBill'
    BY <1>1, <1>2 DEF BillInv, OneOnBill
  <1> QED BY <1>3, <1>4 DEF BillInv

\* A payment written while it stands completed is the live row of its invoice: any
\* other at the rail would be a second, and any other on the bill met it there.
LEMMA PostKeepsBill ==
  ASSUME IInv, BillInv, NEW w \in Workers, PostCreates(w)
  PROVE  BillInv'
  <1> USE DEF PostCreates
  <1>1. PICK p \in Payments : p = leg[w] /\ status[p] \in Closed /\ p \notin external
    BY LegOfBusy
  <1>2. \A q \in Payments : (Live(q)' <=> Live(q)) /\ (Rival(q)' <=> Rival(q))
    BY DEF Live, Rival
  <1>3. OneLiveRow'
    BY <1>2 DEF BillInv, OneLiveRow
  <1>4. \A q \in Payments \ {p} : OnBill(q)' => OnBill(q)
    BY <1>1 DEF IInv, TypeOK, OnBill
  <1>5. CASE status[p] = "completed"
    <2>1. Rival(p)
      BY <1>1, <1>5 DEF Rival
    <2>2. \A q \in Payments : Rival(q) /\ invoiceOf[q] = invoiceOf[p] => q = p
      BY <1>1, <1>5 DEF BillInv, OneLiveRow, Live, Rival, Terminal
    <2> QED BY <1>1, <1>2, <1>3, <1>4, <2>1, <2>2 DEF BillInv, OneOnBill
  <1>6. CASE status[p] # "completed"
    <2>1. ~OnBill(p)'
      BY <1>1, <1>6 DEF OnBill
    <2> QED BY <1>2, <1>3, <1>4, <2>1 DEF BillInv, OneOnBill
  <1> QED BY <1>5, <1>6

\* A payment of the ERP's is booked into a free slot, or none is.
LEMMA RecordKeepsBill ==
  ASSUME IInv, BillInv, NEW i \in Invoices, UNCHANGED <<billPay, late>>,
         \/ SlotFree(i) /\ \E p \in Payments : BookOutside(i, p)
         \/ UNCHANGED rows
  PROVE  BillInv'
  <1>1. CASE UNCHANGED rows
    BY <1>1, NothingNewKeeps DEF NothingNew, Live, Rival, OnBill
  <1>2. ASSUME NEW p \in Payments, SlotFree(i), BookOutside(i, p)
        PROVE  BillInv'
    <2>1. \A q \in Payments \ {p} : status'[q] = status[q]
      BY <1>2 DEF BookOutside, IInv, TypeOK
    <2> QED BY <1>2, <2>1, FreshRowKeeps DEF BookOutside
  <1> QED BY <1>1, <1>2

\* The steps of Paying, booking and dispatch apart.
LEMMA PayingKeepsBill ==
  ASSUME IInv, BillInv, Paying
  PROVE  BillInv'
  <1>1. ASSUME NEW i \in Invoices, NEW p \in Payments, Book(i, p)
        PROVE  BillInv'
    <2>1. \A q \in Payments \ {p} : status'[q] = status[q]
      BY <1>1 DEF Book, IInv, TypeOK
    <2>2. status'[p] = "pending"
      BY <1>1 DEF Book, IInv, TypeOK
    <2> QED BY <1>1, <2>1, <2>2, FreshRowKeeps DEF Book
  <1>2. ASSUME NEW p \in Payments, Dispatch(p)
        PROVE  BillInv'
    BY <1>2, DispatchKeepsBill
  <1>3. ASSUME NEW p \in Payments,
               RefuseDispatch(p) \/ StopDispatch(p) \/ (\E n \in 1 .. Total : Settle(p, n))
               \/ Fail(p) \/ AcceptSettlement(p) \/ Void(p)
        PROVE  BillInv'
    <2>1. UNCHANGED <<invoiceOf, external, billPay, late>>
      BY <1>3 DEF RefuseDispatch, StopDispatch, Settle, Fail, AcceptSettlement, Void
    <2>2. \/ UNCHANGED status
          \/ status[p] = "in_flight" /\ status' = [status EXCEPT ![p] = "completed"]
          \/ status' = [status EXCEPT ![p] = "failed"]
          \/ status' = [status EXCEPT ![p] = "voided"]
      BY <1>3 DEF RefuseDispatch, StopDispatch, Settle, Fail, AcceptSettlement, Void
    <2>3. \A q \in Payments : (Live(q)' => Live(q)) /\ (Rival(q)' => Rival(q))
      BY <2>1, <2>2 DEF IInv, TypeOK, Live, Rival, Terminal
    <2> QED BY <2>1, <2>3, NothingNewKeeps DEF NothingNew, OnBill
  <1> QED BY <1>1, <1>2, <1>3 DEF Paying

\* Every step keeps one live row, and one payment of ours on a bill.
LEMMA BillStep ==
  ASSUME IInv, BillInv, [Next]_vars
  PROVE  BillInv'
  <1>1. CASE Paying
    BY <1>1, PayingKeepsBill
  <1>2. ASSUME NEW w \in Workers, Syncing(w)
        PROVE  BillInv'
    <2>1. CASE PostCreates(w)
      BY <2>1, PostKeepsBill
    <2>2. CASE ~PostCreates(w)
      <3>1. UNCHANGED <<rows, billPay, late>>
        BY <1>2, <2>2 DEF Syncing, StartLeg, StartWriteback, LegFails, MarkPaid, FindPaid,
                          HoldLeg, Recheck, PostRefused, PostFindsOurs
      <3> QED BY <3>1, NothingNewKeeps DEF NothingNew, Live, Rival, OnBill
    <2> QED BY <2>1, <2>2
  <1>3. ASSUME UNCHANGED <<rows, late>>, \A p \in Payments : billPay'[p] = "live" => billPay[p] = "live"
        PROVE  BillInv'
    BY <1>3, NothingNewKeeps DEF NothingNew, Live, Rival, OnBill
  <1>4. ASSUME NEW p \in Payments, VoidingInErp(p)
        PROVE  BillInv'
    <2>1. \A q \in Payments : billPay'[q] = "live" => billPay[q] = "live"
      BY <1>4 DEF VoidingInErp, VoidAnswered, VoidUnanswered, RecordVoid, IInv, TypeOK
    <2> QED BY <1>3, <1>4, <2>1 DEF VoidingInErp, VoidAnswered, VoidUnanswered, RecordVoid
  <1>5. CASE InTheErp
    <2>1. \A q \in Payments : billPay'[q] = "live" => billPay[q] = "live"
      BY <1>5 DEF InTheErp, ErpPays, ErpUndoes, ErpDeletes, ErpVoidsOurs, IInv, TypeOK
    <2> QED BY <1>3, <1>5, <2>1 DEF InTheErp, ErpPays, ErpUndoes, ErpDeletes, ErpVoidsOurs
  <1>6. ASSUME NEW r \in Readers, Reporting(r)
        PROVE  BillInv'
    <2>1. CASE \E i \in Invoices : ReadBill(r, i)
      BY <1>3, <2>1 DEF ReadBill
    <2>2. CASE ApplyReport(r)
      <3>1. PICK i \in Invoices : i = report[r].invoice
        BY <2>2 DEF ApplyReport, IInv, TypeOK
      <3>2. (SlotFree(i) /\ \E p \in Payments : BookOutside(i, p)) \/ UNCHANGED rows
        BY <2>2, <3>1 DEF ApplyReport, RecordReported
      <3> QED BY <2>2, <3>2, RecordKeepsBill DEF ApplyReport
    <2> QED BY <1>6, <2>1, <2>2 DEF Reporting
  <1>7. ASSUME NEW i \in Invoices, Deciding(i)
        PROVE  BillInv'
    <2>1. (SlotFree(i) /\ \E p \in Payments : BookOutside(i, p)) \/ UNCHANGED rows
      BY <1>7 DEF Deciding, Resolve, RecordErpPayment, RecordReported
    <2> QED BY <1>7, <2>1, RecordKeepsBill DEF Deciding, Resolve, RecordErpPayment
  <1>8. CASE Restart \/ UNCHANGED vars
    BY <1>3, <1>8 DEF Restart, vars
  <1> QED BY <1>1, <1>2, <1>4, <1>5, <1>6, <1>7, <1>8 DEF Next

\* A bill never carries two payments of ours, however often the invoice is voided and
\* paid again, one written late apart (erp_bill_dispatch_refusal, post_payment,
\* uq_payments_one_live_per_invoice).
THEOREM PaidOnce == Spec => []BillPaidOnce
  <1>1. Init => BillInv
    BY DEF Init, BillInv, OneLiveRow, OneOnBill, Live, Rival, OnBill
  <1>2. IInv /\ BillInv /\ [Next]_vars => BillInv'
    BY BillStep
  <1>3. BillInv => BillPaidOnce
    BY DEF BillInv, OneOnBill, OnBill, BillPaidOnce
  <1> QED BY <1>1, <1>2, <1>3, Invariance, PTL DEF Spec
=============================================================================
