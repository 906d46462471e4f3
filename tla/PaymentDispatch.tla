--------------------------- MODULE PaymentDispatch ---------------------------
(***************************************************************************)
(* Payment runs of FeohLedger: booking a payment, dispatching it to an     *)
(* external processor, recording what came back, and every way a person or *)
(* a background job moves the row afterwards.                              *)
(*                                                                         *)
(* One action is one database transaction of a handler (or the part of it  *)
(* between two commits, or between a commit and a call to the processor).  *)
(* What a transaction reads under a row lock it still reads at its commit, *)
(* so lock, check, write and commit are one step; a handler that commits,  *)
(* unlocks or calls out halfway is several steps, and pc[d] says where     *)
(* dispatcher d stands between them.                                       *)
(*                                                                         *)
(* Abstractions of data: `submitted' stands for submitted and processing,  *)
(* `failed' for failed and cancelled (no handler tells them apart);        *)
(* invoice status `approved' stands for approved and posted_in_erp.        *)
(*                                                                         *)
(* A definition marked (mutant) is a plausible bug, put in the place of    *)
(* the definition after it to show that a property would notice; nothing   *)
(* else uses it.                                                           *)
(***************************************************************************)
EXTENDS FiniteSets

CONSTANTS
    Invoices,       \* invoices of one tenant
    Payments,       \* identities for payment rows
    Runs,           \* identities for payment runs
    Dispatchers,    \* requests that may dispatch at the same time
    Viewers,        \* requests that may list the runs at the same time
    None            \* NULL

ASSUME NoneIsNoValue ==
    None \notin Invoices \cup Payments \cup Runs \cup Dispatchers

VARIABLES
    invoiceStatus,  \* [Invoices -> InvoiceStatus]
    flagged,        \* invoices with an unresolved payment_reconciliation exception
    status,         \* [Payments -> PaymentStatus], "unused" when there is no such row
    invoiceOf,      \* Payment.invoice_id
    runOf,          \* Payment.payment_run_id, None for a standalone payment
    reason,         \* why a failed row failed: what Payment.failure_reason says of it
    stamp,          \* Payment.dispatch_attempted_at: the attempt that wrote it, or None
    retried,        \* rows some later row names in retry_of_payment_id
    runStatus,      \* PaymentRun.status as persisted
    vetted,         \* invoices a run builder has locked and checked, not booked yet
    pc, passOf, todo, cur, remarked, seen, runSeen,  \* the dispatchers, see below
    listing, listed, derived,  \* the viewers: a run, its status as read, as derived
    order,          \* the processor's order under the row's idempotency key
    reconciled      \* rows a person has looked up at the rail and signed off

rows  == <<status, invoiceOf, runOf, reason, stamp, retried>>
books == <<invoiceStatus, flagged>>
procs == <<pc, passOf, todo, cur, remarked, seen, runSeen>>
lists == <<listing, listed, derived>>
world == <<order, reconciled>>
vars  == <<rows, books, runStatus, vetted, procs, lists, world>>

-----------------------------------------------------------------------------
(* Values *)

InvoiceStatus == {"approved", "payment_scheduled", "paid"}
Payable       == {"approved", "payment_scheduled"}

Terminal      == {"voided", "failed"}
PaymentStatus ==
    {"unused", "pending", "pending_compliance", "submitted", "completed"} \cup Terminal

\* refused: a reason on the retry-safe lists, written before the processor
\* could be called.  adapter: the adapter's own failure reply.  in_doubt: every
\* other reason (an exception, a database error, aged out, the rail's report).
Reason        == {"none", "refused", "adapter", "in_doubt"}

\* What a pass can make of a run; the other statuses are claims on it.
RunOutcome    == {"submitted", "partial", "failed", "completed"}
RunStatus     == {"unused", "draft", "executing", "cancelled"} \cup RunOutcome

\* outside: money the customer moved without FeohLedger.
OrderStatus   == {"none", "open", "settled", "failed", "outside"}
LiveOrder     == {"open", "settled", "outside"}

\* pc[d]:  idle - no request;          retrying - retry-failed holds the run lock;
\* claimed - run claimed, committed;   looping  - between two payments;
\* marked  - stamp committed;          attempt  - row locked, processor not called;
\* called  - processor called;         lost     - connection gone, locks with it.
PC == {"idle", "retrying", "claimed", "looping", "marked", "attempt", "called", "lost"}

TypeOK ==
    /\ invoiceStatus \in [Invoices -> InvoiceStatus]
    /\ flagged \subseteq Invoices
    /\ status \in [Payments -> PaymentStatus]
    /\ invoiceOf \in [Payments -> Invoices \cup {None}]
    /\ runOf \in [Payments -> Runs \cup {None}]
    /\ reason \in [Payments -> Reason]
    /\ stamp \in [Payments -> Dispatchers \cup {None}]
    /\ retried \subseteq Payments
    /\ runStatus \in [Runs -> RunStatus]
    /\ vetted \subseteq Invoices
    /\ pc \in [Dispatchers -> PC]
    /\ passOf \in [Dispatchers -> Runs \cup {None}]
    /\ todo \in [Dispatchers -> SUBSET Payments]
    /\ cur \in [Dispatchers -> Payments \cup {None}]
    /\ remarked \in [Dispatchers -> BOOLEAN]
    /\ seen \in [Dispatchers -> [Payments -> PaymentStatus]]
    /\ runSeen \in [Dispatchers -> RunStatus]
    /\ listing \in [Viewers -> Runs \cup {None}]
    /\ listed \in [Viewers -> RunStatus]
    /\ derived \in [Viewers -> RunStatus]
    /\ order \in [Payments -> OrderStatus]
    /\ reconciled \subseteq Payments

-----------------------------------------------------------------------------
(* Rows, slots and locks *)

Exists(p)   == status[p] # "unused"
Live(p)     == status[p] \notin Terminal \cup {"unused"}
RowsOf(i)   == {p \in Payments : Exists(p) /\ invoiceOf[p] = i}
RowsIn(r)   == {p \in Payments : Exists(p) /\ runOf[p] = r}

\* (mutant) the slot counts only rows a dispatch has not parked.
SlotFreeBesideHolds(i) ==
    \A p \in RowsOf(i) : ~Live(p) \/ status[p] = "pending_compliance"

\* uq_payments_one_live_per_invoice leaves room for a live row.
SlotFree(i) == \A p \in RowsOf(i) : ~Live(p)

\* Row locks are held from the re-lock after the stamp to the commit; the
\* invoice lock is held by a dispatch across the processor call and by the
\* run builder from its checks to its inserts.
RowHeld(p)     == \E d \in Dispatchers : cur[d] = p /\ pc[d] \in {"attempt", "called"}
InvoiceHeld(i) == \/ i \in vetted
                  \/ \E d \in Dispatchers : pc[d] = "called" /\ invoiceOf[cur[d]] = i
RunHeld(r)     == \E d \in Dispatchers : pc[d] = "retrying" /\ passOf[d] = r

-----------------------------------------------------------------------------
(* A run's outcome, from the statuses of its active payments *)

InFlight == {"submitted", "pending_compliance"}

\* active_run_payments: a retried row is history.
Active(r) == RowsIn(r) \ retried

\* (mutant) rows nobody has sent yet make the run a draft.
RollupPendingDraft(R, view) ==
    LET says(S) == \E p \in R : view[p] \in S
    IN  IF says(Terminal)
        THEN IF says({"completed"} \cup InFlight) THEN "partial" ELSE "failed"
        ELSE IF says(InFlight) THEN "submitted"
        ELSE IF says({"pending"}) THEN "draft"
        ELSE "completed"

\* PaymentRunRollup.run_status over a view of the rows.
RollupStatus(R, view) ==
    LET says(S) == \E p \in R : view[p] \in S
    IN  IF says(Terminal)
        THEN IF says({"completed"} \cup InFlight) THEN "partial" ELSE "failed"
        ELSE IF says(InFlight) THEN "submitted"
        ELSE IF R = {} THEN "draft"
        ELSE IF says({"pending"}) THEN "executing"
        ELSE "completed"

\* run_retry_failed_refusal: what the payments say, whatever outcome is stored.
FinishedWithFailures(r) ==
    /\ runStatus[r] \in RunOutcome
    /\ RollupStatus(Active(r), status) \in {"partial", "failed"}

\* (mutant) the reason alone, without the dispatch marker.
RetrySafeByReason(p) == status[p] = "failed" /\ reason[p] = "refused"

\* is_retry_safe: the reason proves no order exists, and no stamp outranks it.
RetrySafe(p) == status[p] = "failed" /\ reason[p] = "refused" /\ stamp[p] = None

\* recompute_run_status after a status outside the dispatch pass changed:
\* claim states pass through, an outcome is derived again.
Recomputed(p, view) ==
    LET r == runOf[p]
    IN  IF r # None /\ runStatus[r] \in RunOutcome
        THEN [runStatus EXCEPT ![r] = RollupStatus(Active(r), view)]
        ELSE runStatus

-----------------------------------------------------------------------------
Init ==
    /\ invoiceStatus = [i \in Invoices |-> "approved"]
    /\ flagged = {}
    /\ status = [p \in Payments |-> "unused"]
    /\ invoiceOf = [p \in Payments |-> None]
    /\ runOf = [p \in Payments |-> None]
    /\ reason = [p \in Payments |-> "none"]
    /\ stamp = [p \in Payments |-> None]
    /\ retried = {}
    /\ runStatus = [r \in Runs |-> "unused"]
    /\ vetted = {}
    /\ pc = [d \in Dispatchers |-> "idle"]
    /\ passOf = [d \in Dispatchers |-> None]
    /\ todo = [d \in Dispatchers |-> {}]
    /\ cur = [d \in Dispatchers |-> None]
    /\ remarked = [d \in Dispatchers |-> FALSE]
    /\ seen = [d \in Dispatchers |-> [p \in Payments |-> "unused"]]
    /\ runSeen = [d \in Dispatchers |-> "unused"]
    /\ listing = [v \in Viewers |-> None]
    /\ listed = [v \in Viewers |-> "unused"]
    /\ derived = [v \in Viewers |-> "unused"]
    /\ order = [p \in Payments |-> "none"]
    /\ reconciled = {}

-----------------------------------------------------------------------------
(* Booking *)

Unused == {p \in Payments : ~Exists(p)}

\* INSERT of one pending row per member of Q, invoice who[p], run r.
Insert(Q, who, r) ==
    /\ Q \subseteq Unused
    /\ \A p, q \in Q : who[p] = who[q] => p = q
    /\ \A p \in Q : SlotFree(who[p])
    /\ status' = [p \in Payments |-> IF p \in Q THEN "pending" ELSE status[p]]
    /\ invoiceOf' = [p \in Payments |-> IF p \in Q THEN who[p] ELSE invoiceOf[p]]
    /\ runOf' = [p \in Payments |-> IF p \in Q THEN r ELSE runOf[p]]
    /\ UNCHANGED <<reason, stamp>>

\* create_payment_run_for_invoices up to the read of the blocking exceptions:
\* the invoices are locked FOR NO KEY UPDATE, payable and not blocked.
VetInvoices(S) ==
    /\ vetted = {} /\ S # {}
    /\ \A i \in S : ~InvoiceHeld(i) /\ invoiceStatus[i] \in Payable /\ i \notin flagged
    /\ vetted' = S
    /\ UNCHANGED <<rows, books, runStatus, procs, lists, world>>

\* ... then the live payments are read, and the run and its rows inserted.
BookRun(r) ==
    /\ vetted # {} /\ runStatus[r] = "unused"
    /\ \E Q \in SUBSET Unused : \E who \in [Q -> vetted] :
          /\ \A i \in vetted : \E p \in Q : who[p] = i
          /\ Insert(Q, who, r)
    /\ runStatus' = [runStatus EXCEPT ![r] = "draft"]
    /\ vetted' = {}
    /\ UNCHANGED <<retried, books, procs, lists, world>>

\* ... or one invoice refuses the whole run.
AbandonRun ==
    /\ vetted # {}
    /\ vetted' = {}
    /\ UNCHANGED <<rows, books, runStatus, procs, lists, world>>

\* create_payment: a payment with no run, which nothing will ever dispatch.
CreatePayment(i, p) ==
    /\ ~InvoiceHeld(i) /\ invoiceStatus[i] \in Payable /\ i \notin flagged
    /\ Insert({p}, [q \in {p} |-> i], None)
    /\ UNCHANGED <<retried, books, runStatus, vetted, lists, procs, world>>

\* (mutant) the rows of a cancelled run are kept, cancelled.
CancelKeepsRows(r) ==
    /\ runStatus[r] = "draft"
    /\ runStatus' = [runStatus EXCEPT ![r] = "cancelled"]
    /\ status' = [p \in Payments |-> IF p \in RowsIn(r) THEN "cancelled" ELSE status[p]]
    /\ UNCHANGED <<invoiceOf, runOf, reason, stamp, retried, books, vetted, lists, procs, world>>

\* cancel_payment_run: deletes the rows of a draft run.
CancelRun(r) ==
    /\ runStatus[r] = "draft"
    /\ runStatus' = [runStatus EXCEPT ![r] = "cancelled"]
    /\ status' = [p \in Payments |-> IF p \in RowsIn(r) THEN "unused" ELSE status[p]]
    /\ invoiceOf' = [p \in Payments |-> IF p \in RowsIn(r) THEN None ELSE invoiceOf[p]]
    /\ runOf' = [p \in Payments |-> IF p \in RowsIn(r) THEN None ELSE runOf[p]]
    /\ UNCHANGED <<reason, stamp, retried, books, vetted, lists, procs, world>>

-----------------------------------------------------------------------------
(* Starting a dispatch pass *)

\* The request ends.
ToIdle(d) ==
    /\ pc' = [pc EXCEPT ![d] = "idle"]
    /\ passOf' = [passOf EXCEPT ![d] = None]
    /\ todo' = [todo EXCEPT ![d] = {}]
    /\ cur' = [cur EXCEPT ![d] = None]
    /\ remarked' = [remarked EXCEPT ![d] = FALSE]
    /\ seen' = [seen EXCEPT ![d] = [p \in Payments |-> "unused"]]
    /\ runSeen' = [runSeen EXCEPT ![d] = "unused"]

Claim(d, r) ==
    /\ pc' = [pc EXCEPT ![d] = "claimed"]
    /\ passOf' = [passOf EXCEPT ![d] = r]
    /\ runSeen' = [runSeen EXCEPT ![d] = "executing"]
    /\ UNCHANGED <<todo, cur, remarked, seen>>

\* (mutant) the loop starts before the claim is committed.
ExecuteUnclaimed(d, r) ==
    /\ pc[d] = "idle" /\ runStatus[r] = "draft"
    /\ Claim(d, r)
    /\ UNCHANGED <<rows, books, runStatus, vetted, lists, world>>

\* execute_payment_run: draft to executing under the run lock, committed.
Execute(d, r) ==
    /\ pc[d] = "idle" /\ runStatus[r] = "draft"
    /\ runStatus' = [runStatus EXCEPT ![r] = "executing"]
    /\ Claim(d, r)
    /\ UNCHANGED <<rows, books, vetted, lists, world>>

\* resume_payment_run: an operator thinks the pass of an executing run died.
Resume(d, r) ==
    /\ pc[d] = "idle" /\ runStatus[r] = "executing"
    /\ Claim(d, r)
    /\ UNCHANGED <<rows, books, runStatus, vetted, lists, world>>

\* retry_failed_payments up to the read of the blocking exceptions: the run is
\* locked, its rows loaded, and todo[d] the failures that may be sent again.
VetRetry(d, r) ==
    /\ pc[d] = "idle" /\ ~RunHeld(r) /\ FinishedWithFailures(r)
    /\ \E p \in Active(r) : RetrySafe(p)
    /\ pc' = [pc EXCEPT ![d] = "retrying"]
    /\ passOf' = [passOf EXCEPT ![d] = r]
    /\ todo' = [todo EXCEPT ![d] =
                  {p \in Active(r) : /\ RetrySafe(p)
                                     /\ invoiceStatus[invoiceOf[p]] \in Payable
                                     /\ invoiceOf[p] \notin flagged}]
    /\ seen' = [seen EXCEPT ![d] =
                  [p \in Payments |-> IF p \in RowsIn(r) THEN status[p] ELSE "unused"]]
    /\ UNCHANGED <<rows, books, runStatus, vetted, lists, cur, remarked, runSeen, world>>

\* ... then one new row per failure whose invoice has its slot free and that no
\* other gate skips (vendor, card, credit, amount), and the run is claimed.
BookRetry(d) ==
    LET r == passOf[d]
    IN  /\ pc[d] = "retrying"
        /\ \E ok \in SUBSET {p \in todo[d] : SlotFree(invoiceOf[p])} :
              /\ \E Q \in SUBSET Unused : \E again \in [Q -> ok] :
                    /\ \A p \in ok : \E q \in Q : again[q] = p
                    /\ Insert(Q, [q \in Q |-> invoiceOf[again[q]]], r)
                    /\ seen' = [seen EXCEPT ![d] =
                                  [p \in Payments |-> IF p \in Q THEN "pending" ELSE @[p]]]
              /\ retried' = retried \cup ok
        /\ runStatus' = [runStatus EXCEPT ![r] = "executing"]
        /\ pc' = [pc EXCEPT ![d] = "claimed"]
        /\ runSeen' = [runSeen EXCEPT ![d] = "executing"]
        /\ todo' = [todo EXCEPT ![d] = {}]
        /\ UNCHANGED <<books, vetted, lists, passOf, cur, remarked, world>>

\* ... or the tenant's processor cannot be resolved, and nothing is booked.
RefuseRetry(d) ==
    /\ pc[d] = "retrying"
    /\ ToIdle(d)
    /\ UNCHANGED <<rows, books, runStatus, vetted, lists, world>>

\* (mutant) rows that carry a stamp are left to the attempt that wrote it.
ReadUnstamped(d) ==
    LET found == {p \in RowsIn(passOf[d]) : status[p] = "pending" /\ stamp[p] = None}
    IN  /\ pc[d] = "claimed"
        /\ pc' = [pc EXCEPT ![d] = "looping"]
        /\ todo' = [todo EXCEPT ![d] = found]
        /\ seen' = [seen EXCEPT ![d] =
                      [p \in Payments |-> IF p \in found THEN "pending" ELSE @[p]]]
        /\ UNCHANGED <<rows, books, runStatus, vetted, lists, passOf, cur, remarked>>
        /\ UNCHANGED <<runSeen, world>>

\* The unlocked read of the pending rows in _dispatch_run_payments.
ReadPending(d) ==
    LET found == {p \in RowsIn(passOf[d]) : status[p] = "pending"}
    IN  /\ pc[d] = "claimed"
        /\ pc' = [pc EXCEPT ![d] = "looping"]
        /\ todo' = [todo EXCEPT ![d] = found]
        /\ seen' = [seen EXCEPT ![d] =
                      [p \in Payments |-> IF p \in found THEN "pending" ELSE @[p]]]
        /\ UNCHANGED <<rows, books, runStatus, vetted, lists, passOf, cur, remarked>>
        /\ UNCHANGED <<runSeen, world>>

-----------------------------------------------------------------------------
(* One dispatch attempt.  passOf[d] = None is a compliance release. *)

Expected(d) == IF passOf[d] = None THEN "pending_compliance" ELSE "pending"

\* _mark_dispatch_attempt up to its commit, which drops the row lock again.
Mark(d, p) ==
    /\ ~RowHeld(p)
    /\ stamp' = [stamp EXCEPT ![p] = d]
    /\ remarked' = [remarked EXCEPT ![d] = stamp[p] # None]
    /\ cur' = [cur EXCEPT ![d] = p]
    /\ pc' = [pc EXCEPT ![d] = "marked"]
    /\ UNCHANGED <<status, invoiceOf, runOf, reason, retried, seen, runSeen>>
    /\ UNCHANGED <<books, runStatus, vetted, lists, world>>

MarkNext(d, p) ==
    /\ pc[d] = "looping" /\ p \in todo[d] /\ status[p] = "pending"
    /\ Mark(d, p)
    /\ UNCHANGED <<passOf, todo>>

Release(d, p) ==
    /\ pc[d] = "idle" /\ status[p] = "pending_compliance"
    /\ Mark(d, p)
    /\ UNCHANGED <<passOf, todo>>

\* End of the turn of payment p, which d last saw as s: the loop goes on, having
\* read its run again if the connection was lost; a release answers.
Leave(d, p, s) ==
    LET next == IF passOf[d] = None THEN "idle" ELSE "looping"
    IN  /\ pc' = [pc EXCEPT ![d] = next]
        /\ todo' = [todo EXCEPT ![d] = @ \ {p}]
        /\ cur' = [cur EXCEPT ![d] = None]
        /\ remarked' = [remarked EXCEPT ![d] = FALSE]
        /\ seen' = IF passOf[d] = None THEN seen
                   ELSE [seen EXCEPT ![d] = [@ EXCEPT ![p] = s]]
        /\ runSeen' = IF pc[d] = "lost" /\ passOf[d] # None
                      THEN [runSeen EXCEPT ![d] = runStatus[passOf[d]]] ELSE runSeen
        /\ UNCHANGED passOf

\* The refreshed row is no longer pending: skipped before any stamp.
SkipMoved(d, p) ==
    /\ pc[d] = "looping" /\ p \in todo[d] /\ status[p] # "pending" /\ ~RowHeld(p)
    /\ Leave(d, p, status[p])
    /\ UNCHANGED <<rows, books, runStatus, vetted, lists, world>>

\* (mutant) the stamp is compared, the status is not read again.
RelockByStamp(d) ==
    /\ pc[d] = "marked" /\ ~RowHeld(cur[d]) /\ stamp[cur[d]] = d
    /\ pc' = [pc EXCEPT ![d] = "attempt"]
    /\ UNCHANGED <<passOf, todo, cur, remarked, seen, runSeen>>
    /\ UNCHANGED <<rows, books, runStatus, vetted, lists, world>>

\* The re-lock after the stamp: still this attempt's row ...
Relock(d) ==
    /\ pc[d] = "marked" /\ ~RowHeld(cur[d])
    /\ status[cur[d]] = Expected(d) /\ stamp[cur[d]] = d
    /\ pc' = [pc EXCEPT ![d] = "attempt"]
    /\ UNCHANGED <<passOf, todo, cur, remarked, seen, runSeen>>
    /\ UNCHANGED <<rows, books, runStatus, vetted, lists, world>>

\* (mutant) only a moved status ends the turn, not another's stamp.
SkipMovedOnly(d) ==
    /\ pc[d] = "marked" /\ ~RowHeld(cur[d]) /\ status[cur[d]] # Expected(d)
    /\ Leave(d, cur[d], status[cur[d]])
    /\ UNCHANGED <<rows, books, runStatus, vetted, lists, world>>

\* ... or claimed by another dispatcher in the gap.
SkipClaimed(d) ==
    /\ pc[d] = "marked" /\ ~RowHeld(cur[d])
    /\ status[cur[d]] # Expected(d) \/ stamp[cur[d]] # d
    /\ Leave(d, cur[d], status[cur[d]])
    /\ UNCHANGED <<rows, books, runStatus, vetted, lists, world>>

\* (mutant) every recorded outcome clears the stamp.
StampAlwaysCleared(d) == None

\* The stamp goes with the outcome, unless an earlier attempt had left one ...
StampAfter(d) == IF remarked[d] THEN stamp[cur[d]] ELSE None

\* (mutant) a resumed attempt's failure is not flagged.
FlagsOwnDoubtOnly(d, s, doubt) == doubt

\* ... and then a failure is flagged too.
Flags(d, s, doubt) == doubt \/ (remarked[d] /\ s = "failed")

\* The commit that records an outcome.  A release also derives the run's status
\* again.
Outcome(d, s, why, doubt) ==
    LET p == cur[d]
    IN  /\ status' = [status EXCEPT ![p] = s]
        /\ reason' = [reason EXCEPT ![p] = why]
        /\ stamp' = [stamp EXCEPT ![p] = StampAfter(d)]
        /\ flagged' = IF Flags(d, s, doubt) THEN flagged \cup {invoiceOf[p]} ELSE flagged
        /\ IF passOf[d] = None
           THEN /\ runOf[p] # None => ~RunHeld(runOf[p])
                /\ runStatus' = Recomputed(p, status')
           ELSE runStatus' = runStatus
        /\ Leave(d, p, s)
        /\ UNCHANGED <<invoiceOf, runOf, retried, vetted, lists, reconciled>>

\* (mutant) the blocking exceptions are not read again at dispatch.
ClearIfPayable(d) == invoiceStatus[invoiceOf[cur[d]]] \in Payable

Free(d)  == ~InvoiceHeld(invoiceOf[cur[d]])
Clear(d) == invoiceStatus[invoiceOf[cur[d]]] \in Payable /\ invoiceOf[cur[d]] \notin flagged

\* InvoiceLockedError: a run leg fails retry-safe, a release stays held and
\* only the stamp is settled.
InvoiceLocked(d) ==
    /\ pc[d] = "attempt"
    /\ IF passOf[d] = None
       THEN /\ stamp' = [stamp EXCEPT ![cur[d]] = StampAfter(d)]
            /\ Leave(d, cur[d], "pending_compliance")
            /\ UNCHANGED <<status, invoiceOf, runOf, reason, retried>>
            /\ UNCHANGED <<flagged, runStatus, vetted, lists, reconciled>>
       ELSE Outcome(d, "failed", "refused", FALSE)
    /\ UNCHANGED <<invoiceStatus, order>>

\* dispatch_preflight, the live ERP bill read, the card gates, a compliance
\* refusal and an adapter's own pre-flight, all before an order can exist.  The
\* modelled ones must refuse, the others may: CallProcessor needs Clear(d).
Refuse(d) ==
    /\ pc[d] = "attempt" /\ Free(d)
    /\ Outcome(d, "failed", "refused", FALSE)
    /\ UNCHANGED <<invoiceStatus, order>>

\* The compliance verdict is hold.
Hold(d) ==
    /\ pc[d] = "attempt" /\ Free(d) /\ Clear(d)
    /\ Outcome(d, "pending_compliance", "none", FALSE)
    /\ UNCHANGED <<invoiceStatus, order>>

\* An exception before the call: an adapter's is recorded as it is, a database
\* error rolls back to the savepoint and is always flagged.
FailBeforeCall(d) ==
    /\ pc[d] = "attempt" /\ Free(d)
    /\ \/ Outcome(d, "failed", "in_doubt", FALSE)
       \/ Outcome(d, "failed", "in_doubt", TRUE)
    /\ UNCHANGED <<invoiceStatus, order>>

\* adapter.create_payment: the processor opens an order under the row's
\* idempotency key (and may settle it at once), or refuses it, or never hears
\* of it; a second call under the same key finds the first one's order.
CallProcessor(d) ==
    LET p == cur[d]
    IN  /\ pc[d] = "attempt" /\ Free(d) /\ Clear(d)
        /\ pc' = [pc EXCEPT ![d] = "called"]
        /\ \E o \in IF order[p] = "none" THEN {"none", "open", "settled"} ELSE {order[p]} :
              order' = [order EXCEPT ![p] = o]
        /\ UNCHANGED <<passOf, todo, cur, remarked, seen, runSeen>>
        /\ UNCHANGED <<rows, books, runStatus, vetted, lists, reconciled>>

\* (mutant) the invoice is scheduled only when the payment completed.
AcceptedUnscheduled(d) ==
    /\ pc[d] = "called" /\ order[cur[d]] # "none"
    /\ Outcome(d, "submitted", "none", FALSE)
    /\ UNCHANGED <<invoiceStatus, order>>

\* The order is accepted, or settled at once: the invoice is scheduled.
RecordAccepted(d) ==
    /\ pc[d] = "called"
    /\ \/ order[cur[d]] # "none" /\ Outcome(d, "submitted", "none", FALSE)
       \/ order[cur[d]] = "settled" /\ Outcome(d, "completed", "none", FALSE)
    /\ invoiceStatus' = [invoiceStatus EXCEPT ![invoiceOf[cur[d]]] = "payment_scheduled"]
    /\ UNCHANGED order

\* The adapter returns a failure: the processor's refusal, or the adapter's
\* own *_transport_error / *_api_error, after which the order may well exist.
RecordRefused(d) ==
    /\ pc[d] = "called"
    /\ Outcome(d, "failed", "adapter", FALSE)
    /\ UNCHANGED <<invoiceStatus, order>>

\* (mutant) an outcome in doubt is recorded like any failure.
FailUnflagged(d) ==
    /\ pc[d] = "called"
    /\ Outcome(d, "failed", "in_doubt", FALSE)
    /\ UNCHANGED <<invoiceStatus, order>>

\* An exception or a database error after the call: always flagged.  An
\* exception keeps the attempt's writes, so the invoice may be scheduled.
FailAfterCall(d) ==
    /\ pc[d] = "called"
    /\ Outcome(d, "failed", "in_doubt", TRUE)
    /\ \E s \in {invoiceStatus[invoiceOf[cur[d]]], "payment_scheduled"} :
          invoiceStatus' = [invoiceStatus EXCEPT ![invoiceOf[cur[d]]] = s]
    /\ UNCHANGED order

\* The connection is gone: everything since the stamp rolls back, locks drop, and
\* what the session had loaded expires.
LoseConnection(d) ==
    /\ pc[d] \in {"attempt", "called"}
    /\ pc' = [pc EXCEPT ![d] = "lost"]
    /\ seen' = [seen EXCEPT ![d] = [p \in Payments |-> "unused"]]
    /\ UNCHANGED <<passOf, todo, cur, remarked, runSeen>>
    /\ UNCHANGED <<rows, books, runStatus, vetted, lists, world>>

\* _record_aborted_dispatch over a fresh lock, if the row has not moved on.
RecordAborted(d) ==
    /\ pc[d] = "lost" /\ ~RowHeld(cur[d])
    /\ IF status[cur[d]] = Expected(d)
       THEN Outcome(d, "failed", "in_doubt", TRUE)
       ELSE /\ Leave(d, cur[d], status[cur[d]])
            /\ UNCHANGED <<rows, flagged, runStatus, vetted, lists, reconciled>>
    /\ UNCHANGED <<invoiceStatus, order>>

\* What the pass's session says of a row: what it loaded or wrote, even when
\* the row has moved since (expire_on_commit=False).
View(d) == [p \in Payments |-> IF seen[d][p] = "unused" THEN status[p] ELSE seen[d][p]]

\* The final rollup, over every row of the run.  One that says what the session
\* holds in run.status already writes no status.
Finish(d) ==
    LET r == passOf[d]
        s == RollupStatus(Active(r), View(d))
    IN  /\ pc[d] = "looping" /\ todo[d] = {} /\ ~RunHeld(r)
        /\ runStatus' = IF s = runSeen[d] THEN runStatus ELSE [runStatus EXCEPT ![r] = s]
        /\ ToIdle(d)
        /\ UNCHANGED <<rows, books, vetted, lists, world>>

\* (mutant) a dying pass closes its run.
CrashClosesRun(d) ==
    /\ pc[d] # "idle"
    /\ runStatus' = [r \in Runs |-> IF r = passOf[d] THEN "failed" ELSE runStatus[r]]
    /\ ToIdle(d)
    /\ UNCHANGED <<rows, books, vetted, lists, world>>

\* The worker dies: nothing uncommitted survives.
Crash(d) ==
    /\ pc[d] # "idle"
    /\ ToIdle(d)
    /\ UNCHANGED <<rows, books, runStatus, vetted, lists, world>>

-----------------------------------------------------------------------------
(* What people do to a row afterwards *)

\* (mutant) a dismissed hold is believed never to have been sent.
DismissUnflagged(p) ==
    /\ status[p] = "pending_compliance" /\ ~RowHeld(p)
    /\ status' = [status EXCEPT ![p] = "failed"]
    /\ reason' = [reason EXCEPT ![p] = "refused"]
    /\ runStatus' = Recomputed(p, status')
    /\ UNCHANGED <<invoiceOf, runOf, stamp, retried, books, vetted, lists, procs, world>>

\* dismiss_compliance_hold: a row that still carries a stamp is flagged.
Dismiss(p) ==
    /\ status[p] = "pending_compliance" /\ ~RowHeld(p)
    /\ runOf[p] # None => ~RunHeld(runOf[p])
    /\ status' = [status EXCEPT ![p] = "failed"]
    /\ reason' = [reason EXCEPT ![p] = "refused"]
    /\ flagged' = IF stamp[p] = None THEN flagged ELSE flagged \cup {invoiceOf[p]}
    /\ runStatus' = Recomputed(p, status')
    /\ UNCHANGED <<invoiceOf, runOf, stamp, retried, invoiceStatus, vetted, lists, procs, world>>

\* void_payment: money on the rail, or a standalone row never sent.  Asking the
\* processor to reverse the order is best effort, so the order is left as it is.
Void(p) ==
    LET i == invoiceOf[p]
    IN  /\ status[p] \in {"submitted", "completed"} \/ (status[p] = "pending" /\ runOf[p] = None)
        /\ ~InvoiceHeld(i)
        /\ runOf[p] # None => ~RunHeld(runOf[p])
        /\ status' = [status EXCEPT ![p] = "voided"]
        /\ invoiceStatus' = [invoiceStatus EXCEPT ![i] = "approved"]
        /\ runStatus' = Recomputed(p, status')
        /\ UNCHANGED <<invoiceOf, runOf, reason, stamp, retried, flagged>>
        /\ UNCHANGED <<vetted, lists, procs, world>>

\* _complete: the rows of Q are booked as paid outside FeohLedger.
CompleteOutside(Q, S) ==
    /\ order' = [p \in Payments |-> IF p \in Q THEN "outside" ELSE order[p]]
    /\ invoiceStatus' = [i \in Invoices |-> IF i \in S THEN "paid" ELSE invoiceStatus[i]]
    /\ UNCHANGED <<reason, stamp, retried, flagged, vetted, lists, procs, reconciled>>

Recordable(i) == ~InvoiceHeld(i) /\ invoiceStatus[i] \in Payable /\ i \notin flagged

\* record_invoice_paid_outside: converts the standalone row nobody sent, or
\* books a completed one; refused when anything else is live.
RecordOutside(i, p) ==
    /\ Recordable(i)
    /\ \/ /\ p \in RowsOf(i) /\ status[p] = "pending" /\ runOf[p] = None
          /\ status' = [status EXCEPT ![p] = "completed"]
          /\ UNCHANGED <<invoiceOf, runOf>>
       \/ /\ p \in Unused /\ SlotFree(i)
          /\ status' = [status EXCEPT ![p] = "completed"]
          /\ invoiceOf' = [invoiceOf EXCEPT ![p] = i]
          /\ UNCHANGED runOf
    /\ CompleteOutside({p}, {i})
    /\ UNCHANGED runStatus

\* record_run_paid_outside: a whole draft run, or nothing of it.
RecordRunOutside(r) ==
    /\ runStatus[r] = "draft"
    /\ \A p \in RowsIn(r) : status[p] = "pending" /\ Recordable(invoiceOf[p])
    /\ status' = [p \in Payments |-> IF p \in RowsIn(r) THEN "completed" ELSE status[p]]
    /\ runStatus' = [runStatus EXCEPT ![r] = "completed"]
    /\ CompleteOutside(RowsIn(r), {invoiceOf[p] : p \in RowsIn(r)})
    /\ UNCHANGED <<invoiceOf, runOf>>

\* Someone confirms with the rail what became of the invoice's failed payments
\* and resolves the payment_reconciliation exception.
ResolveException(i) ==
    /\ i \in flagged
    /\ flagged' = flagged \ {i}
    /\ reconciled' = reconciled \cup {p \in RowsOf(i) : status[p] = "failed"}
    /\ UNCHANGED <<rows, invoiceStatus, runStatus, vetted, lists, procs, order>>

-----------------------------------------------------------------------------
(* Listing the runs, which writes what it derives *)

\* list_payment_runs reads a run.  A claim status passes through and writes
\* nothing, so only an outcome is followed up.
ListRun(v, r) ==
    /\ listing[v] = None /\ runStatus[r] \in RunOutcome
    /\ listing' = [listing EXCEPT ![v] = r]
    /\ listed' = [listed EXCEPT ![v] = runStatus[r]]
    /\ UNCHANGED <<rows, books, runStatus, vetted, procs, derived, world>>

\* ... then the statuses of its active payments, in a query of their own ...
DeriveStatus(v) ==
    LET r == listing[v]
    IN  /\ r # None /\ derived[v] = "unused"
        /\ derived' = [derived EXCEPT ![v] = RollupStatus(Active(r), status)]
        /\ UNCHANGED <<rows, books, runStatus, vetted, procs, listing, listed, world>>

\* ... assigns the derived status to the run it loaded, and the session's commit
\* before the response writes it if it differs from the status it had read.
PersistDerived(v) ==
    LET r == listing[v]
    IN  /\ r # None /\ derived[v] # "unused"
        /\ \/ derived[v] = listed[v] /\ UNCHANGED runStatus
           \/ /\ derived[v] # listed[v] /\ ~RunHeld(r)
              /\ runStatus' = [runStatus EXCEPT ![r] = derived[v]]
        /\ listing' = [listing EXCEPT ![v] = None]
        /\ listed' = [listed EXCEPT ![v] = "unused"]
        /\ derived' = [derived EXCEPT ![v] = "unused"]
        /\ UNCHANGED <<rows, books, vetted, procs, world>>

-----------------------------------------------------------------------------
(* The processor, and how its verdict comes back *)

\* Only while the row is in flight: no handler asks about an order whose row is
\* terminal, and an order left open is the worst case for every property.
ProcessorDecides(p) ==
    /\ order[p] = "open" /\ status[p] = "submitted"
    /\ \E o \in {"settled", "failed"} : order' = [order EXCEPT ![p] = o]
    /\ UNCHANGED <<rows, books, runStatus, vetted, lists, procs, reconciled>>

\* (mutant) any terminal event reads as a settlement.
VerdictOptimistic(p) == "completed"

Verdict(p) == IF order[p] = "settled" THEN "completed" ELSE "failed"

\* A terminal answer written onto a row that is still in flight.
Settle(p) ==
    /\ status' = [status EXCEPT ![p] = Verdict(p)]
    /\ reason' = [reason EXCEPT ![p] = IF Verdict(p) = "failed" THEN "in_doubt" ELSE @]
    /\ UNCHANGED <<invoiceOf, runOf, stamp, retried>>

\* payment_webhook.  The event's claim is kept even when no row carries its
\* provider_payment_id yet (it overtook the commit of the acceptance), and a
\* redelivery is a duplicate: such an event is lost, which here is a Webhook
\* that never happens.  One that finds a terminal row changes nothing.
Webhook(p) ==
    /\ status[p] = "submitted" /\ order[p] \in {"settled", "failed"}
    /\ Settle(p)
    /\ UNCHANGED <<books, runStatus, vetted, lists, procs, world>>

\* _reconcile_tenant, the poll of a row in flight.
Poll(p) ==
    /\ status[p] = "submitted" /\ order[p] \in {"settled", "failed"}
    /\ Settle(p)
    /\ UNCHANGED <<books, runStatus, vetted, lists, procs, world>>

\* (mutant) a row ages out without the flag.
AgeOutUnflagged(p) ==
    /\ status[p] = "submitted"
    /\ status' = [status EXCEPT ![p] = "failed"]
    /\ reason' = [reason EXCEPT ![p] = "in_doubt"]
    /\ UNCHANGED <<invoiceOf, runOf, stamp, retried, books>>
    /\ UNCHANGED <<runStatus, vetted, lists, procs, world>>

\* (mutant) only a row the processor has decided ages out.
AgeOutDecided(p) ==
    /\ status[p] = "submitted" /\ order[p] # "open"
    /\ status' = [status EXCEPT ![p] = "failed"]
    /\ reason' = [reason EXCEPT ![p] = "in_doubt"]
    /\ flagged' = flagged \cup {invoiceOf[p]}
    /\ UNCHANGED <<invoiceOf, runOf, stamp, retried, invoiceStatus>>
    /\ UNCHANGED <<runStatus, vetted, lists, procs, world>>

\* _reconcile_tenant, a row in flight past its maximal age.
AgeOut(p) ==
    /\ status[p] = "submitted"
    /\ status' = [status EXCEPT ![p] = "failed"]
    /\ reason' = [reason EXCEPT ![p] = "in_doubt"]
    /\ flagged' = flagged \cup {invoiceOf[p]}
    /\ UNCHANGED <<invoiceOf, runOf, stamp, retried, invoiceStatus>>
    /\ UNCHANGED <<runStatus, vetted, lists, procs, world>>

-----------------------------------------------------------------------------
Booking ==
    \/ \E S \in SUBSET Invoices : VetInvoices(S)
    \/ AbandonRun
    \/ \E r \in Runs : BookRun(r) \/ CancelRun(r) \/ RecordRunOutside(r)
    \/ \E i \in Invoices, p \in Payments : CreatePayment(i, p) \/ RecordOutside(i, p)

Begin(d) ==
    \/ \E r \in Runs : Execute(d, r) \/ Resume(d, r) \/ VetRetry(d, r)
    \/ \E p \in Payments : Release(d, p)

\* The steps a request takes by itself once it has begun.
Proceed(d) ==
    \/ BookRetry(d) \/ RefuseRetry(d) \/ ReadPending(d)
    \/ \E p \in Payments : MarkNext(d, p) \/ SkipMoved(d, p)
    \/ Relock(d) \/ SkipClaimed(d)
    \/ InvoiceLocked(d) \/ Refuse(d) \/ Hold(d) \/ FailBeforeCall(d)
    \/ CallProcessor(d)
    \/ RecordAccepted(d) \/ RecordRefused(d) \/ FailAfterCall(d)
    \/ RecordAborted(d)
    \/ Finish(d)

Break(d) == LoseConnection(d) \/ Crash(d)

Review ==
    \/ \E p \in Payments : Dismiss(p) \/ Void(p)
    \/ \E i \in Invoices : ResolveException(i)

Listing(v) == (\E r \in Runs : ListRun(v, r)) \/ DeriveStatus(v) \/ PersistDerived(v)

Reconcile(p) == Poll(p) \/ AgeOut(p)

Next ==
    \/ Booking
    \/ \E d \in Dispatchers : Begin(d) \/ Proceed(d) \/ Break(d)
    \/ Review
    \/ \E v \in Viewers : Listing(v)
    \/ \E p \in Payments : ProcessorDecides(p) \/ Webhook(p) \/ Reconcile(p)

Spec == Init /\ [][Next]_vars

-----------------------------------------------------------------------------
(* Properties *)

\* A person has dealt with the row: voided it, or looked it up at the rail.
Answered(p) == status[p] = "voided" \/ p \in reconciled

\* Money is, or may be, out under row p and nobody has answered for it.
MoneyOut(p) == order[p] \in LiveOrder /\ ~Answered(p)

\* A failure the adapter returned, which the code takes for the whole story.
TakenAsDeclined(p) == status[p] = "failed" /\ reason[p] = "adapter" /\ stamp[p] = None

Unanswered(p) == MoneyOut(p) /\ ~TakenAsDeclined(p)

SameInvoice(p, q) == p # q /\ invoiceOf[p] = invoiceOf[q]

\* The invoice of two different rows is never paid by both: whatever crashes,
\* resumes, retries, releases and fresh runs do, at most one row of an invoice
\* has money out that no person answered for.  An adapter's own failure reply
\* is believed here, as _execute_single_payment believes it.
NoUnansweredDoublePayment ==
    \A p, q \in Payments : SameInvoice(p, q) => ~(Unanswered(p) /\ Unanswered(q))

\* The same for the orders FeohLedger itself sent, without believing the
\* adapter: two rows of one invoice never both have an order at the processor
\* that may pay out.
NoDoublePayment ==
    \A p, q \in Payments :
        SameInvoice(p, q) => ~ \A x \in {p, q} : MoneyOut(x) /\ order[x] # "outside"

\* While money is out under a row, the row holds its invoice's live slot or the
\* invoice carries the flag that keeps it out of the next run.
InDoubtIsBlocked ==
    \A p \in Payments : Unanswered(p) => Live(p) \/ invoiceOf[p] \in flagged

\* An order still behind a live row belongs to an invoice without the flag.  The
\* flag is raised only if no exception is open (flag_payment_for_reconciliation
\* reads that without a lock), so the outcome of a row that was sent must never
\* find one of an earlier payment: resolved a moment later, that exception would
\* take the new doubt with it.
SentIsUnflagged ==
    \A p \in Payments : Live(p) /\ order[p] # "none" => invoiceOf[p] \notin flagged

\* What retry-failed sends again under a fresh key never reached the processor.
RetrySafeNeverSent == \A p \in Payments : RetrySafe(p) => order[p] = "none"

\* A payment reads completed only when its money really moved.
CompletedMeansMoved ==
    \A p \in Payments : status[p] = "completed" => order[p] \in {"settled", "outside"}

\* An invoice whose payment is in flight or completed has left `approved'.
InFlightLeavesQueue ==
    \A p \in Payments :
        status[p] \in {"submitted", "completed"} => invoiceStatus[invoiceOf[p]] # "approved"

\* Cancelling a draft run deletes its rows: nothing of it was ever sent, and no
\* pass is working on it.
DraftIsUnsent ==
    \A r \in Runs : runStatus[r] = "draft" =>
        /\ \A p \in RowsIn(r) : status[p] = "pending" /\ stamp[p] = None /\ order[p] = "none"
        /\ \A d \in Dispatchers : passOf[d] # r /\ (todo[d] \cup {cur[d]}) \cap RowsIn(r) = {}

\* A run leg that is still pending can be sent or cancelled: its run is a draft,
\* is executing (so it can be resumed), has payments that say so or may yet settle
\* into it (the next listing stores what they say), has a failure to retry or a
\* hold to dismiss into one (a retry sends the pending rows too), or a pass is at
\* work.
PendingIsReachable ==
    \A p \in Payments :
        status[p] = "pending" /\ runOf[p] # None =>
            LET r == runOf[p]
            IN  \/ runStatus[r] \in {"draft", "executing"}
                \/ RollupStatus(Active(r), status) \in {"executing", "submitted"}
                \/ \E q \in Active(r) : RetrySafe(q) \/ status[q] = "pending_compliance"
                \/ \E d \in Dispatchers : passOf[d] = r

\* A row that ended stays as it ended: no late dispatcher, webhook, poll or
\* reviewer overwrites a void, a failure or a settlement (a void may follow one).
EndedRowsStay ==
    [][\A p \in Payments :
          /\ status[p] \in Terminal => status'[p] = status[p]
          /\ status[p] = "completed" => status'[p] \in {"completed", "voided"}]_vars

\* Nothing but the end of a dispatch pass takes a run out of `executing': no
\* rollup un-claims a run while its payments are being sent
\* (CLAIM_RUN_STATUSES).
ClaimStays ==
    [][\A r \in Runs :
          runStatus[r] = "executing" /\ runStatus'[r] # "executing"
            => \E d \in Dispatchers : passOf[d] = r /\ passOf'[d] # r]_vars

\* The payments promise of MoneyOut, for what the code can know.
Once == INSTANCE MoneyOut WITH
    out  <- [i \in Invoices |-> {p \in Payments : invoiceOf[p] = i /\ Unanswered(p)}],
    over <- {p \in Payments : order[p] # "none" /\ ~Unanswered(p)}

MoneyOutOnce == Once!Spec

-----------------------------------------------------------------------------
(* Liveness *)

\* A request that is not killed runs on: its locks are queued first come first
\* served and its waits on invoices are bounded.  The reconciler sweeps on a
\* timer.  Nothing obliges a person, the processor or a webhook to act.
FairSpec ==
    /\ Spec
    /\ WF_vars(AbandonRun)
    /\ \A d \in Dispatchers : SF_vars(Proceed(d))
    /\ \A p \in Payments : WF_vars(Reconcile(p))

\* A payment in flight is resolved even if every webhook about it was lost.
InFlightResolves ==
    \A p \in Payments : status[p] = "submitted" ~> status[p] # "submitted"

\* Every request ends: two passes over one run never wait for each other.
RequestsEnd == \A d \in Dispatchers : pc[d] # "idle" ~> pc[d] = "idle"
=============================================================================
