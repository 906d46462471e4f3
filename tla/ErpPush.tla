------------------------------- MODULE ErpPush -------------------------------
(***************************************************************************)
(* Sending one approved invoice to the tenant's ERP.  A door (Send to ERP, *)
(* the auto-send on approval, Retry) commits `sending_to_erp' and hands    *)
(* the push to a dispatcher; a send task calls the ERP with bounded        *)
(* retries and commits where the invoice ends up, `failed' included.  The  *)
(* payment side, the ERP's own webhook and crashes go on meanwhile.        *)
(*                                                                         *)
(* Doors, the run builder and the webhook hold the invoice's row lock from *)
(* the status they read to the commit, so each is one action.  The send    *)
(* task holds none: it decides on the invoice and state_data it loaded     *)
(* when it began, and each of its commits is one action.                   *)
(*                                                                         *)
(* Of state_data the model keeps the retry counter, the outcome-unknown    *)
(* key and erp_reference; pending jobs, orphan documents and attempt dates *)
(* only inform the ERP's own lookup, which here always finds the bill.     *)
(* The export gate's vendor hold counts as a flag, a card as a payment.    *)
(*                                                                         *)
(* A definition marked (mutant) is a plausible bug, put in the place of    *)
(* the definition after it to show that a property would notice.           *)
(***************************************************************************)
EXTENDS Integers

CONSTANTS
    Tasks,       \* send tasks that may run at the same time
    MaxRetries,  \* attempts a push may make: MAX_RETRIES
    MaxPushes,   \* bound: pushes handed out or about to be, and not finished
    MaxFaults    \* bound: crashes, failed or repeated deliveries, raising hooks

ASSUME MaxRetriesIsPositive == MaxRetries \in Nat \ {0}

ASSUME BoundsAreNatural == MaxPushes \in Nat /\ MaxFaults \in Nat

VARIABLES
    org,        \* the tenant: queue - FEOH_ERP_MODE is lambda; reports - what the
                \* ERP tells us of a bill: nothing, by webhook, or by status sync
    status,     \* Invoice.status
    paying,     \* the invoice has a live payment
    flagged,    \* it has an open duplicate or fraud exception, or a vendor hold
    stateData,  \* WorkflowInstance.state_data: retries, unknown, reference
    committed,  \* doors that committed a push and have not dispatched it
    refused,    \* doors whose dispatch raised and that have not recorded it
    queue,      \* SQS messages not deleted, or local tasks not begun
    pc,         \* where each send task is
    seen,       \* the invoice status it holds in memory
    mine,       \* the state_data it holds in memory
    prior,      \* prior_unknown of its attempt
    bill,       \* the ERP holds a bill of the invoice
    late,       \* a request whose answer was given up on may still reach the ERP
    cancelled,  \* the ERP's webhook about a voided bill is under way
    faults,     \* how many faults there have been
    overlap     \* history: two sends of the invoice ran at once

invoice == <<status, paying, flagged>>
doors   == <<committed, refused>>
task    == <<pc, seen, mine, prior>>
erp     == <<bill, late, cancelled>>
vars    == <<org, invoice, stateData, doors, queue, task, erp, faults, overlap>>

-----------------------------------------------------------------------------
(* Values *)

Status  == {"approved", "sending_to_erp", "sent_to_erp", "posted_in_erp", "done",
            "failed", "payment_scheduled", "paid"}
Payable == {"approved", "posted_in_erp"}

StateData == [retries : 0 .. MaxRetries, unknown : BOOLEAN, reference : BOOLEAN]

NoAttempt == [retries |-> 0, unknown |-> FALSE, reference |-> FALSE]

\* pc[t]: idle;  attempt - before the gate, or backing off;  calling - in the
\* adapter;  acted - in the adapter, and the ERP has acted on its request.
PC == {"idle", "attempt", "calling", "acted"}

\* Every variable holds a value of its kind, and a push never counts more
\* attempts than it may make.
TypeOK ==
    /\ org \in [queue : BOOLEAN, reports : {"nothing", "webhook", "sync"}]
    /\ status \in Status
    /\ paying \in BOOLEAN /\ flagged \in BOOLEAN
    /\ stateData \in StateData
    /\ committed \in Nat /\ refused \in Nat /\ queue \in Nat
    /\ pc \in [Tasks -> PC]
    /\ seen \in [Tasks -> Status]
    /\ mine \in [Tasks -> StateData]
    /\ prior \in [Tasks -> BOOLEAN]
    /\ bill \in BOOLEAN /\ late \in BOOLEAN /\ cancelled \in BOOLEAN
    /\ faults \in 0 .. MaxFaults
    /\ overlap \in BOOLEAN

Busy(t) == pc[t] # "idle"

\* possibly_posted: the ERP may hold a bill of this invoice.
PossiblyPosted(s) == s.unknown \/ s.reference

\* (mutant) the gate asks only for exceptions.
MayExportUnclaimed == ~flagged

\* erp_export_refusal has nothing against the push.
MayExport == ~flagged /\ ~paying

\* Where a confirmed push leaves the invoice: status_sync_active.
Landing == IF org.reports = "sync" THEN "posted_in_erp" ELSE "done"

Fault == faults < MaxFaults /\ faults' = faults + 1

Init ==
    /\ org \in [queue : BOOLEAN, reports : {"nothing", "webhook", "sync"}]
    /\ status = "approved" /\ paying = FALSE /\ flagged \in BOOLEAN
    /\ stateData = NoAttempt
    /\ committed = 0 /\ refused = 0 /\ queue = 0
    /\ pc = [t \in Tasks |-> "idle"] /\ seen = [t \in Tasks |-> "approved"]
    /\ mine = [t \in Tasks |-> NoAttempt] /\ prior = [t \in Tasks |-> FALSE]
    /\ bill = FALSE /\ late = FALSE /\ cancelled = FALSE
    /\ faults = 0 /\ overlap = FALSE

-----------------------------------------------------------------------------
(* The doors *)

Room == committed + refused + queue < MaxPushes

\* start_erp_send: Send to ERP, /complete on an approved invoice, the auto-send.
SendToErp ==
    /\ Room /\ status = "approved" /\ MayExport
    /\ status' = "sending_to_erp"
    /\ committed' = committed + 1
    /\ UNCHANGED <<org, paying, flagged, stateData, refused, queue, task, erp, faults,
                   overlap>>

\* start_erp_send(retry=True): retry_erp resets the counter.
RetryErp ==
    /\ Room /\ status = "failed" /\ MayExport
    /\ status' = "sending_to_erp"
    /\ stateData' = [stateData EXCEPT !.retries = 0]
    /\ committed' = committed + 1
    /\ UNCHANGED <<org, paying, flagged, refused, queue, task, erp, faults, overlap>>

\* dispatch_erp: the message is on SQS, or the task on the event loop.
Dispatch ==
    /\ committed > 0
    /\ committed' = committed - 1
    /\ queue' = queue + 1
    /\ UNCHANGED <<org, invoice, stateData, refused, task, erp, faults, overlap>>

\* dispatch_erp raises: SQS refused the message, or took it and the answer was lost.
DispatchRaises ==
    /\ committed > 0 /\ org.queue /\ Fault
    /\ committed' = committed - 1
    /\ refused' = refused + 1
    /\ queue' \in {queue, queue + 1}
    /\ UNCHANGED <<org, invoice, stateData, task, erp, overlap>>

\* fail_erp_send_not_dispatched, on the row locked again.
FailNotDispatched ==
    /\ refused > 0
    /\ refused' = refused - 1
    /\ status' = IF status = "sending_to_erp" THEN "failed" ELSE status
    /\ UNCHANGED <<org, paying, flagged, stateData, committed, queue, task, erp, faults,
                   overlap>>

-----------------------------------------------------------------------------
(* The send task *)

\* The task is over, and its session with it.
End(t) ==
    /\ pc' = [pc EXCEPT ![t] = "idle"]
    /\ seen' = [seen EXCEPT ![t] = "approved"]
    /\ mine' = [mine EXCEPT ![t] = NoAttempt]
    /\ prior' = [prior EXCEPT ![t] = FALSE]

\* The task returns; in lambda mode its message is deleted, unless that fails too.
Return(t) ==
    /\ End(t)
    /\ \/ queue' = (IF org.queue THEN queue - 1 ELSE queue) /\ UNCHANGED faults
       \/ org.queue /\ Fault /\ UNCHANGED queue

\* An exception leaves the task: it rolls back, and only a message comes again.
Raise(t) == End(t) /\ UNCHANGED <<status, stateData, queue>>

\* (mutant) a message is handed out while another of the invoice is in flight.
MayBeginBeside(t) == ~Busy(t) /\ queue > 0

\* A local task runs beside any other; SQS holds back the messages of a group
\* (MessageGroupId is the invoice) while one of them is in flight.
MayBegin(t) == ~Busy(t) /\ queue > 0 /\ (org.queue => \A u \in Tasks : ~Busy(u))

Begin(t) ==
    /\ MayBegin(t)
    /\ overlap' = (overlap \/ \E u \in Tasks \ {t} : Busy(u))

\* _run_local, _process_message, send_to_erp_internal: load, and resume the counter.
Load(t) ==
    /\ Begin(t) /\ stateData.retries < MaxRetries
    /\ pc' = [pc EXCEPT ![t] = "attempt"]
    /\ seen' = [seen EXCEPT ![t] = status]
    /\ mine' = [mine EXCEPT ![t] = stateData]
    /\ queue' = IF org.queue THEN queue ELSE queue - 1
    /\ UNCHANGED <<org, invoice, stateData, doors, prior, erp, faults>>

\* send_to_erp_internal: range(retry_count, MAX_RETRIES) is empty.
LoadExhausted(t) ==
    /\ Begin(t) /\ stateData.retries = MaxRetries
    /\ queue' = queue - 1
    /\ UNCHANGED <<org, invoice, stateData, doors, task, erp, faults>>

\* fail_erp_send_without_credentials.
LoadWithoutCredentials(t) ==
    /\ Begin(t)
    /\ status' = IF status = "sending_to_erp" THEN "failed" ELSE status
    /\ queue' = queue - 1
    /\ UNCHANGED <<org, paying, flagged, stateData, doors, task, erp, faults>>

\* (mutant) one attempt too many.
IsLastOffByOne(t) == mine[t].retries = MaxRetries

\* No attempt is left after this one.
IsLast(t) == mine[t].retries + 1 = MaxRetries

\* The except branch of send_to_erp_internal, another attempt left: what is in
\* memory is committed, the invoice at s and state_data m, and the task sleeps.
BackOff(t, s, m) ==
    /\ ~IsLast(t)
    /\ status' = IF s = seen[t] THEN status ELSE s
    /\ stateData' = [m EXCEPT !.retries = @ + 1]
    /\ pc' = [pc EXCEPT ![t] = "attempt"]
    /\ seen' = [seen EXCEPT ![t] = s]
    /\ mine' = [mine EXCEPT ![t] = stateData']
    /\ prior' = [prior EXCEPT ![t] = FALSE]
    /\ UNCHANGED queue

\* The except branch, no attempt left: the invoice fails, and the task is over.
GiveUp(t, m) ==
    /\ seen[t] = "sending_to_erp"
    /\ status' = "failed"
    /\ stateData' = [m EXCEPT !.retries = @ + 1]
    /\ Return(t)

\* The attempt ends in an exception: final when a re-send would fail the same way.
\* Only a sending invoice has an edge to `failed'.
AttemptFailed(t, m, final) ==
    \/ ~final /\ BackOff(t, seen[t], m) /\ UNCHANGED faults
    \/ (final \/ IsLast(t)) /\ GiveUp(t, m)
    \/ (final \/ IsLast(t)) /\ seen[t] # "sending_to_erp" /\ Raise(t) /\ UNCHANGED faults

\* _call_erp: the export gate refuses; no adapter is built.
GateRefuses(t) ==
    /\ pc[t] = "attempt" /\ ~MayExport
    /\ AttemptFailed(t, mine[t], TRUE)
    /\ UNCHANGED <<org, paying, flagged, doors, erp, overlap>>

\* (mutant) the doubt is not committed before the call.
DoubtBeforeCallKept(t) == mine[t]

\* _call_erp: outcome-unknown is committed before the adapter is called.
DoubtBeforeCall(t) == [mine[t] EXCEPT !.unknown = TRUE]

CallErp(t) ==
    /\ pc[t] = "attempt" /\ MayExport
    /\ pc' = [pc EXCEPT ![t] = "calling"]
    /\ prior' = [prior EXCEPT ![t] = mine[t].unknown]
    /\ stateData' = DoubtBeforeCall(t)
    /\ mine' = [mine EXCEPT ![t] = DoubtBeforeCall(t)]
    /\ UNCHANGED <<org, invoice, doors, queue, seen, erp, faults, overlap>>

\* The ERP finds the bill by its idempotency key, or creates it.
ErpActs(t) ==
    /\ pc[t] = "calling"
    /\ pc' = [pc EXCEPT ![t] = "acted"]
    /\ bill' = TRUE
    /\ UNCHANGED <<org, invoice, stateData, doors, queue, seen, mine, prior,
                   late, cancelled, faults, overlap>>

\* (mutant) a refusal answers for the earlier attempts too.
AfterRefusalCleared(t) == FALSE

\* OUTCOME_UNKNOWN after an answer that says nothing was posted.
AfterRefusal(t) == prior[t]

\* The ERP answers outright that it posted nothing; retryable is not final.
ErpRefuses(t) ==
    /\ pc[t] = "calling"
    /\ \E final \in BOOLEAN :
          AttemptFailed(t, [mine[t] EXCEPT !.unknown = AfterRefusal(t)], final)
    /\ UNCHANGED <<org, paying, flagged, doors, erp, overlap>>

\* The adapter raises or reports no clear outcome, having given the request up.
AnswerLost(t) ==
    /\ pc[t] \in {"calling", "acted"}
    /\ late' = (late \/ pc[t] = "calling")
    /\ \E final \in BOOLEAN : AttemptFailed(t, mine[t], final)
    /\ UNCHANGED <<org, paying, flagged, doors, bill, cancelled, overlap>>

\* state_data as _call_erp leaves it in memory after a success.
Confirmed(t) == [mine[t] EXCEPT !.unknown = FALSE, !.reference = TRUE]

\* The success path of send_to_erp_internal, committed at once.
Confirm(t) ==
    /\ pc[t] = "acted" /\ seen[t] = "sending_to_erp"
    /\ status' = Landing
    /\ stateData' = [Confirmed(t) EXCEPT !.retries = @ + 1]
    /\ Return(t)
    /\ UNCHANGED <<org, paying, flagged, doors, erp, overlap>>

\* transition_invoice refuses sent_to_erp from the status in memory, with a 409
\* that is an exception like any other.
ConfirmRefused(t) ==
    /\ pc[t] = "acted" /\ seen[t] # "sending_to_erp"
    /\ AttemptFailed(t, Confirmed(t), FALSE)
    /\ UNCHANGED <<org, paying, flagged, doors, erp, overlap>>

\* dispatch_audit raises in the first or the second transition of the success path,
\* each of which has set the status in memory by then.
ConfirmHalf(t) ==
    /\ pc[t] = "acted" /\ seen[t] = "sending_to_erp" /\ Fault
    /\ \/ \E s \in {"sent_to_erp", Landing} : BackOff(t, s, Confirmed(t))
       \/ IsLast(t) /\ Raise(t)
    /\ UNCHANGED <<org, paying, flagged, doors, erp, overlap>>

\* The task is killed, or the database fails under it.
Die(t) ==
    /\ Busy(t) /\ Fault /\ Raise(t)
    /\ late' = (late \/ pc[t] = "calling")
    /\ UNCHANGED <<org, paying, flagged, doors, bill, cancelled, overlap>>

\* The API process restarts: local tasks and doors not yet dispatched are gone.
Restart ==
    /\ Fault
    /\ committed' = 0 /\ refused' = 0
    /\ late' = (late \/ (~org.queue /\ \E t \in Tasks : pc[t] = "calling"))
    /\ \/ org.queue /\ UNCHANGED <<queue, task>>
       \/ /\ ~org.queue
          /\ queue' = 0
          /\ pc' = [t \in Tasks |-> "idle"] /\ seen' = [t \in Tasks |-> "approved"]
          /\ mine' = [t \in Tasks |-> NoAttempt] /\ prior' = [t \in Tasks |-> FALSE]
    /\ UNCHANGED <<org, invoice, stateData, bill, cancelled, overlap>>

-----------------------------------------------------------------------------
(* In the ERP, and its webhook *)

\* A request the task gave up on is carried out after all.
ErpActsLate ==
    /\ late
    /\ late' \in BOOLEAN /\ bill' = TRUE
    /\ UNCHANGED <<org, invoice, stateData, doors, queue, task, cancelled, faults, overlap>>

\* Someone voids the bill in the ERP, which may have a webhook to tell us.
ErpVoidsBill ==
    /\ bill
    /\ bill' = FALSE
    /\ cancelled' = (cancelled \/ org.reports = "webhook")
    /\ UNCHANGED <<org, invoice, stateData, doors, queue, task, late, faults, overlap>>

\* erp_webhook: cancelled or voided fails the push in flight, under the row lock.
WebhookCancelled ==
    /\ cancelled
    /\ cancelled' = FALSE
    /\ status' = IF status = "sending_to_erp" THEN "failed" ELSE status
    /\ UNCHANGED <<org, paying, flagged, stateData, doors, queue, task, bill, late, faults,
                   overlap>>

\* (mutant) open or posted moves an invoice still sending on as well.
WebhookOpenEarly ==
    /\ bill /\ org.reports = "webhook" /\ status \in {"sending_to_erp", "sent_to_erp"}
    /\ status' = "posted_in_erp"
    /\ UNCHANGED <<org, paying, flagged, stateData, doors, queue, task, erp, faults, overlap>>

\* erp_webhook: open or posted moves only a half-confirmed invoice on.
WebhookOpen ==
    /\ bill /\ org.reports = "webhook" /\ status = "sent_to_erp"
    /\ status' = "posted_in_erp"
    /\ UNCHANGED <<org, paying, flagged, stateData, doors, queue, task, erp, faults, overlap>>

-----------------------------------------------------------------------------
(* The payment side *)

\* (mutant) the run builder decides on statuses read before the lock.
MayStageUnlocked == status \in Payable \cup {"sending_to_erp"}

\* create_payment_run_for_invoices: the status is read under lock_run_invoices.
MayStage == status \in Payable

StageRun ==
    /\ MayStage /\ ~paying /\ ~flagged
    /\ paying' = TRUE
    /\ UNCHANGED <<org, status, flagged, stateData, doors, queue, task, erp, faults, overlap>>

\* _execute_single_payment: the invoice follows a payment handed to its rail.
ExecutePayment ==
    /\ paying /\ status \in Payable
    /\ status' = "payment_scheduled"
    /\ UNCHANGED <<org, paying, flagged, stateData, doors, queue, task, erp, faults, overlap>>

\* payment_erp_sync.
MarkPaid ==
    /\ paying /\ status = "payment_scheduled"
    /\ status' = "paid"
    /\ UNCHANGED <<org, paying, flagged, stateData, doors, queue, task, erp, faults, overlap>>

\* void_payment, or a payment that fails or is cancelled with its run.
VoidPayment ==
    /\ paying
    /\ paying' = FALSE
    /\ status' = IF status \in {"payment_scheduled", "paid"} THEN "approved" ELSE status
    /\ UNCHANGED <<org, flagged, stateData, doors, queue, task, erp, faults, overlap>>

\* An exception is raised, or a person closes it.
ToggleFlag ==
    /\ flagged' = ~flagged
    /\ UNCHANGED <<org, status, paying, stateData, doors, queue, task, erp, faults, overlap>>

-----------------------------------------------------------------------------
(* The specification *)

Door == SendToErp \/ RetryErp \/ Dispatch \/ DispatchRaises \/ FailNotDispatched

Proceed(t) ==
    \/ GateRefuses(t) \/ CallErp(t) \/ ErpActs(t) \/ ErpRefuses(t) \/ AnswerLost(t)
    \/ Confirm(t) \/ ConfirmRefused(t)

Sending(t) ==
    \/ Load(t) \/ LoadExhausted(t) \/ LoadWithoutCredentials(t)
    \/ Proceed(t) \/ ConfirmHalf(t) \/ Die(t)

InTheErp == ErpActsLate \/ ErpVoidsBill \/ WebhookCancelled \/ WebhookOpen

Paying == StageRun \/ ExecutePayment \/ MarkPaid \/ VoidPayment \/ ToggleFlag

Next == Door \/ (\E t \in Tasks : Sending(t)) \/ Restart \/ InTheErp \/ Paying

\* SQS delivers a message again until it is deleted, and a task does not stop.
Fairness ==
    /\ WF_vars(\E t \in Tasks : Load(t) \/ LoadExhausted(t) \/ LoadWithoutCredentials(t))
    /\ \A t \in Tasks : WF_vars(Proceed(t))

Spec     == Init /\ [][Next]_vars
FairSpec == Spec /\ Fairness

-----------------------------------------------------------------------------
(* Properties *)

\* A bill in an ERP that never reports it paid is not payable here as well, nor
\* being paid: whichever of the run builder and the send locks the invoice first,
\* the other is refused, and no push ends at a payable status (decisions 295, 309).
NotPayableTwice ==
    bill /\ org.reports = "nothing" => ~paying /\ status \notin Payable

\* While FeohLedger is paying the invoice it is not being pushed, and has not failed
\* a push: lock_run_invoices and the door's gate keep the two apart.
PushKeepsPaymentOut ==
    ~overlap /\ paying => status \notin {"sending_to_erp", "sent_to_erp", "failed"}

\* A bill in the ERP is remembered: possibly_posted says so through lost answers,
\* later refusals, retries, crashes and requests that arrive after all.
PostedIsRemembered == ~overlap /\ bill => PossiblyPosted(stateData)

\* An invoice that reads sent to the ERP names its bill there, though status and
\* state_data are written by the task, its half-done successes, a redelivered message
\* and the webhook: without erp_reference neither the payment's write-back nor the
\* status sync would ever find the bill (_call_erp: "recorded with the success itself").
SentHasReference ==
    ~overlap /\ status \in {"sent_to_erp", "posted_in_erp", "done"} => stateData.reference

\* Two sends of the invoice run at once only as local tasks, when the ERP's webhook
\* failed the first in mid-push, or when a hook raised half way through its success
\* and left it running beside an invoice that is payable again.
OneSendAtATime ==
    overlap => ~org.queue /\ \/ org.reports = "webhook"
                             \/ org.reports = "sync" /\ faults > 0

\* A push whose message is queued, with attempts left, does not stay at sending_to_erp.
PushIsAnswered ==
    (org.queue /\ queue > 0 /\ status = "sending_to_erp" /\ stateData.retries < MaxRetries)
        ~> (status # "sending_to_erp")

\* Whatever is sending is driven by someone: a door, a message or a task (the
\* comment at fail_erp_send_not_dispatched: /retry-erp takes only `failed').
SendingIsDriven ==
    status = "sending_to_erp" /\ faults = 0 =>
        committed + queue > 0 \/ \E t \in Tasks : Busy(t)

\* The push keeps the promise of ErpExport, through lost answers, late requests,
\* redelivered messages, retries and crashes, until two sends overlap.
Export == INSTANCE ErpExport WITH
    holders <- {h \in {"push", "payment"} :
                  IF h = "push" THEN status \in {"sending_to_erp", "sent_to_erp", "failed"}
                                ELSE paying},
    noted   <- PossiblyPosted(stateData),
    there   <- bill \/ late \/ \E t \in Tasks : pc[t] = "calling",
    broken  <- overlap

ExportKept == Export!Spec
=============================================================================
