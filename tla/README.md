# TLA+ models and proofs of FeohLedger's payments and ERP traffic

FeohLedger is an accounts-payable product: invoices come in, are extracted,
reviewed and approved, are booked on payment runs, and are paid through an external
processor while an ERP keeps the ledger. This directory holds TLA+ specifications of
the parts of the backend that move money and that tell the ERP about it, the TLC
configurations that check them, and TLAPS proofs about them. Paths below are relative
to the repository (`src/backend/app/` is abbreviated to `app/`).

Three models, three questions:

- **`PaymentDispatch`: can an invoice be paid twice?** A payment row may be in doubt
  (the worker died around the processor call, the database went away, the order aged
  out, a reviewer dismissed a hold), two requests may work on one run, and a row that
  is `failed` gives its invoice back to the next run.
- **`PaymentErpSync`: do FeohLedger and the ERP agree on what is paid?** A settled
  payment marks the invoice and is written to the bill, a void takes both back, and
  meanwhile people pay, undo and delete bills in the ERP and clear exceptions here.
- **`ErpPush`: is an invoice pushed to the ERP once, and never both pushed and paid?**
  The call may be acted on although its answer is lost, the message may be delivered
  again, and the payment side takes the same invoice at any moment.

The answers are in "What holds" and "Findings" below.

## Running it

```
tlc -workers 2 -config PaymentDispatchFreshRun.cfg MCPaymentDispatch
tlc -workers 2 -config PaymentErpSync.cfg MCPaymentErpSync
tlc -workers 2 -config ErpPush.cfg MCErpPush
tlapm PaymentDispatch_proofs.tla
tlapm PaymentDispatchRefinement_proofs.tla
tlapm PaymentDispatchConditions_proofs.tla
tlapm PaymentErpSync_proofs.tla
tlapm PaymentErpSyncRefinement_proofs.tla
tlapm ErpPush_proofs.tla
tlapm ErpPushRefinement_proofs.tla
```

## Modules

| Module | Role |
| --- | --- |
| `PaymentDispatch` | Booking, dispatch, outcome, people, processor, reconciler; its properties and its fairness |
| `MoneyOut` | Abstract specification of `PaymentDispatch`: per invoice, one payment has money out at a time, and one that is over never starts again |
| `ErpLedger` | Abstract specification of `PaymentErpSync`: a payment is written to the ERP once, a payment taken back is owed to it until it is off its books |
| `ErpExport` | Abstract specification of `ErpPush`: the invoice is pushed or paid and passes from one to the other through nobody; the ERP is asked only for what is noted |
| `PaymentErpSync` | Settlement to `paid`, write-back, void in the ERP, bill reports, exceptions; its properties |
| `ErpPush` | The push of one invoice: doors, dispatch, send tasks, the ERP, its webhook, the payment side; its properties and its fairness |
| `PaymentDispatchInvariant`, `PaymentErpSyncInvariant`, `ErpPushInvariant` | The inductive invariants `IInv`, and the conditions and invariants of the conditional theorems |
| `MCPaymentDispatch`, `MCPaymentErpSync`, `MCErpPush` | Symmetry for TLC; all configurations run these modules |
| `PaymentDispatch_proofs`, `PaymentErpSync_proofs`, `ErpPush_proofs` | `IInv` is inductive; the safety theorems |
| `PaymentDispatchRefinement_proofs`, `PaymentErpSyncRefinement_proofs`, `ErpPushRefinement_proofs` | Each model implements its abstract specification |
| `PaymentDispatchConditions_proofs` | What the findings about dispatch take: without it, the property holds (those about the ERP are in the two modules above) |

The three models stand beside each other, one per question, and meet in the
invoice's status: each has the others' effect on it as actions of its own
(`PaymentErpSync` a coarse `Book`, `Dispatch` and `Settle`; `ErpPush` a coarse
`StageRun` to `VoidPayment`). Their product is far out of TLC's reach.

A definition marked `(mutant)` is a plausible bug of the definition that follows it.
Nothing in the specification uses it: it is there to be put in the place of the real
one, to see that some property notices. `PROJECT.json` pairs every checked property
with such a mutant.

## Inventory of the system

| Component | State | Operations | What is hard |
| --- | --- | --- | --- |
| Payment runs (`app/services/payment_runs.py`, `app/api/payments.py`) | `PaymentRun.status`, `Payment` rows, the unique index `uq_payments_one_live_per_invoice` | build, standalone create, cancel, execute, resume, retry-failed, rollup | several requests on one run; reads that are not locked; a crash anywhere |
| Dispatch of one payment (`app/api/payments.py:2139-2700`, `4150-4832`) | `Payment.status`, `failure_reason`, `dispatch_attempted_at` | stamp, re-lock, preflight, hold, processor call, record, abort | the row lock is dropped at the stamp's commit; the call is outside any transaction |
| Processor and its adapters (`app/services/payment_adapters/`) | orders by idempotency key | create, cancel, status | an order may exist although the answer was lost or says failed |
| Webhook (`app/api/payments.py:5890-6100`) | dedup claims in Redis | deliver | out of order, late, before the row is committed, dropped |
| Reconciler (`app/services/payment_reconciler.py`) | none of its own | poll, age out, flag | races with webhooks and reviewers; ages out an order that is still open |
| Reviewers' actions (`app/api/payments.py`, `exception_lifecycle.py`) | exceptions | release, dismiss, void, resolve | act on rows a dispatcher believes are its own |
| Paid outside (`app/services/external_payment.py`) | `Payment.record_only` rows | record an invoice, record a run | races with booking and dispatch |
| Payment ERP sync, settlement coverage, ERP write-back (`payment_erp_sync.py`, `erp_payment_writeback.py`) | `Invoice.status` `payment_scheduled` to `paid`, settlement records, `erp_payment_voids_pending` | sync, hold, accept, write back, void in the ERP, sweep | payment read before the invoice lock; the post after the re-read's commit; lost tasks |
| ERP bill status sync (`erp_status_sync.py`) | exceptions and the reports they keep | read a bill, apply its report, record, withdraw, retry | a bill read before it is applied; its flag is the dispatcher's too |
| NACHA bank-file runs (`nacha.py`) | run status `exported` | export, regenerate, settle, void | little: single guarded updates of a locked run, a second file only on request |
| Run controls (`payment_controls.py`) | CFO approval, created-by | approve, refuse by segregation | approval that is stale after the run changed |
| Invoice workflow, review, approval chain | `Invoice.status`, levels | transitions | concurrent approvals, delegated levels |
| ERP export (`erp_send.py`, `erp_dispatch.py`, `erp.py`, `erp_lambda.py`, `api/erp_webhook.py`) | `sending_to_erp`, `state_data` (counter, outcome unknown, reference) | send, retry, dispatch, attempt, webhook | the bill was created, the answer lost; redelivery; a task without a lock |
| Extraction dispatch and reaper | job claims, deadlines | dispatch, finish, reap | a late worker after the reaper |
| Virtual cards (`card_issuance.py`) | live-card slot | issue, charge, cancel | second rail for the same invoice |
| Post-commit hooks, outbound webhooks | delivery rows | deliver, retry | process death between commit and hook |
| Discounts, credit memos, budgets, recurring invoices, auth, sweep health, clients | own tables | CRUD | little interaction with money movement |

How they interact: all backend components share one PostgreSQL database per tenant
and meet in its rows, under `SELECT ... FOR UPDATE` locks and the partial unique
index; the processor is called over HTTP in the middle of a transaction and answers
later through the webhook or the reconciler's poll; an invoice reaches payment as
`approved` and leaves through `payment_scheduled` to `paid`; exceptions of a blocking
type, here `payment_reconciliation`, keep an invoice out of runs until a person
resolves them.

`PROJECT.json` lists every component with its status, and under `hazards` the places
in the code where a test would hardly reach.

## `PaymentDispatch`: state

| Variable | Code |
| --- | --- |
| `invoiceStatus` | `Invoice.status`, from `approved` on |
| `flagged` | the invoice has an open or escalated `payment_reconciliation` exception |
| `status`, `invoiceOf`, `runOf` | `Payment.status`, `.invoice_id`, `.payment_run_id` (`unused`: no such row) |
| `reason` | what `Payment.failure_reason` of a failed row says: `refused` (on the retry-safe lists), `adapter` (the adapter's own failure reply), `in_doubt` (everything else) |
| `stamp` | `Payment.dispatch_attempted_at`; a time, kept as the identity of the attempt that wrote it, because the code only compares it for equality and with NULL |
| `retried` | rows named by a later row's `retry_of_payment_id` |
| `runStatus` | `PaymentRun.status` |
| `vetted` | invoices a run builder has locked and checked |
| `pc`, `passOf`, `todo`, `cur`, `remarked` | where a request stands in `_dispatch_run_payments` and `_dispatch_payment_guarded`; `passOf = None` is a compliance release |
| `seen`, `runSeen` | what the request's SQLAlchemy session holds for a row and for the run (`expire_on_commit=False`) |
| `order` | the processor's order under the row's idempotency key, or money moved `outside` |
| `listing`, `listed`, `derived` | a request that lists the runs (`Viewers`): the run it loaded, the status it loaded, the status it derived |
| `reconciled` | history: a person looked the row up at the rail and signed it off |

One action is one database transaction, or the part of one between a commit and an
external call. Reads made under a lock that is held to the commit belong to the same
step as the writes. What is split, because the code lets go of the lock or leaves the
process in between:

- **the run builder** into `VetInvoices` (lock, status, blocking exceptions) and
  `BookRun` (live payments, insert): the exceptions are read first, so a payment may
  end in doubt between the two reads (`payment_runs.py:1024`);
- **retry-failed** into `VetRetry` and `BookRetry`, for the same reason;
- **a dispatch attempt** into `MarkNext`/`Release` (the stamp's commit, which drops
  the row lock), `Relock` or `SkipClaimed`, `CallProcessor`, and the commit of the
  outcome; with `LoseConnection` and `RecordAborted` for a database that goes away,
  and `Crash` for a worker that dies, at every point;
- **a pass** into its claim (`Execute`, `Resume`, `BookRetry`), the unlocked
  `ReadPending`, one turn per row in any order, and the rollup `Finish`;
- **listing the runs** into `ListRun` (load), `DeriveStatus` (the query of the payments'
  statuses) and `PersistDerived`: `list_payment_runs` assigns the derived status to the
  loaded row, and the session commits before the response, so what looks like a read
  is an unlocked late write (`api/payments.py:3562`, `tenant.py:217`).

| Action | Handler |
| --- | --- |
| `VetInvoices`, `BookRun`, `AbandonRun` | `create_payment_run_for_invoices` |
| `CreatePayment`, `CancelRun` | `create_payment`, `cancel_payment_run` |
| `Execute`, `Resume` | `execute_payment_run`, `resume_payment_run` up to the claim |
| `VetRetry`, `BookRetry`, `RefuseRetry` | `retry_failed_payments` |
| `ReadPending`, `MarkNext`, `SkipMoved`, `Finish` | `_dispatch_run_payments` |
| `Mark`, `Relock`, `SkipClaimed` | `_mark_dispatch_attempt` |
| `InvoiceLocked`, `Refuse`, `Hold`, `CallProcessor`, `RecordAccepted`, `RecordRefused` | `_execute_single_payment` |
| `FailBeforeCall`, `FailAfterCall`, `LoseConnection`, `RecordAborted` | `_dispatch_payment_attempt`, `_record_aborted_dispatch` |
| `Outcome` (with `StampAfter`, `Flags`) | `_dispatch_payment_guarded`: settle the stamp, flag what is in doubt, commit |
| `ListRun`, `DeriveStatus`, `PersistDerived` | `list_payment_runs` |
| `Release`, `Dismiss`, `Void` | the handlers of those names |
| `RecordOutside`, `RecordRunOutside` | `record_invoice_paid_outside`, `record_run_paid_outside` |
| `ResolveException` | `exception_lifecycle.apply_resolution` on a `payment_reconciliation` exception |
| `Webhook`, `Poll`, `AgeOut` | `payment_webhook`, `_reconcile_tenant` |
| `ProcessorDecides` | external |

### Abstractions, and what each leaves out

- `submitted` is submitted and processing, `failed` is failed and cancelled,
  `approved` is approved and posted_in_erp. No handler here tells the merged values
  apart.
- Gates that read what is not modelled (vendor, card, credit, amount, live ERP bill,
  sanctions, other blocking exception types) may refuse at any time: `Refuse` is always
  allowed, `CallProcessor` is not.
- `Recomputed` is atomic with its handler. In the code `recompute_run_status` reads the
  run without a lock (`api/payments.py:2701`) and may write an older rollup over a
  newer one, as a listing may; the listing actions stand for both. A listing that
  finds a claim status writes nothing, so only runs with an outcome are followed.
- The flag is raised with an unlocked de-duplication (`payment_reconciler.py:286`). The
  model raises it unconditionally; `SentIsUnflagged`, checked and proved, is why that
  is the same: no exception of the modelled openers is open while an order stands
  behind a live row.
- A lost webhook is a `Webhook` that never happens. An event that arrives before the
  acceptance is committed finds no row and keeps its dedup claim, so it is lost too.
- A void asks the processor to reverse the order, at best effort: the order stays as
  it is, and a voided row counts as answered for by a person.
- `ResolveException` assumes that the person looks up every failed payment of the
  invoice. The exception names only the payment that raised it.
- The processor remembers an idempotency key for ever and decides an order only
  while its row is in flight (an order left open is the worst case).
- One run builder vets at a time: builders of disjoint invoices commute, builders of
  overlapping ones wait for each other.
- An insert of the flag that fails aborts the transaction, which is `Crash` or
  `LoseConnection`. A deadlock's victim is a `Crash`.
- A skipped row stays locked until the next commit of its pass; this only delays others.
- The virtual-card rail is folded into the processor. Its own live-card slot, amounts,
  settlement figures, bank-file runs (`exported`), CFO approval and segregation of
  duties are not modelled; the ERP's part (`payment_scheduled` to `paid`) and
  `record_erp_payment` are in `PaymentErpSync`.

## `PaymentErpSync`: state

A tenant whose ERP reports its bills back (QuickBooks Online), every invoice posted to
that ERP, every payment on a run.

| Variable | Code |
| --- | --- |
| `invoiceStatus` | `Invoice.status`, from `approved` on |
| `flags` | the kinds of live exception of the invoice: `payment_reconciliation` (`block`) and `erp_reconciliation` (`note`), each also with a payment the ERP reported and FeohLedger could not record (`blockReport`, `noteReport`: `erp_report.kind = paid_not_recorded`) |
| `status`, `invoiceOf`, `settled` | `Payment.status`, `.invoice_id`, `.settled_amount` |
| `external`, `named` | rows with provider `external`; those whose reference is the bill in the ERP |
| `pendingVoid` | `state_data.erp_payment_voids_pending` |
| `pc`, `leg`, `writeback` | where a worker stands in `_sync_one_leg` and `write_back_payment`; write-back tasks not begun |
| `voiding` | what the ERP answered to a `void_written_payment` that has not recorded it yet |
| `report` | the bill a webhook or the sweep has read and not applied |
| `billPay`, `outside`, `deleted` | the ERP: our payment of the bill, what others took off it, deleted bills |
| `applied`, `told`, `mistaken`, `late` | history, see "What holds" |

| Action | Handler |
| --- | --- |
| `Book`, `RefuseDispatch`, `StopDispatch`, `Dispatch`, `Settle`, `Fail` | run builder, `_execute_single_payment` with `erp_bill_dispatch_refusal`, `payment_webhook` and poll |
| `StartLeg`, `MarkPaid`, `FindPaid`, `HoldLeg`, `LegFails` | `_sync_one_leg`, from the unlocked read of the payment to the commit under the invoice's lock, and `_flag_sync_failure` |
| `AcceptSettlement`, `StartWriteback` | `accept_settlement`, `write_back_settled_payment` |
| `Recheck`, `PostRefused`, `PostFindsOurs`, `PostCreates` | `write_back_payment`: the re-read and its commit; the post and the outcome |
| `Void`, `VoidAnswered`, `VoidUnanswered`, `RecordVoid` | `void_payment`; `void_written_payment` from the void or from `resume_pending_voids` |
| `ReadBill`, `ApplyReport` | `sync_bills`, `apply_bill_report` with everything it calls |
| `Resolve`, `RecordErpPayment` | `record_decision` with `retry_erp_reported_payments`, `record_erp_payment` |
| `Restart` | every task in memory is gone |
| `ErpPays`, `ErpUndoes`, `ErpDeletes`, `ErpVoidsOurs` | external |

What is split, because the code holds no lock there: the read of the payment and the
lock of the invoice (`payment_erp_sync.py:318-388`), the re-read and the post
(`erp_payment_writeback.py:193-204`), the ERP's answer to a void and its record, and
the read of a bill and its application.

Abstractions: money is in units of which an invoice owes `Total`, so that a settlement
and what was paid in the ERP can be short, exact, or add up; a settlement above `Total` (which counts as covered),
currencies, tolerances, fees and credits are not there. The post and the record of its outcome are one step,
because nothing is decided on that record. What a vendor credit settled is never
recorded, so a recordable report may always be flagged instead. The change-data-capture
cursor, the matching of a bill to its invoice, adapters without status sync, card
programs, and the `settled_short` report are left out.

## `ErpPush`: state

One invoice, from its first `approved` on.

| Variable | Code |
| --- | --- |
| `org` | the tenant, fixed: `FEOH_ERP_MODE` is lambda or local; the ERP reports on its bills not at all, by webhook, or by status sync |
| `status` | `Invoice.status` |
| `paying`, `flagged` | it has a live payment (or card); an open duplicate or fraud exception (or a vendor hold) |
| `stateData` | `WorkflowInstance.state_data`: `erp_retries`, outcome unknown, `erp_reference` |
| `committed`, `refused` | doors that committed `sending_to_erp` and have not dispatched; those whose dispatch raised and that have not recorded it |
| `queue` | SQS messages not deleted, or local tasks not begun |
| `pc`, `seen`, `mine`, `prior` | a send task: where it is, the status and `state_data` its session holds, `prior_unknown` |
| `bill`, `late`, `cancelled` | the ERP: it holds a bill; a request that was given up on may still arrive; its webhook about a voided bill is under way |
| `faults`, `overlap` | the bound on faults; history: two sends ran at once |

| Action | Handler |
| --- | --- |
| `SendToErp`, `RetryErp` | `start_erp_send` (also the auto-send and `/complete`), with `retry_erp` |
| `Dispatch`, `DispatchRaises`, `FailNotDispatched` | `dispatch_erp`, `fail_erp_send_not_dispatched` |
| `Load`, `LoadExhausted`, `LoadWithoutCredentials` | `_run_local`, `_process_message`, the head of `send_to_erp_internal`, `fail_erp_send_without_credentials` |
| `GateRefuses`, `CallErp`, `ErpRefuses`, `AnswerLost` | `_call_erp` with the `except` branch of `send_to_erp_internal` (`BackOff`, `GiveUp`) |
| `Confirm`, `ConfirmRefused`, `ConfirmHalf` | its success path: committed, refused by the edge check, or a hook that raises after a status was set in memory |
| `Die`, `Restart` | a task that is killed; the API process that restarts |
| `WebhookCancelled`, `WebhookOpen` | `erp_webhook` |
| `StageRun`, `ExecutePayment`, `MarkPaid`, `VoidPayment`, `ToggleFlag` | the payment side and the exceptions |
| `ErpActs`, `ErpActsLate`, `ErpVoidsBill` | external |

Doors, run builder and webhook hold the invoice's row lock from the status they read to
the commit, so each is one step. The send task holds none and decides on what it
loaded; each of its commits is one step, with the ERP's act in a step between. Pending
jobs, orphan documents and attempt dates only serve the ERP's lookup by idempotency
key, which here always finds a bill that exists.

## What holds

`PaymentDispatch`:

| Property | Says |
| --- | --- |
| `NoUnansweredDoublePayment` | At most one row of an invoice has money out (an open or settled order, or money moved outside) that no person answered for. An adapter's own failure reply is believed, as the code believes it |
| `InDoubtIsBlocked` | While money is out under a row, the row holds the live slot or the invoice is flagged |
| `SentIsUnflagged` | An order behind a live row belongs to an unflagged invoice |
| `RetrySafeNeverSent` | What retry-failed sends again under a new key never had an order |
| `CompletedMeansMoved` | A payment reads completed only when money moved |
| `InFlightLeavesQueue` | The invoice of a payment in flight or completed is not in the payment queue |
| `DraftIsUnsent` | Nothing of a draft run was sent and no pass works on it |
| `PendingIsReachable` | A pending leg of a run can still be sent, cancelled or dismissed into a retry (false with two overlapping passes, see below) |
| `EndedRowsStay` | No step rewrites an ended row; a completed one is only ever voided |
| `ClaimStays` | Only the end of a pass takes a run out of `executing` (false, see below) |
| `MoneyOutOnce` | Every step is a step of `MoneyOut` |
| `LegInv` | A pass works under its run's claim, with every pending leg on its list and its stamp on the leg whose turn it is; an outcome means that no leg is left. Holds with one pass at a time on a run, and no listing of it (see Proofs) |
| `InFlightResolves` | A payment in flight is resolved even if every webhook was lost |
| `RequestsEnd` | Every request ends: two passes over one run do not wait for each other |

`PaymentErpSync`:

| Property | Says |
| --- | --- |
| `PaidRestsOnPayment` | An invoice reads paid only while a payment of it reads completed, except for `mistaken` |
| `OutsidePaymentIsTold` | Once the ERP has reported a bill paid from outside, and until it reports otherwise, a record or a live exception says so, or a person has dealt with it (`told`), except for `mistaken` |
| `OneErpReport` | One exception at a time offers a reported payment, and one at a time blocks the invoice |
| `ErpRecordsStand` | No step books a payment on the ERP's word after a report that withdrew it |
| `VoidIsRemembered` | A voided payment stands in the ERP only while its void is pending, except for `late` |
| `VoidReachesErp` | The same without the exception (false, see below) |
| `BillPaidOnce` | Two payments of ours never stand on one bill, except for `late` |
| `LedgerKept` | Every step is a step of `ErpLedger` |

`mistaken` are invoices that a leg marked paid for a payment that had been voided
since the leg read it (`payment_erp_sync.py:330` reads it before the invoice's lock;
by the time the lock is had another payment has put the invoice back to
`payment_scheduled`). `late` are payments written to the ERP after their void. Each
marks exactly the step of the race, so the properties say that there is no other way.

`ErpPush`:

| Property | Says |
| --- | --- |
| `NotPayableTwice` | A bill in an ERP that never reports it paid is not payable here, nor being paid |
| `PushKeepsPaymentOut` | While a payment is live, the invoice is not being pushed and has not failed a push |
| `PostedIsRemembered` | A bill in the ERP is remembered as possibly posted, through lost answers, refusals, retries, crashes and late requests |
| `SentHasReference` | An invoice that was sent, posted or is done names its bill, without which no write-back and no status sync finds it |
| `OneSendAtATime` | Sends overlap only as local tasks, after the ERP's webhook failed the first in mid-push or after a hook raised half way through its success |
| `PushIsAnswered` | A queued push with attempts left leaves `sending_to_erp` |
| `SendingIsDriven` | Whatever is sending is driven by a door, a message or a task (false, see below) |
| `ExportKept` | Every step is a step of `ErpExport` |

`PushKeepsPaymentOut`, `PostedIsRemembered`, `SentHasReference` and `ExportKept` are about
invoices whose sends did not overlap (of two that do, one may clear what the other wrote);
`OneSendAtATime` says where overlaps come from, so in lambda mode, and with an ERP that
reports nothing, the exception is empty (`WhereNoSendOverlaps`).

## Runs and bounds

| Run | Instance | Question |
| --- | --- | --- |
| `fresh_run` | 1 invoice, 2 rows, 2 runs, 2 requests | Can another run pay an invoice whose first payment is in doubt? |
| `retries` | 1 invoice, 3 rows, 1 run, 2 requests, 1 listing | Chains of execute, resume and retry over one run, with a stale status stored at any moment |
| `two_invoices` | 2 invoices, 3 rows, 1 run, 1 request | Legs of one run beside each other; without overlap no leg is stranded |
| `liveness` | 1 invoice, 1 row, 1 run, 2 requests, fairness | Lost webhooks; passes that stamp over each other |
| `adapter_failure` | 1 invoice, 2 rows, 2 runs, 1 request | Finding 1 |
| `stranded` | 2 invoices, 2 rows, 1 run, 2 requests | Finding 2 |
| `unclaimed` | 1 invoice, 2 rows, 1 run, 1 request, 1 listing | Finding 3 |
| `erp_sync` | 1 invoice of 2 units, 2 rows, 1 worker, 1 reader | Do the books and the ERP agree, through voids, reports, decisions and restarts? |
| `void_race` | the same | Finding 4 |
| `erp_push` | 2 tasks, 2 attempts, 1 push at a time, 1 fault | Is a bill forgotten or nameless, or an invoice pushed and paid at once? |
| `erp_push_liveness` | 1 task, 2 attempts, 2 pushes, 1 fault, fairness | Does a queued push end? Do `IInv` and `ExportKept` hold with an old message about? |
| `erp_push_stuck` | 1 task, 3 attempts, 1 push, no fault | Finding 5 |

In `PaymentDispatch` the sets are the only bounds: there are no counters. Two rows of one invoice are what
a double payment takes, three allow a retry of a retry, two requests are what an
interleaving takes (a third adds nothing to the lock protocol, which is between the
writer of a stamp and whoever stamps over it), and two runs let the second be built
after the first failed. A listing only ever writes the status of a run, so it is in the
run that is about that status; the proofs have any number of them everywhere.

In `PaymentErpSync` two rows of one invoice are what a void and a re-booking take, and
two units let a settlement or an outside payment be short. The one worker may be at
any leg or write-back while voids, reports and people go on; the proofs have any
number of workers, readers and invoices.

In these two models the identities of rows run out: where the last row has ended nothing
can be booked again, which happens to no tenant. `fresh_run`, `retries` and `erp_sync` check
such a state and do not go on from it (the constraint `RowsRemain` of the MC modules). The other runs and the proofs have no such bound.

In `ErpPush` two attempts are a retry that is also the last, and two tasks an overlap. Two
pushes, a door that opens while the message of an earlier one is still there, are in
`erp_push_liveness`, with one task; `OneSend` is about any number of both. `Room`
(`MaxPushes`) bounds the pushes under way and `Fault` (`MaxFaults`) the crashes, lost
deletes, refused dispatches and raising hooks; both are constants of the proofs too, so
those hold for every bound. `erp_push_stuck` has the code's three attempts.

In the first two models row identities run out, and a tenant whose rows have all ended has
nothing left to do, so their configurations say `CHECK_DEADLOCK FALSE`; `ErpPush` is
checked for deadlock. The safety runs use symmetry, the liveness runs do not.

**Fairness** (`FairSpec`), for the liveness runs only. `PaymentDispatch`: a request that has begun goes on
(strong fairness of `Proceed(d)`: row locks in PostgreSQL queue first come first
served, and waits for an invoice lock are bounded by a timeout), a run builder ends,
and the reconciler sweeps on its timer (weak fairness of `Reconcile(p)`). No person, no
webhook and no decision of the processor is assumed to happen, and nothing forbids a
crash. `ErpPush`: SQS delivers a message until it is deleted (weak fairness of the
loads), and a task that has begun goes on (weak fairness of `Proceed(t)`: its calls and
its sleeps have timeouts). A kill, a restart or a failed delete is a fault and bounded.
Nothing is assumed of doors, people, the ERP's webhook or the dispatch, and
`PushIsAnswered` is about lambda mode: a local task dies with its process
(`erp_dispatch.py:55`) and nothing brings it back.

## Proofs

Assumed: `NoneIsNoValue`, `NoneIsNoIdentity` (NULL is no identity), `TotalIsPositive`
(an invoice owes something), `MaxRetriesIsPositive` and `BoundsAreNatural`. No set is
assumed finite.

### `PaymentDispatch`

The invariant `IInv` (module `PaymentDispatchInvariant`) is `DispatchInv` and
`ListedHaveBegun`: a run being listed has been dispatched, and what is derived for it
says so, so a late listing never makes a draft of it (which could be cancelled).
`DispatchInv` is `TypeOK`, the two
properties it is for (`InDoubtIsBlocked`, `NoUnansweredDoublePayment`), and what they
need to be preserved by each step:

- `RowInv`: rows have invoices and booked runs; the unique index; retried rows have
  failed; rows of a draft run are untouched;
- `PassInv`: a pass works on its own run; a turn is about an existing row; who holds
  the row lock past the stamp wrote the stamp that is on the row;
- `SentInv`: a waiting row without a stamp, and one stamped for the first time, was
  never sent.

The two properties alone are not inductive. A call to the processor preserves them
because the row is live (so no other row of the invoice is, `OneLiveRow`) and the
invoice is not flagged at the preflight (so by `InDoubtIsBlocked` no ended row of it
has money out): lemma `CallInv`, which fails without the flag in `Clear`. Recording a
refusal preserves them because either the attempt was the first (`SentInv`: nothing
was sent) or the stamp was inherited, and then the failure is flagged: `OutcomeInv`.

| Theorem | Property |
| --- | --- |
| `Invariance` | `IInv` |
| `TypeCorrect` | `TypeOK` |
| `NeverPaidTwice` | `NoUnansweredDoublePayment` |
| `DoubtBlocks` | `InDoubtIsBlocked` |
| `DraftsAreUnsent` | `DraftIsUnsent` |
| `EndedStay` | `EndedRowsStay` |
| `CompletedMoved` | `CompletedMeansMoved` |
| `RetriesNeverSent` | `RetrySafeNeverSent` |
| `PayingLeavesQueue` | `InFlightLeavesQueue` |
| `OwnFlag` | `SentIsUnflagged` |
| `PaysOnce` | `MoneyOutOnce`: initial states map to initial states, every step to a step of `MoneyOut` or a stutter |
| `AnswersStand` | Money once answered for is never out again under its payment, an action property that the refinement and `OverForGood` give |
| `MoneyKeepsItsRow` | The row of a payment with money out and unanswered is neither deleted nor given to another invoice: an action property, from the refinement and `RowsWellFormed` |
| `OneRequestAtTheRail` | `OneRequestPerInvoice`: two requests that are between stamp and answer have payments of different invoices; from the stamp each holds and the unique index |

`EndedStay` to `RetriesNeverSent` rest on `StepOfRow`, the life of one row as a relation that every
step satisfies.

`PendingIsReachable`, `ClaimStays` and `NoDoublePayment` are false of the code (Findings 1
to 3). What is proved of them is that nothing else is wrong: each holds of every
behaviour in which the one thing its finding shows does not happen.

| Theorem | Under | Property |
| --- | --- | --- |
| `LegsHold` | `OnePassPerRun`: no run is resumed while a pass is at work on it; `NoLateListing`: no run is claimed while it is being listed | `LegInv` |
| `LegsStayReachable` | the same | `PendingIsReachable` |
| `ClaimsStand` | `NoLateListing` | `ClaimStays` |
| `HonestAdaptersPayOnce` | `AdaptersAreBelieved`: an order behind an adapter's failure reply has failed | `NoDoublePayment` |

The hypotheses are state predicates, required all along the behaviour; crashes, lost
connections, retries, releases, voids and reviews, in any number and order, stay in.
Behaviours that satisfy them are the ordinary ones: a run is resumed after its pass
died, and its page is not open just then. Both of `LegsStayReachable` are needed. With
two passes TLC strands a leg (run `stranded`); with one dispatcher and a listing, where
`OnePassPerRun` always holds, it does too: the listing stores an outcome over the claim
of a retry that then dies. The proof rests on `LegInv`, which is inductive together with
`IInv` between states that satisfy the hypotheses. `PendingIsReachable` alone is not
inductive: a pass that closes its run must know that it has no pending leg left, so
its list must have held all of them (`todo`) and it must not have skipped one that
it had to (`stamp[cur[d]] = d`). `two_invoices` checks `LegInv` where the hypotheses
hold by themselves, with one dispatcher and no listing.

### `PaymentErpSync`

The properties are not inductive because they trust the rows and the markers. `IInv`
adds `RowsWellFormed` (rows have invoices, outside rows are closed and covered, only a
payment of ours that completed is ever written to a bill), `WorkOnRows` (a worker or a
task is at a payment of ours that did complete), `VoidsWellFormed` (a confirmed void
left nothing of ours standing, `late` apart) and `ReportsStand` (a report is offered
only while the last one applied said paid, which gives `ErpRecordsStand`).
`PaidRestsOnPayment` is kept by a void because it puts the invoice back in the same
step, whichever status it has.

| Theorem | Property |
| --- | --- |
| `Invariance` | `IInv` |
| `TypeCorrect` | `TypeOK` |
| `PaidRests` | `PaidRestsOnPayment` |
| `OutsideTold` | `OutsidePaymentIsTold` |
| `OneReport` | `OneErpReport` |
| `VoidRemembered` | `VoidIsRemembered` |
| `RecordsStand` | `ErpRecordsStand`, an action property, from `IInv` |
| `PaidOnce` | `BillPaidOnce`, from `BillInv` |
| `KeepsTheLedger` | `LedgerKept` |
| `OnlyTheVoidedAreVoided` | A bill payment of ours is taken off the bill only for a payment voided here, or by a person in the ERP: an action property, from `VoidsWellFormed` |
| `OnePaymentOnABill` | `BillPaidOnce` without `late`, under `NoVoidBeforePost` |
| `VoidsReachErp` | `VoidReachesErp`, if no payment is voided between its re-read and its post (`NoVoidBeforePost`) |
| `PaidIsPaid` | `PaidMeansPaid` (`PaidRestsOnPayment` without `mistaken`), if no payment is voided between a leg's read and its lock of the invoice (`NoVoidBeforeLock`) |

`BillPaidOnce` is not inductive: nothing in it keeps two payments that are not in the ERP
yet from both getting there. Its strengthening `BillInv` looks at whatever may still be
written: a payment of ours that is at the rail or has completed (`Rival`) has no other beside it on the invoice (`OneLiveRow`, the unique index) and none in the
ERP (`OneOnBill`). The step that decides is `Dispatch`: a payment becomes a rival only
after `erp_bill_dispatch_refusal` has found the bill untouched, so the void of the one
before has reached the ERP. The mutant `DispatchUnread` drops that read and two payments
fit on the bill. A write-back that posts after its void needs no rival any more, which is
why `late` is excepted.

`KeepsTheLedger` maps a row's status to the ledger's books, the ERP's payment of the bill
to `there` and the pending voids to `owed`. A settlement or a record made outside is
`Complete`, a void `TakeBack`, the post that creates `Write`, a void in the ERP (ours or
a person's) `TakeOff`; recording a confirmed void is `Discharge`, whose guard (nothing of
the payment stands, or it came late) is `VoidsWellFormed`. Everything else, restarts and
lost answers included, is a stutter. The two conditional theorems say that the two races
are the whole story: `late` and `mistaken` grow only in a step that starts in one of them.

### `ErpPush`

`PostedIsRemembered` needs what a running task remembers to be what the row says
(`TaskRemembers`: the doubt is in the row before the call, and a bill that stands while
a task is calling is in `prior` or in the reference, so the refusal that clears the
task's own doubt does not clear that), and needs the task to be alone (`Alone`).
`LateIsRemembered` extends it to a request that may still arrive. `NotPayableTwice`
rests on `PushedIsGone`: with an ERP that reports nothing, no status that is payable
comes back once anything of a push exists. `OneSendAtATime` rests on `OneDriver`: while
no webhook and no raising hook can reach the invoice, one door, one task on the loop or
one task at work is the whole push, and no door opens before it is over. `SentIsNamed` needs `Alone` too: of two
tasks at work, one stores its doubt over the reference that the other has just recorded.

| Theorem | Property |
| --- | --- |
| `Invariance` | `IInv` |
| `TypeCorrect` | `TypeOK` |
| `NotTwice` | `NotPayableTwice` |
| `PaymentKeptOut` | `PushKeepsPaymentOut` |
| `PostedRemembered` | `PostedIsRemembered` |
| `OneSend` | `OneSendAtATime` |
| `SentIsNamed` | `SentHasReference` |
| `WhereNoSendOverlaps` | With SQS, or an ERP that reports nothing: `PostedIsRemembered` (for late requests too) and `PushKeepsPaymentOut` without exception |
| `KeepsThePromise` | `ExportKept` |
| `OnlyAttemptsStrand` | `SendingIsDriven`, if every push handed out for a sending invoice has an attempt left (`PushHasAttempts`) |

`KeepsThePromise` maps the three statuses of a push under way or failed to the holder
`push`, a live payment to `payment`, `possibly_posted` to `noted`, and a bill, a late
request or a task in the adapter to `there`. `CallErp` is `Ask`; a refusal, or a void in
the ERP, is `Settle` when it leaves nothing there and a stutter otherwise, which is where
`TaskRemembers` is needed; a confirmation is `Leave`. `OnlyAttemptsStrand` shows Finding 5
to be the only way, faults apart, to leave an invoice at `sending_to_erp` for good. Its
invariant `DriverInv` says who drives: a task that only finds the invoice sending, without
having loaded it so, may leave by an exception, and is not counted.

### What the abstract specifications are for

`MoneyOut`, `ErpLedger` and `ErpExport` say nothing of the code by themselves. They are
tied to it by the mappings and by `PaysOnce`, `KeepsTheLedger` and `KeepsThePromise`, and
everything listed here is a theorem of `PaymentDispatch`, `PaymentErpSync` or `ErpPush`.

### What is not proved

Liveness (temporal reasoning under fairness, and `ENABLED`) is out of the prover's reach
and only model-checked: `InFlightResolves`, `RequestsEnd`, `PushIsAnswered`. Every safety
property and every refinement that a run checks is a theorem; those that are false of
the code are theorems under the conditions above.

## Findings

1. **An adapter's own failure reply frees the invoice** (`adapter_failure`,
   `NoDoublePayment`). Adapters return `failed` for a lost connection or a 5xx
   (`payment_adapters/column.py:147-162`); `_execute_single_payment` takes that as a
   refusal (`api/payments.py:4635`), nothing is flagged, and another run pays the invoice
   again, although `backend/docs/payments.md:798-799` says that such an order may
   exist. The same doubt arriving as an exception is flagged. It is the only way to two
   payments: `HonestAdaptersPayOnce`.
2. **A pending leg is stranded** (`stranded`, `PendingIsReachable`). Two passes over one
   run; the first skips a row that the second has stamped and its rollup replaces
   `executing` by an outcome (`api/payments.py:4791`); the second dies. The row is
   pending in a run that can be neither resumed, cancelled, retried nor voided, and its
   live slot keeps the invoice out of every other run. The failed leg beside it keeps the
   run from reading `executing` however often its status is derived again. A listing that
   stores its outcome late (Finding 3) does the same to a retry that dies. Nothing else
   does: `LegsStayReachable`.
3. **Listing the runs un-claims one** (`unclaimed`, `ClaimStays`). `GET /runs/` assigns
   the derived status to the runs it loaded (`api/payments.py:3562`) and its session
   commits. A retry that claims a run after it was loaded has its `executing` overwritten
   by an outcome, which is what `CLAIM_RUN_STATUSES` (`payment_runs.py:148-150`,
   `backend/docs/payments.md:1869`) is there to prevent: the pass-through looks at the
   status as loaded. No payment goes out twice for it (`retries`, and the proofs), but a
   second retry may run beside the first, and a crash leaves a run that cannot be resumed.
   Nothing else takes a claim away: `ClaimsStand`.
4. **A bill payment outlives its void** (`void_race`, `VoidReachesErp`).
   `write_back_payment` reads the payment again, commits, then posts
   (`erp_payment_writeback.py:193-204`). A void that fits in between, its ERP void
   included, finds nothing of ours to void, clears the pending marker, and the post then
   creates the payment. The comment at 188-189 names this outcome as the one to avoid.
   Dispatch of a new payment is stopped by `erp_bill_dispatch_refusal`, so nothing is paid
   twice, but the bill payment stays until a person removes it. No other void is lost:
   `VoidsReachErp`.
5. **A send with a used-up counter does nothing** (`erp_push_stuck`, `SendingIsDriven`).
   A push that succeeds on its last attempt leaves `erp_retries` at the maximum
   (`erp.py:537`); only `/retry-erp` resets it. After pay and void the invoice is approved
   again, Send to ERP commits `sending_to_erp`, and the task finds no attempt left
   (`erp.py:494-496`) and returns. `fail_erp_send_not_dispatched`'s docstring
   (`erp.py:598-599`) says why such an invoice is stranded.

Remarks, not checked as findings. The docstring of `recompute_run_status`
(`payment_runs.py:181-183`) lists the processor webhook among its callers; it is not, as
the docstring of `derive_run_status` above it says. The race that `mistaken` marks
(`payment_erp_sync.py:330`) is reachable in the model: the invoice is `paid` while the
payment that put it there is voided and another is in flight; the other's own sync then
finds it paid. A person who records a reported payment under a corrected reference
(`RecordErpPayment`) can void that record without the invoice being blocked, because
`flag_void_of_erp_reported_payment` knows the ERP's payments by their reference; `told`
counts that as the person's doing.

## Not modelled

- **Bank-file (NACHA) runs**: a second file is generated only on request and after a first
  (`run_nacha_export_refusal`), under the next file-ID modifier; export, settling and void
  are single guarded updates of a run. Whether a file was uploaded is known to people only.
- **Run controls** (CFO approval, segregation of duties): refusals, which
  `PaymentDispatch` has as `Refuse`; they never move a payment by themselves.
- **Invoice workflow, review, approval chain; extraction and its reaper; recurring
  invoices**: upstream of `approved`, where all three models start. The approval levels
  are rules over tenant data more than a protocol.
- **Virtual cards**: a refusal in `PaymentDispatch`, a claim in `ErpPush`; their live-card
  slot, charges and cancellation are not there.
- **Post-commit hooks and outbound webhooks**: only what their timing does to the modelled
  parts (`ConfirmHalf`, `Restart`).
- **Discounts, credit memos, budgets**: arithmetic. Where a credit matters (a bill settled
  by one is not a payment) the models choose nondeterministically.
- **Sweeps' scheduling, tenant iteration, sweep health, authentication, rate limits, the
  clients**: no state that the modelled parts rely on.
- Inside the modelled components: the unlocked `recompute_run_status`, the expiry of the
  processor's idempotency keys and lock waits beyond a row's stamp, see the abstractions
  above and the hazards' notes in `PROJECT.json`.
