-------------------------- MODULE ErpPushInvariant --------------------------
(***************************************************************************)
(* The inductive invariant of ErpPush: what its proofs carry from step to  *)
(* step, checked by TLC as an invariant like the properties it implies.    *)
(***************************************************************************)
EXTENDS ErpPush

\* Unless sends overlapped, one task runs at a time.  In lambda mode the queue sees to
\* it, and the message of a running task is still in it; a local dispatch never raises.
Alone ==
    /\ ~overlap => \A t, u \in Tasks : Busy(t) /\ Busy(u) => t = u
    /\ org.queue => ~overlap /\ \A t \in Tasks : Busy(t) => queue > 0
    /\ ~org.queue => refused = 0

\* Local tasks whose tenant has no way into the invoice while they run.
Undisturbed == ~org.queue /\ \/ org.reports = "nothing"
                             \/ org.reports = "sync" /\ faults = 0

\* There the push in progress is one door's, one task's on the loop, or one task's at
\* work, and no door opens before it is over.
OneDriver ==
    Undisturbed =>
        /\ ~overlap
        /\ committed + queue <= 1
        /\ committed + queue > 0 => status = "sending_to_erp"
        /\ \A t \in Tasks : Busy(t) =>
              /\ committed = 0 /\ queue = 0
              /\ \/ status = "sending_to_erp"
                 \/ org.reports = "nothing" /\ status \in {"sent_to_erp", "done"}

\* A task that holds the invoice at sending_to_erp finds it there, or failed.
SendingStands ==
    ~overlap =>
        \A t \in Tasks : Busy(t) /\ seen[t] = "sending_to_erp" =>
            status \in {"sending_to_erp", "failed"}

\* What a running task remembers of the ERP is what the row says, and the doubt is
\* in the row before the call; what earlier attempts left is not this one's doubt.
TaskRemembers ==
    ~overlap =>
        \A t \in Tasks : Busy(t) =>
            /\ mine[t].unknown = stateData.unknown
            /\ mine[t].reference = stateData.reference
            /\ pc[t] \in {"calling", "acted"} => mine[t].unknown
            /\ pc[t] = "calling" /\ (bill \/ late) => prior[t] \/ mine[t].reference

\* A request that may still arrive is remembered like a bill.
LateIsRemembered == ~overlap /\ (bill \/ late) => PossiblyPosted(stateData)

\* Once anything of a push exists, an invoice the ERP never reports on is the ERP's.
Gone == {"sending_to_erp", "sent_to_erp", "done", "failed"}

PushedIsGone ==
    org.reports = "nothing" /\
        (bill \/ late \/ committed + refused + queue > 0 \/ \E t \in Tasks : Busy(t)) =>
            ~paying /\ status \in Gone

\* Only a tenant's webhook tells that a bill was voided.
OnlyTheWebhookTells == cancelled => org.reports = "webhook"

\* A task that runs has an attempt left.
AttemptLeft == \A t \in Tasks : Busy(t) => mine[t].retries < MaxRetries

IInv ==
    /\ TypeOK
    /\ Alone
    /\ OneDriver
    /\ SendingStands
    /\ TaskRemembers
    /\ LateIsRemembered
    /\ PushedIsGone
    /\ OnlyTheWebhookTells
    /\ AttemptLeft
    /\ PushKeepsPaymentOut

(***************************************************************************)
(* What strands a push without a fault: its message is taken up when the   *)
(* attempts of an earlier push, still counting, have used up its own.      *)
(***************************************************************************)

\* A push handed out for a sending invoice has an attempt left.
PushHasAttempts ==
    queue > 0 /\ status = "sending_to_erp" => stateData.retries < MaxRetries

\* Without faults every dispatch is delivered, and a sending invoice is driven by a
\* task that knows it is sending.
DriverInv ==
    faults = 0 =>
        /\ refused = 0
        /\ status = "sending_to_erp" =>
              committed + queue > 0 \/ \E t \in Tasks : Busy(t) /\ seen[t] = "sending_to_erp"
=============================================================================
