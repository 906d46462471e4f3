----------------------- MODULE ErpPushRefinement_proofs -----------------------
(***************************************************************************)
(* ErpPush implements ErpExport, for any number of send tasks, attempts,   *)
(* pushes and faults; and a push that meets no fault is stranded only by   *)
(* attempts used up before it began.                                       *)
(*                                                                         *)
(* Until sends overlap there is one task, so what a step does to the       *)
(* promise is told by four facts: whether the invoice is being pushed, or  *)
(* paid, whether a bill is noted, and whether one is under way.            *)
(***************************************************************************)
EXTENDS ErpPush_proofs

\* The tuples of variables are abbreviations.
USE DEF invoice, doors, task, erp

-----------------------------------------------------------------------------
(* The promise, in the terms of the code *)

Pushed   == status \in {"sending_to_erp", "sent_to_erp", "failed"}
Noted    == PossiblyPosted(stateData)
UnderWay == bill \/ late \/ \E t \in Tasks : pc[t] = "calling"

Holders == {h \in {"push", "payment"} : IF h = "push" THEN Pushed ELSE paying}

\* The variables of ErpExport under the names used here.
LEMMA ExportVars ==
  /\ Export!vars = <<Holders, Noted, UnderWay, overlap>>
  /\ Export!vars' = <<Holders', Noted', UnderWay', overlap'>>
  BY DEF Export!vars, Holders, Pushed, Noted, UnderWay

\* Its step under the same names.
LEMMA ExportNext ==
  Export!Next <=>
    /\ overlap => overlap'
    /\ \/ overlap'
       \/ Holders = {} /\ Holders' \in {{"push"}, {"payment"}} /\ UNCHANGED <<Noted, UnderWay>>
       \/ Holders' = {} /\ UNCHANGED <<Noted, UnderWay>>
       \/ "payment" \notin Holders /\ Noted' = TRUE /\ UnderWay' = TRUE /\ Holders' = Holders
       \/ UnderWay' = FALSE /\ (Noted' => Noted) /\ Holders' = Holders
  BY DEF Export!Next, Export!Take, Export!Leave, Export!Ask, Export!Settle,
         Holders, Pushed, Noted, UnderWay

\* The same holders are the same set.
LEMMA SameHolders ==
  ASSUME Pushed' <=> Pushed, paying' <=> paying
  PROVE  Holders' = Holders
  BY DEF Holders

\* A step after which the four facts are what they were is a stutter.
LEMMA SameExport ==
  ASSUME Pushed' <=> Pushed, paying' <=> paying, Noted' <=> Noted, UnderWay' <=> UnderWay,
         UNCHANGED overlap
  PROVE  UNCHANGED Export!vars
  BY SameHolders, ExportVars DEF Noted, UnderWay, PossiblyPosted

\* Giving the invoice up, or going on with it, is the promise's Leave, or nothing.
LEMMA Leaves ==
  ASSUME UNCHANGED overlap, Noted' <=> Noted, UnderWay' <=> UnderWay,
         ((Pushed' <=> Pushed) /\ (paying' <=> paying)) \/ (~Pushed' /\ ~paying')
  PROVE  [Export!Next]_Export!vars
  <1>1. CASE ~Pushed' /\ ~paying'
    <2>1. Holders' = {}
      BY <1>1 DEF Holders
    <2> QED BY <2>1, ExportNext DEF Noted, UnderWay, PossiblyPosted
  <1> QED BY <1>1, SameExport

\* Until sends overlap, no other task is in the adapter beside t.
LEMMA AloneInAdapter ==
  ASSUME IInv, ~overlap, NEW t \in Tasks, Busy(t)
  PROVE  /\ UnderWay <=> bill \/ late \/ pc[t] = "calling"
         /\ (\E x \in {"idle", "attempt"} : pc' = [pc EXCEPT ![t] = x])
               => (UnderWay' <=> bill' \/ late')
  <1>1. \A u \in Tasks : pc[u] = "calling" => u = t
    BY DEF IInv, Alone, Busy
  <1> QED BY <1>1 DEF UnderWay, IInv, TypeOK

-----------------------------------------------------------------------------
(* The doors, the ERP and the payment side *)

\* A door takes the invoice or holds it already, and its dispatch changes nothing.
LEMMA DoorKept ==
  ASSUME IInv, Door
  PROVE  [Export!Next]_Export!vars
  <1>1. CASE SendToErp
    <2>1. Holders = {} /\ Holders' = {"push"}
      BY <1>1 DEF SendToErp, MayExport, Holders, Pushed
    <2>2. UNCHANGED <<stateData, bill, late, pc, overlap>>
      BY <1>1 DEF SendToErp
    <2> QED BY <2>1, <2>2, ExportNext DEF Noted, UnderWay, PossiblyPosted
  <1>2. CASE ~SendToErp
    <2>1. /\ Pushed' <=> Pushed
          /\ UNCHANGED <<paying, bill, late, pc, overlap>>
          /\ Noted' <=> Noted
      BY <1>2
         DEF Door, RetryErp, Dispatch, DispatchRaises, FailNotDispatched, Pushed, Noted,
             PossiblyPosted, IInv, TypeOK, StateData
    <2>2. UnderWay' <=> UnderWay
      BY <2>1 DEF UnderWay
    <2> QED BY <2>1, <2>2, SameExport
  <1> QED BY <1>1, <1>2

\* A restart leaves what the calls it cut off may still do.
LEMMA RestartKept ==
  ASSUME IInv, Restart
  PROVE  UNCHANGED Export!vars
  <1>1. UNCHANGED <<status, paying, stateData, bill, overlap>>
    BY DEF Restart
  <1>2. UnderWay' <=> UnderWay
    <2>1. CASE org.queue
      BY <2>1 DEF Restart, UnderWay
    <2>2. CASE ~org.queue
      BY <2>2 DEF Restart, UnderWay
    <2> QED BY <2>1, <2>2
  <1> QED BY <1>1, <1>2, SameExport DEF Pushed, Noted

\* The ERP carries out what was under way, or drops its bill; its webhook takes no
\* invoice from the payment side.
LEMMA InTheErpKept ==
  ASSUME IInv, InTheErp
  PROVE  [Export!Next]_Export!vars
  <1>1. CASE ErpActsLate
    BY <1>1, SameExport DEF ErpActsLate, Pushed, Noted, UnderWay
  <1>2. CASE ErpVoidsBill
    <2>1. UNCHANGED <<status, paying, stateData, late, pc, overlap>> /\ bill /\ ~bill'
      BY <1>2 DEF ErpVoidsBill
    <2>2. (Pushed' <=> Pushed) /\ (Noted' <=> Noted) /\ UnderWay
      BY <2>1 DEF Pushed, Noted, UnderWay
    <2>3. CASE UnderWay'
      BY <2>1, <2>2, <2>3, SameExport
    <2>4. CASE ~UnderWay'
      BY <2>1, <2>2, <2>4, SameHolders, ExportNext DEF UnderWay
    <2> QED BY <2>3, <2>4
  <1>3. CASE WebhookCancelled
    BY <1>3, SameExport DEF WebhookCancelled, Pushed, Noted, UnderWay
  <1>4. CASE WebhookOpen
    <2>1. /\ UNCHANGED <<paying, stateData, bill, late, pc, overlap>>
          /\ ~Pushed' /\ status = "sent_to_erp"
      BY <1>4 DEF WebhookOpen, Pushed
    <2>2. (Noted' <=> Noted) /\ (UnderWay' <=> UnderWay)
      BY <2>1 DEF Noted, UnderWay
    <2>3. CASE overlap
      BY <2>1, <2>3, ExportNext
    <2>4. CASE ~overlap
      <3>1. ~paying'
        BY <2>1, <2>4 DEF IInv, PushKeepsPaymentOut
      <3> QED BY <2>1, <2>2, <3>1, Leaves
    <2> QED BY <2>3, <2>4
  <1> QED BY <1>1, <1>2, <1>3, <1>4 DEF InTheErp

\* A payment is staged on an invoice that is nobody's, and leaves it nobody's.
LEMMA PayingKept ==
  ASSUME IInv, Paying
  PROVE  [Export!Next]_Export!vars
  <1>1. /\ UNCHANGED <<stateData, bill, late, pc, overlap>>
        /\ (Noted' <=> Noted) /\ (UnderWay' <=> UnderWay)
    <2>1. UNCHANGED <<stateData, bill, late, pc, overlap>>
      BY DEF Paying, StageRun, ExecutePayment, MarkPaid, VoidPayment, ToggleFlag
    <2> QED BY <2>1 DEF Noted, UnderWay
  <1>2. CASE overlap
    BY <1>1, <1>2, ExportNext
  <1>3. CASE ~overlap
    <2>1. CASE StageRun
      <3>1. Holders = {} /\ Holders' = {"payment"}
        BY <2>1 DEF StageRun, MayStage, Payable, Holders, Pushed
      <3> QED BY <1>1, <1>3, <3>1, ExportNext DEF Noted, UnderWay, PossiblyPosted
    <2>2. CASE VoidPayment
      <3>1. ~Pushed' /\ ~paying'
        BY <1>3, <2>2 DEF VoidPayment, Pushed, IInv, PushKeepsPaymentOut
      <3> QED BY <1>1, <3>1, Leaves
    <2>3. CASE ExecutePayment \/ MarkPaid \/ ToggleFlag
      <3>1. (Pushed' <=> Pushed) /\ UNCHANGED paying
        BY <2>3 DEF ExecutePayment, MarkPaid, ToggleFlag, Payable, Pushed
      <3> QED BY <1>1, <3>1, SameExport
    <2> QED BY <2>1, <2>2, <2>3 DEF Paying
  <1> QED BY <1>2, <1>3

-----------------------------------------------------------------------------
(* The send task *)

\* A send begins unnoticed, unless another is at work.
LEMMA BeginKept ==
  ASSUME IInv, NEW t \in Tasks, Load(t) \/ LoadExhausted(t) \/ LoadWithoutCredentials(t)
  PROVE  [Export!Next]_Export!vars
  <1>1. CASE overlap'
    BY <1>1, ExportNext
  <1>2. CASE ~overlap'
    <2>1. /\ UNCHANGED <<paying, stateData, bill, late>> /\ (Pushed' <=> Pushed)
          /\ overlap' = (overlap \/ \E u \in Tasks \ {t} : Busy(u))
          /\ \/ pc' = pc
             \/ pc[t] = "idle" /\ pc' = [pc EXCEPT ![t] = "attempt"]
      BY DEF Load, LoadExhausted, LoadWithoutCredentials, Begin, MayBegin, Busy, Pushed
    <2>2. UNCHANGED overlap
      BY <1>2, <2>1 DEF IInv, TypeOK
    <2>3. UnderWay' <=> UnderWay
      BY <2>1 DEF UnderWay, IInv, TypeOK
    <2> QED BY <2>1, <2>2, <2>3, SameExport DEF Noted
  <1> QED BY <1>1, <1>2

\* The doubt is committed with the request.
LEMMA CallErpKept ==
  ASSUME IInv, NEW t \in Tasks, CallErp(t)
  PROVE  [Export!Next]_Export!vars
  <1>1. UNCHANGED <<status, paying, bill, late, overlap>> /\ ~paying
    BY DEF CallErp, MayExport
  <1>2. UnderWay'
    BY DEF CallErp, UnderWay, IInv, TypeOK
  <1>3. Noted'
    <2>1. mine[t] \in StateData /\ stateData' = [mine[t] EXCEPT !.unknown = TRUE]
      BY DEF CallErp, DoubtBeforeCall, IInv, TypeOK
    <2> QED BY <2>1 DEF Noted, PossiblyPosted, StateData
  <1>4. Holders' = Holders /\ "payment" \notin Holders
    BY <1>1 DEF Holders, Pushed
  <1> QED BY <1>1, <1>2, <1>3, <1>4, ExportNext DEF UnderWay, Noted, PossiblyPosted

\* A request under way becomes a bill.
LEMMA ErpActsKept ==
  ASSUME IInv, NEW t \in Tasks, ErpActs(t)
  PROVE  UNCHANGED Export!vars
  BY SameExport DEF ErpActs, Pushed, Noted, UnderWay

\* What an attempt that ends in an exception does to the row: the invoice stays the
\* push's, and the note is that of m, or as it was.
LEMMA AttemptFailedRow ==
  ASSUME IInv, ~overlap, NEW t \in Tasks, Busy(t), NEW m \in StateData,
         m.retries = mine[t].retries, NEW final, AttemptFailed(t, m, final)
  PROVE  /\ Pushed' <=> Pushed
         /\ (Noted' <=> PossiblyPosted(m)) \/ (Noted' <=> Noted)
         /\ \E x \in {"idle", "attempt"} : pc' = [pc EXCEPT ![t] = x]
  <1> DEFINE n == [m EXCEPT !.retries = @ + 1]
  <1>1. PossiblyPosted(n) <=> PossiblyPosted(m)
    BY OneMoreAttempt DEF PossiblyPosted, IInv, AttemptLeft
  <1>2. CASE BackOff(t, seen[t], m)
    <2>1. status' = status /\ stateData' = n /\ pc' = [pc EXCEPT ![t] = "attempt"]
      BY <1>2 DEF BackOff
    <2> HIDE DEF n
    <2> QED BY <1>1, <2>1 DEF Pushed, Noted
  <1>3. CASE GiveUp(t, m)
    <2>1. status' = "failed" /\ stateData' = n /\ pc' = [pc EXCEPT ![t] = "idle"]
      BY <1>3 DEF GiveUp, Return, End
    <2>2. status \in {"sending_to_erp", "failed"}
      BY <1>3 DEF GiveUp, IInv, SendingStands
    <2> HIDE DEF n
    <2> QED BY <1>1, <2>1, <2>2 DEF Pushed, Noted
  <1>4. CASE Raise(t)
    BY <1>4 DEF Raise, End, Pushed, Noted
  <1> QED BY <1>2, <1>3, <1>4 DEF AttemptFailed

\* An attempt that fails without an answer leaves what may be under way.
LEMMA UnansweredKept ==
  ASSUME IInv, NEW t \in Tasks, GateRefuses(t) \/ AnswerLost(t) \/ ConfirmRefused(t)
  PROVE  [Export!Next]_Export!vars
  <1>1. /\ UNCHANGED <<paying, bill, overlap>> /\ Busy(t)
        /\ late' <=> late \/ pc[t] = "calling"
        /\ \E m \in {mine[t], Confirmed(t)}, final \in BOOLEAN :
              /\ AttemptFailed(t, m, final)
              /\ m = mine[t] \/ pc[t] = "acted"
    <2>1. CASE GateRefuses(t)
      BY <2>1 DEF GateRefuses, Busy
    <2>2. CASE AnswerLost(t)
      BY <2>2 DEF AnswerLost, Busy
    <2>3. CASE ConfirmRefused(t)
      BY <2>3 DEF ConfirmRefused, Busy
    <2> QED BY <2>1, <2>2, <2>3
  <1>2. CASE overlap
    BY <1>1, <1>2, ExportNext
  <1>3. CASE ~overlap
    <2>1. PICK m \in {mine[t], Confirmed(t)}, final \in BOOLEAN :
              AttemptFailed(t, m, final) /\ (m = mine[t] \/ pc[t] = "acted")
      BY <1>1
    <2>2. mine[t] \in StateData /\ (PossiblyPosted(mine[t]) <=> Noted)
      BY <1>1, <1>3 DEF IInv, TypeOK, TaskRemembers, Noted, PossiblyPosted
    <2>3. pc[t] = "acted" => Noted
      BY <1>1, <1>3, <2>2 DEF IInv, TaskRemembers, PossiblyPosted
    <2>4. /\ Confirmed(t) \in StateData /\ PossiblyPosted(Confirmed(t))
          /\ Confirmed(t).retries = mine[t].retries
      BY <2>2 DEF Confirmed, StateData, PossiblyPosted
    <2>5. m \in StateData /\ m.retries = mine[t].retries /\ (PossiblyPosted(m) <=> Noted)
      BY <2>1, <2>2, <2>3, <2>4
    <2>6. /\ (Pushed' <=> Pushed) /\ (Noted' <=> Noted)
          /\ \E x \in {"idle", "attempt"} : pc' = [pc EXCEPT ![t] = x]
      BY <1>1, <1>3, <2>1, <2>5, AttemptFailedRow
    <2>7. UnderWay' <=> UnderWay
      BY <1>1, <1>3, <2>6, AloneInAdapter
    <2> QED BY <1>1, <2>6, <2>7, SameExport
  <1> QED BY <1>2, <1>3

\* A refusal settles the doubt of its own call only.
LEMMA ErpRefusesKept ==
  ASSUME IInv, NEW t \in Tasks, ErpRefuses(t)
  PROVE  [Export!Next]_Export!vars
  <1> DEFINE m == [mine[t] EXCEPT !.unknown = prior[t]]
  <1>1. UNCHANGED <<paying, bill, late, overlap>> /\ Busy(t) /\ pc[t] = "calling"
    BY DEF ErpRefuses, Busy
  <1>2. CASE overlap
    BY <1>1, <1>2, ExportNext
  <1>3. CASE ~overlap
    <2>1. PICK final \in BOOLEAN : AttemptFailed(t, m, final)
      BY DEF ErpRefuses, AfterRefusal
    <2>2. /\ mine[t] \in StateData /\ prior[t] \in BOOLEAN
          /\ mine[t].unknown /\ mine[t].unknown = stateData.unknown
          /\ bill \/ late => prior[t] \/ mine[t].reference
      BY <1>1, <1>3 DEF IInv, TypeOK, TaskRemembers
    <2>3. /\ m \in StateData /\ m.retries = mine[t].retries
          /\ bill \/ late => PossiblyPosted(m)
      BY <2>2 DEF StateData, PossiblyPosted
    <2>4. Noted /\ UnderWay
      BY <1>1, <2>2 DEF Noted, PossiblyPosted, UnderWay
    <2>5. /\ Pushed' <=> Pushed
          /\ (Noted' <=> PossiblyPosted(m)) \/ (Noted' <=> Noted)
          /\ \E x \in {"idle", "attempt"} : pc' = [pc EXCEPT ![t] = x]
      <3> HIDE DEF m
      <3> QED BY <1>1, <1>3, <2>1, <2>3, AttemptFailedRow
    <2>6. UnderWay' <=> bill \/ late
      BY <1>1, <1>3, <2>5, AloneInAdapter
    <2> HIDE DEF m
    <2>7. CASE bill \/ late
      BY <1>1, <2>3, <2>4, <2>5, <2>6, <2>7, SameExport
    <2>8. CASE ~(bill \/ late)
      BY <1>1, <1>3, <2>4, <2>5, <2>6, <2>8, SameHolders, ExportNext DEF UnderWay
    <2> QED BY <2>7, <2>8
  <1> QED BY <1>2, <1>3

\* A success, or half of one, notes the bill for good and may let the invoice go.
LEMMA ConfirmKept ==
  ASSUME IInv, NEW t \in Tasks, Confirm(t) \/ ConfirmHalf(t)
  PROVE  [Export!Next]_Export!vars
  <1> DEFINE n == [Confirmed(t) EXCEPT !.retries = @ + 1]
  <1>1. UNCHANGED <<paying, bill, late, overlap>> /\ pc[t] = "acted" /\ Busy(t) /\ seen[t] = "sending_to_erp"
    BY DEF Confirm, ConfirmHalf, Busy
  <1>2. CASE overlap
    BY <1>1, <1>2, ExportNext
  <1>3. CASE ~overlap
    <2>1. Noted /\ mine[t] \in StateData
      BY <1>1, <1>3 DEF IInv, TypeOK, TaskRemembers, Noted, PossiblyPosted
    <2>2. status \in {"sending_to_erp", "failed"} /\ Pushed
      BY <1>1, <1>3 DEF IInv, SendingStands, Pushed
    <2>3. ~paying
      BY <1>3, <2>2 DEF IInv, PushKeepsPaymentOut
    <2>4. PossiblyPosted(n)
      BY <2>1 DEF Confirmed, StateData, PossiblyPosted
    <2>5. /\ stateData' \in {n, stateData}
          /\ status' \in {status, "sent_to_erp", Landing}
          /\ \E x \in {"idle", "attempt"} : pc' = [pc EXCEPT ![t] = x]
      BY DEF Confirm, ConfirmHalf, BackOff, Return, Raise, End
    <2> HIDE DEF n
    <2>6. Noted' <=> Noted
      <3>1. PossiblyPosted(stateData')
        BY <2>1, <2>4, <2>5 DEF Noted
      <3> QED BY <2>1, <3>1 DEF Noted, PossiblyPosted
    <2>7. UnderWay' <=> UnderWay
      BY <1>1, <1>3, <2>5, AloneInAdapter
    <2>8. (Pushed' <=> Pushed) \/ ~Pushed'
      BY <2>2
    <2> QED BY <1>1, <2>3, <2>6, <2>7, <2>8, Leaves
  <1> QED BY <1>2, <1>3

\* A task that dies leaves its request under way.
LEMMA DieKept ==
  ASSUME IInv, NEW t \in Tasks, Die(t)
  PROVE  [Export!Next]_Export!vars
  <1>1. /\ UNCHANGED <<status, paying, stateData, bill, overlap>> /\ Busy(t)
        /\ late' <=> late \/ pc[t] = "calling"
        /\ pc' = [pc EXCEPT ![t] = "idle"]
    BY DEF Die, Raise, End
  <1>2. CASE overlap
    BY <1>1, <1>2, ExportNext
  <1>3. CASE ~overlap
    <2>1. UnderWay' <=> UnderWay
      BY <1>1, <1>3, AloneInAdapter
    <2> QED BY <1>1, <2>1, SameExport DEF Pushed, Noted
  <1> QED BY <1>2, <1>3

\* Every step keeps the promise.
LEMMA NextKept ==
  ASSUME IInv, [Next]_vars
  PROVE  [Export!Next]_Export!vars
  <1>1. CASE UNCHANGED vars
    BY <1>1, SameExport DEF vars, Pushed, Noted, UnderWay
  <1>2. ASSUME NEW t \in Tasks, Sending(t)
        PROVE  [Export!Next]_Export!vars
    BY <1>2, BeginKept, CallErpKept, ErpActsKept, UnansweredKept, ErpRefusesKept, ConfirmKept,
       DieKept DEF Sending, Proceed
  <1> QED BY <1>1, <1>2, DoorKept, RestartKept, InTheErpKept, PayingKept DEF Next

-----------------------------------------------------------------------------
(* What strands a push *)

\* A door drives what it makes sending, and hands it over.
LEMMA DoorDrives ==
  ASSUME IInv, DriverInv, Door
  PROVE  DriverInv'
  <1>1. committed \in Nat /\ refused \in Nat /\ queue \in Nat /\ faults \in Nat
    BY BoundsAreNatural DEF IInv, TypeOK
  <1>2. faults' = 0 => faults = 0
    BY <1>1 DEF Door, SendToErp, RetryErp, Dispatch, DispatchRaises, FailNotDispatched, Fault
  <1> SUFFICES ASSUME faults' = 0, faults = 0, refused = 0 PROVE DriverInv'
    BY <1>2 DEF DriverInv
  <1>3. CASE SendToErp \/ RetryErp
    BY <1>1, <1>3 DEF SendToErp, RetryErp, DriverInv
  <1>4. CASE Dispatch
    BY <1>1, <1>4 DEF Dispatch, DriverInv
  <1>5. ~DispatchRaises /\ ~FailNotDispatched
    BY DEF DispatchRaises, Fault, FailNotDispatched
  <1> QED BY <1>3, <1>4, <1>5 DEF Door

\* A task that lets a sending invoice go was not the one that drove it.
LEMMA TaskDrives ==
  ASSUME IInv, DriverInv, PushHasAttempts, NEW t \in Tasks, Sending(t)
  PROVE  DriverInv'
  <1> USE DEF Busy
  <1>1. committed \in Nat /\ refused \in Nat /\ queue \in Nat /\ faults \in Nat
        /\ pc \in [Tasks -> PC] /\ seen \in [Tasks -> Status]
    BY BoundsAreNatural DEF IInv, TypeOK
  <1>2. UNCHANGED doors /\ (faults' = 0 => faults = 0)
    <2>1. faults' = faults \/ faults' = faults + 1
      BY DEF Sending, Proceed, Load, LoadExhausted, LoadWithoutCredentials, GateRefuses, CallErp,
             ErpActs, ErpRefuses, AnswerLost, AttemptFailed, GiveUp, Return, Fault, Confirm,
             ConfirmRefused, ConfirmHalf, Die
    <2>2. UNCHANGED doors
      BY DEF Sending, Proceed, Load, LoadExhausted, LoadWithoutCredentials, GateRefuses, CallErp,
             ErpActs, ErpRefuses, AnswerLost, Confirm, ConfirmRefused, ConfirmHalf, Die
    <2> QED BY <1>1, <2>1, <2>2
  <1> SUFFICES ASSUME faults = 0, faults' = 0, refused = 0, status' = "sending_to_erp"
               PROVE  committed + queue' > 0
                      \/ \E u \in Tasks : pc'[u] # "idle" /\ seen'[u] = "sending_to_erp"
    BY <1>2 DEF DriverInv
  <1>3. ASSUME status = "sending_to_erp", queue' = queue,
               \/ pc'[t] # "idle" /\ seen'[t] = seen[t]
               \/ seen[t] # "sending_to_erp",
               \A u \in Tasks \ {t} : pc'[u] = pc[u] /\ seen'[u] = seen[u]
        PROVE  committed + queue' > 0
               \/ \E u \in Tasks : pc'[u] # "idle" /\ seen'[u] = "sending_to_erp"
    BY <1>3 DEF DriverInv
  <1>4. ASSUME NEW m, NEW final, AttemptFailed(t, m, final)
        PROVE  committed + queue' > 0
               \/ \E u \in Tasks : pc'[u] # "idle" /\ seen'[u] = "sending_to_erp"
    <2>1. ~GiveUp(t, m)
      BY DEF GiveUp
    <2>2. CASE BackOff(t, seen[t], m)
      BY <1>1, <1>3, <2>2 DEF BackOff
    <2>3. CASE Raise(t) /\ seen[t] # "sending_to_erp"
      BY <1>1, <1>3, <2>3 DEF Raise, End
    <2> QED BY <1>4, <2>1, <2>2, <2>3 DEF AttemptFailed
  <1>5. CASE Load(t)
    BY <1>1, <1>5 DEF Load, Begin, MayBegin
  <1>6. ~LoadExhausted(t) /\ ~LoadWithoutCredentials(t)
    BY MaxRetriesIsPositive
       DEF LoadExhausted, LoadWithoutCredentials, Begin, MayBegin, PushHasAttempts
  <1>7. ~Confirm(t) /\ ~ConfirmHalf(t) /\ ~Die(t)
    BY DEF Confirm, Landing, ConfirmHalf, Die, Fault
  <1>8. CASE CallErp(t) \/ ErpActs(t)
    BY <1>1, <1>3, <1>8 DEF CallErp, ErpActs
  <1>9. CASE GateRefuses(t) \/ ErpRefuses(t) \/ AnswerLost(t) \/ ConfirmRefused(t)
    BY <1>4, <1>9 DEF GateRefuses, ErpRefuses, AnswerLost, ConfirmRefused
  <1> QED BY <1>5, <1>6, <1>7, <1>8, <1>9 DEF Sending, Proceed

\* Nothing else touches a driver, or makes an invoice sending.
LEMMA OthersDrive ==
  ASSUME IInv, DriverInv, Restart \/ InTheErp \/ Paying \/ UNCHANGED vars
  PROVE  DriverInv'
  <1>1. CASE Restart
    BY <1>1, BoundsAreNatural DEF Restart, Fault, IInv, TypeOK, DriverInv
  <1>2. CASE InTheErp \/ Paying \/ UNCHANGED vars
    <2>1. /\ UNCHANGED <<committed, refused, queue, pc, seen, faults>>
          /\ status' = "sending_to_erp" => status = "sending_to_erp"
      BY <1>2
         DEF InTheErp, ErpActsLate, ErpVoidsBill, WebhookCancelled, WebhookOpen, Paying, StageRun,
             ExecutePayment, MarkPaid, VoidPayment, ToggleFlag, vars
    <2> QED BY <2>1 DEF DriverInv, Busy
  <1> QED BY <1>1, <1>2

-----------------------------------------------------------------------------
(* The theorems *)

\* The push implements ErpExport: the invoice is handed between the push and the
\* payment side only through nobody, and the ERP is asked only for what is noted
\* (start_erp_send, _call_erp, create_payment_run_for_invoices, void_payment).
THEOREM KeepsThePromise == Spec => ExportKept
  <1>1. Init => Export!Init
    BY DEF Init, Export!Init, PossiblyPosted, NoAttempt
  <1>2. IInv /\ [Next]_vars => [Export!Next]_Export!vars
    BY NextKept
  <1> QED BY <1>1, <1>2, Invariance, PTL DEF Spec, ExportKept, Export!Spec

\* Without faults, an invoice is left at sending_to_erp with nobody to drive it only
\* by a push whose attempts an earlier one has used up (send_to_erp_internal's
\* range(retry_count, MAX_RETRIES)): no refusal, lost answer, redelivery, webhook
\* or order of the doors does it.
THEOREM OnlyAttemptsStrand == Spec /\ []PushHasAttempts => []SendingIsDriven
  <1>1. Init => DriverInv
    BY DEF Init, DriverInv
  <1>2. IInv /\ DriverInv /\ PushHasAttempts /\ [Next]_vars => DriverInv'
    BY DoorDrives, TaskDrives, OthersDrive DEF Next
  <1>3. DriverInv => SendingIsDriven
    BY DEF DriverInv, SendingIsDriven
  <1> QED BY <1>1, <1>2, <1>3, Invariance, PTL DEF Spec
=============================================================================
