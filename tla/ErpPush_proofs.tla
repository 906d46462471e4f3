--------------------------- MODULE ErpPush_proofs ---------------------------
(***************************************************************************)
(* Proofs about ErpPush, for every value of its constants: the invariant   *)
(* of ErpPushInvariant is inductive, and implies type correctness and the  *)
(* safety properties.  There is a lemma per action; the commits in which   *)
(* a send task backs off, returns or raises have lemmas of their own, and  *)
(* the actions that end in one of them cite those.                         *)
(***************************************************************************)
EXTENDS ErpPushInvariant, TLAPS

-----------------------------------------------------------------------------
(* The doors, the ERP and the payment side *)

\* A door opens on an approved invoice with no live payment: none of its pushes is left.
LEMMA SendToErpKeeps == ASSUME IInv, SendToErp PROVE IInv'
<1> USE DEF SendToErp, Room, MayExport, task, erp
<1>1. TypeOK'
  BY DEF IInv, TypeOK, Status
<1>2. Alone'
  BY DEF IInv, TypeOK, Alone, Busy
<1>3. OneDriver'
  BY DEF IInv, TypeOK, Alone, OneDriver, OnlyTheWebhookTells, Undisturbed, Busy
<1>4. SendingStands'
  BY DEF IInv, TypeOK, Alone, SendingStands, Busy
<1>5. TaskRemembers'
  BY DEF IInv, TypeOK, Alone, TaskRemembers, LateIsRemembered, PossiblyPosted, Busy
<1>6. LateIsRemembered'
  BY DEF IInv, TypeOK, TaskRemembers, LateIsRemembered, PossiblyPosted, Busy
<1>7. PushedIsGone'
  BY DEF IInv, TypeOK, PushedIsGone, Gone, Busy
<1>8. OnlyTheWebhookTells'
  BY DEF IInv, OnlyTheWebhookTells
<1>9. AttemptLeft'
  BY DEF IInv, TypeOK, AttemptLeft, Busy
<1>10. PushKeepsPaymentOut'
  BY DEF IInv, TypeOK, PushKeepsPaymentOut, SendingStands, Busy
<1> QED
  BY <1>1, <1>2, <1>3, <1>4, <1>5, <1>6, <1>7, <1>8, <1>9, <1>10 DEF IInv

\* A retry changes the counter only, and nothing of what is remembered.
LEMMA RetryErpKeeps == ASSUME IInv, RetryErp PROVE IInv'
<1> USE DEF RetryErp, Room, MayExport, task, erp
<1>1. TypeOK'
  BY MaxRetriesIsPositive DEF IInv, TypeOK, Status, StateData
<1>2. Alone'
  BY DEF IInv, TypeOK, Alone, Busy
<1>3. OneDriver'
  BY DEF IInv, TypeOK, Alone, OneDriver, OnlyTheWebhookTells, Undisturbed, Busy
<1>4. SendingStands'
  BY DEF IInv, TypeOK, Alone, SendingStands, Busy
<1>5. TaskRemembers'
  BY DEF IInv, TypeOK, Alone, TaskRemembers, LateIsRemembered, PossiblyPosted, Busy
<1>6. LateIsRemembered'
  BY DEF IInv, TypeOK, TaskRemembers, LateIsRemembered, PossiblyPosted, Busy
<1>7. PushedIsGone'
  BY DEF IInv, TypeOK, PushedIsGone, Gone, Busy
<1>8. OnlyTheWebhookTells'
  BY DEF IInv, OnlyTheWebhookTells
<1>9. AttemptLeft'
  BY DEF IInv, TypeOK, AttemptLeft, Busy
<1>10. PushKeepsPaymentOut'
  BY DEF IInv, TypeOK, PushKeepsPaymentOut, SendingStands, Busy
<1> QED
  BY <1>1, <1>2, <1>3, <1>4, <1>5, <1>6, <1>7, <1>8, <1>9, <1>10 DEF IInv

\* A dispatch moves the driver from the door to the queue.
LEMMA DispatchKeeps == ASSUME IInv, Dispatch PROVE IInv'
<1> USE DEF Dispatch, invoice, task, erp
<1>1. TypeOK'
  BY DEF IInv, TypeOK
<1>2. Alone'
  BY DEF IInv, TypeOK, Alone, Busy
<1>3. OneDriver'
  BY DEF IInv, TypeOK, Alone, OneDriver, OnlyTheWebhookTells, Undisturbed, Busy
<1>4. SendingStands'
  BY DEF IInv, TypeOK, Alone, SendingStands, Busy
<1>5. TaskRemembers'
  BY DEF IInv, TypeOK, Alone, TaskRemembers, LateIsRemembered, PossiblyPosted, Busy
<1>6. LateIsRemembered'
  BY DEF IInv, TypeOK, TaskRemembers, LateIsRemembered, PossiblyPosted, Busy
<1>7. PushedIsGone'
  BY DEF IInv, TypeOK, PushedIsGone, Gone, Busy
<1>8. OnlyTheWebhookTells'
  BY DEF IInv, OnlyTheWebhookTells
<1>9. AttemptLeft'
  BY DEF IInv, TypeOK, AttemptLeft, Busy
<1>10. PushKeepsPaymentOut'
  BY DEF IInv, TypeOK, PushKeepsPaymentOut, SendingStands, Busy
<1> QED
  BY <1>1, <1>2, <1>3, <1>4, <1>5, <1>6, <1>7, <1>8, <1>9, <1>10 DEF IInv

\* Only SQS raises.
LEMMA DispatchRaisesKeeps == ASSUME IInv, DispatchRaises PROVE IInv'
<1> USE DEF DispatchRaises, Fault, invoice, task, erp
<1>1. TypeOK'
  BY BoundsAreNatural DEF IInv, TypeOK
<1>2. Alone'
  BY DEF IInv, TypeOK, Alone, Busy
<1>3. OneDriver'
  BY DEF IInv, TypeOK, Alone, OneDriver, OnlyTheWebhookTells, Undisturbed, Busy
<1>4. SendingStands'
  BY DEF IInv, TypeOK, Alone, SendingStands, Busy
<1>5. TaskRemembers'
  BY DEF IInv, TypeOK, Alone, TaskRemembers, LateIsRemembered, PossiblyPosted, Busy
<1>6. LateIsRemembered'
  BY DEF IInv, TypeOK, TaskRemembers, LateIsRemembered, PossiblyPosted, Busy
<1>7. PushedIsGone'
  BY DEF IInv, TypeOK, PushedIsGone, Gone, Busy
<1>8. OnlyTheWebhookTells'
  BY DEF IInv, OnlyTheWebhookTells
<1>9. AttemptLeft'
  BY DEF IInv, TypeOK, AttemptLeft, Busy
<1>10. PushKeepsPaymentOut'
  BY DEF IInv, TypeOK, PushKeepsPaymentOut, SendingStands, Busy
<1> QED
  BY <1>1, <1>2, <1>3, <1>4, <1>5, <1>6, <1>7, <1>8, <1>9, <1>10 DEF IInv

\* The door records its failure only on an invoice still sending.
LEMMA FailNotDispatchedKeeps == ASSUME IInv, FailNotDispatched PROVE IInv'
<1> USE DEF FailNotDispatched, task, erp
<1>1. TypeOK'
  BY DEF IInv, TypeOK, Status
<1>2. Alone'
  BY DEF IInv, TypeOK, Alone, Busy
<1>3. OneDriver'
  BY DEF IInv, TypeOK, Alone, OneDriver, OnlyTheWebhookTells, Undisturbed, Busy
<1>4. SendingStands'
  BY DEF IInv, TypeOK, Alone, SendingStands, Busy
<1>5. TaskRemembers'
  BY DEF IInv, TypeOK, Alone, TaskRemembers, LateIsRemembered, PossiblyPosted, Busy
<1>6. LateIsRemembered'
  BY DEF IInv, TypeOK, TaskRemembers, LateIsRemembered, PossiblyPosted, Busy
<1>7. PushedIsGone'
  BY DEF IInv, TypeOK, PushedIsGone, Gone, Busy
<1>8. OnlyTheWebhookTells'
  BY DEF IInv, OnlyTheWebhookTells
<1>9. AttemptLeft'
  BY DEF IInv, TypeOK, AttemptLeft, Busy
<1>10. PushKeepsPaymentOut'
  BY DEF IInv, TypeOK, PushKeepsPaymentOut, SendingStands, Busy
<1> QED
  BY <1>1, <1>2, <1>3, <1>4, <1>5, <1>6, <1>7, <1>8, <1>9, <1>10 DEF IInv

\* After a restart no local task and no undispatched door is left.
LEMMA RestartKeeps == ASSUME IInv, Restart PROVE IInv'
<1> USE DEF Restart, Fault, invoice, task
<1>1. TypeOK'
  <2>1. NoAttempt \in StateData /\ faults' \in 0 .. MaxFaults /\ queue' \in Nat
    BY BoundsAreNatural, MaxRetriesIsPositive DEF IInv, TypeOK, StateData, NoAttempt
  <2>2. /\ pc' \in [Tasks -> PC] /\ seen' \in [Tasks -> Status]
        /\ mine' \in [Tasks -> StateData] /\ prior' \in [Tasks -> BOOLEAN]
    <3>1. CASE org.queue
      BY <3>1 DEF IInv, TypeOK
    <3>2. CASE ~org.queue
      <4>1. "idle" \in PC /\ "approved" \in Status
        BY DEF PC, Status
      <4> QED
        BY <2>1, <3>2, <4>1
    <3> QED
      BY <3>1, <3>2
  <2> QED
    BY <2>1, <2>2 DEF IInv, TypeOK
<1>2. Alone'
  BY DEF IInv, TypeOK, Alone, Busy
<1>3. OneDriver'
  BY DEF IInv, TypeOK, Alone, OneDriver, OnlyTheWebhookTells, Undisturbed, Busy
<1>4. SendingStands'
  BY DEF IInv, TypeOK, Alone, SendingStands, Busy
<1>5. TaskRemembers'
  BY DEF IInv, TypeOK, Alone, TaskRemembers, LateIsRemembered, PossiblyPosted, Busy
<1>6. LateIsRemembered'
  BY DEF IInv, TypeOK, TaskRemembers, LateIsRemembered, PossiblyPosted, Busy
<1>7. PushedIsGone'
  BY DEF IInv, TypeOK, PushedIsGone, Gone, Busy
<1>8. OnlyTheWebhookTells'
  BY DEF IInv, OnlyTheWebhookTells
<1>9. AttemptLeft'
  BY DEF IInv, TypeOK, AttemptLeft, Busy
<1>10. PushKeepsPaymentOut'
  BY DEF IInv, TypeOK, PushKeepsPaymentOut, SendingStands, Busy
<1> QED
  BY <1>1, <1>2, <1>3, <1>4, <1>5, <1>6, <1>7, <1>8, <1>9, <1>10 DEF IInv

\* The late request was remembered before its bill.
LEMMA ErpActsLateKeeps == ASSUME IInv, ErpActsLate PROVE IInv'
<1> USE DEF ErpActsLate, invoice, doors, task
<1>1. TypeOK'
  BY DEF IInv, TypeOK
<1>2. Alone'
  BY DEF IInv, TypeOK, Alone, Busy
<1>3. OneDriver'
  BY DEF IInv, TypeOK, Alone, OneDriver, OnlyTheWebhookTells, Undisturbed, Busy
<1>4. SendingStands'
  BY DEF IInv, TypeOK, Alone, SendingStands, Busy
<1>5. TaskRemembers'
  BY DEF IInv, TypeOK, Alone, TaskRemembers, LateIsRemembered, PossiblyPosted, Busy
<1>6. LateIsRemembered'
  BY DEF IInv, TypeOK, TaskRemembers, LateIsRemembered, PossiblyPosted, Busy
<1>7. PushedIsGone'
  BY DEF IInv, TypeOK, PushedIsGone, Gone, Busy
<1>8. OnlyTheWebhookTells'
  BY DEF IInv, OnlyTheWebhookTells
<1>9. AttemptLeft'
  BY DEF IInv, TypeOK, AttemptLeft, Busy
<1>10. PushKeepsPaymentOut'
  BY DEF IInv, TypeOK, PushKeepsPaymentOut, SendingStands, Busy
<1> QED
  BY <1>1, <1>2, <1>3, <1>4, <1>5, <1>6, <1>7, <1>8, <1>9, <1>10 DEF IInv

\* A bill the less.
LEMMA ErpVoidsBillKeeps == ASSUME IInv, ErpVoidsBill PROVE IInv'
<1> USE DEF ErpVoidsBill, invoice, doors, task
<1>1. TypeOK'
  BY DEF IInv, TypeOK
<1>2. Alone'
  BY DEF IInv, TypeOK, Alone, Busy
<1>3. OneDriver'
  BY DEF IInv, TypeOK, Alone, OneDriver, OnlyTheWebhookTells, Undisturbed, Busy
<1>4. SendingStands'
  BY DEF IInv, TypeOK, Alone, SendingStands, Busy
<1>5. TaskRemembers'
  BY DEF IInv, TypeOK, Alone, TaskRemembers, LateIsRemembered, PossiblyPosted, Busy
<1>6. LateIsRemembered'
  BY DEF IInv, TypeOK, TaskRemembers, LateIsRemembered, PossiblyPosted, Busy
<1>7. PushedIsGone'
  BY DEF IInv, TypeOK, PushedIsGone, Gone, Busy
<1>8. OnlyTheWebhookTells'
  BY DEF IInv, OnlyTheWebhookTells
<1>9. AttemptLeft'
  BY DEF IInv, TypeOK, AttemptLeft, Busy
<1>10. PushKeepsPaymentOut'
  BY DEF IInv, TypeOK, PushKeepsPaymentOut, SendingStands, Busy
<1> QED
  BY <1>1, <1>2, <1>3, <1>4, <1>5, <1>6, <1>7, <1>8, <1>9, <1>10 DEF IInv

\* The webhook fails an invoice still sending; it exists only for tenants it is set up for.
LEMMA WebhookCancelledKeeps == ASSUME IInv, WebhookCancelled PROVE IInv'
<1> USE DEF WebhookCancelled, doors, task
<1>1. TypeOK'
  BY DEF IInv, TypeOK, Status
<1>2. Alone'
  BY DEF IInv, TypeOK, Alone, Busy
<1>3. OneDriver'
  BY DEF IInv, TypeOK, Alone, OneDriver, OnlyTheWebhookTells, Undisturbed, Busy
<1>4. SendingStands'
  BY DEF IInv, TypeOK, Alone, SendingStands, Busy
<1>5. TaskRemembers'
  BY DEF IInv, TypeOK, Alone, TaskRemembers, LateIsRemembered, PossiblyPosted, Busy
<1>6. LateIsRemembered'
  BY DEF IInv, TypeOK, TaskRemembers, LateIsRemembered, PossiblyPosted, Busy
<1>7. PushedIsGone'
  BY DEF IInv, TypeOK, PushedIsGone, Gone, Busy
<1>8. OnlyTheWebhookTells'
  BY DEF IInv, OnlyTheWebhookTells
<1>9. AttemptLeft'
  BY DEF IInv, TypeOK, AttemptLeft, Busy
<1>10. PushKeepsPaymentOut'
  BY DEF IInv, TypeOK, PushKeepsPaymentOut, SendingStands, Busy
<1> QED
  BY <1>1, <1>2, <1>3, <1>4, <1>5, <1>6, <1>7, <1>8, <1>9, <1>10 DEF IInv

\* The webhook moves on what a task left half confirmed.
LEMMA WebhookOpenKeeps == ASSUME IInv, WebhookOpen PROVE IInv'
<1> USE DEF WebhookOpen, doors, task, erp
<1>1. TypeOK'
  BY DEF IInv, TypeOK, Status
<1>2. Alone'
  BY DEF IInv, TypeOK, Alone, Busy
<1>3. OneDriver'
  BY DEF IInv, TypeOK, Alone, OneDriver, OnlyTheWebhookTells, Undisturbed, Busy
<1>4. SendingStands'
  BY DEF IInv, TypeOK, Alone, SendingStands, Busy
<1>5. TaskRemembers'
  BY DEF IInv, TypeOK, Alone, TaskRemembers, LateIsRemembered, PossiblyPosted, Busy
<1>6. LateIsRemembered'
  BY DEF IInv, TypeOK, TaskRemembers, LateIsRemembered, PossiblyPosted, Busy
<1>7. PushedIsGone'
  BY DEF IInv, TypeOK, PushedIsGone, Gone, Busy
<1>8. OnlyTheWebhookTells'
  BY DEF IInv, OnlyTheWebhookTells
<1>9. AttemptLeft'
  BY DEF IInv, TypeOK, AttemptLeft, Busy
<1>10. PushKeepsPaymentOut'
  BY DEF IInv, TypeOK, PushKeepsPaymentOut, SendingStands, Busy
<1> QED
  BY <1>1, <1>2, <1>3, <1>4, <1>5, <1>6, <1>7, <1>8, <1>9, <1>10 DEF IInv

\* A run is staged on a payable invoice, which no push holds.
LEMMA StageRunKeeps == ASSUME IInv, StageRun PROVE IInv'
<1> USE DEF StageRun, MayStage, Payable, doors, task, erp
<1>1. TypeOK'
  BY DEF IInv, TypeOK
<1>2. Alone'
  BY DEF IInv, TypeOK, Alone, Busy
<1>3. OneDriver'
  BY DEF IInv, TypeOK, Alone, OneDriver, OnlyTheWebhookTells, Undisturbed, Busy
<1>4. SendingStands'
  BY DEF IInv, TypeOK, Alone, SendingStands, Busy
<1>5. TaskRemembers'
  BY DEF IInv, TypeOK, Alone, TaskRemembers, LateIsRemembered, PossiblyPosted, Busy
<1>6. LateIsRemembered'
  BY DEF IInv, TypeOK, TaskRemembers, LateIsRemembered, PossiblyPosted, Busy
<1>7. PushedIsGone'
  BY DEF IInv, TypeOK, PushedIsGone, Gone, Busy
<1>8. OnlyTheWebhookTells'
  BY DEF IInv, OnlyTheWebhookTells
<1>9. AttemptLeft'
  BY DEF IInv, TypeOK, AttemptLeft, Busy
<1>10. PushKeepsPaymentOut'
  BY DEF IInv, TypeOK, PushKeepsPaymentOut, SendingStands, Busy
<1> QED
  BY <1>1, <1>2, <1>3, <1>4, <1>5, <1>6, <1>7, <1>8, <1>9, <1>10 DEF IInv

\* A payment moves an invoice that is payable.
LEMMA ExecutePaymentKeeps == ASSUME IInv, ExecutePayment PROVE IInv'
<1> USE DEF ExecutePayment, Payable, doors, task, erp
<1>1. TypeOK'
  BY DEF IInv, TypeOK, Status
<1>2. Alone'
  BY DEF IInv, TypeOK, Alone, Busy
<1>3. OneDriver'
  BY DEF IInv, TypeOK, Alone, OneDriver, OnlyTheWebhookTells, Undisturbed, Busy
<1>4. SendingStands'
  BY DEF IInv, TypeOK, Alone, SendingStands, Busy
<1>5. TaskRemembers'
  BY DEF IInv, TypeOK, Alone, TaskRemembers, LateIsRemembered, PossiblyPosted, Busy
<1>6. LateIsRemembered'
  BY DEF IInv, TypeOK, TaskRemembers, LateIsRemembered, PossiblyPosted, Busy
<1>7. PushedIsGone'
  BY DEF IInv, TypeOK, PushedIsGone, Gone, Busy
<1>8. OnlyTheWebhookTells'
  BY DEF IInv, OnlyTheWebhookTells
<1>9. AttemptLeft'
  BY DEF IInv, TypeOK, AttemptLeft, Busy
<1>10. PushKeepsPaymentOut'
  BY DEF IInv, TypeOK, PushKeepsPaymentOut, SendingStands, Busy
<1> QED
  BY <1>1, <1>2, <1>3, <1>4, <1>5, <1>6, <1>7, <1>8, <1>9, <1>10 DEF IInv

\* A settled payment moves an invoice that is scheduled.
LEMMA MarkPaidKeeps == ASSUME IInv, MarkPaid PROVE IInv'
<1> USE DEF MarkPaid, doors, task, erp
<1>1. TypeOK'
  BY DEF IInv, TypeOK, Status
<1>2. Alone'
  BY DEF IInv, TypeOK, Alone, Busy
<1>3. OneDriver'
  BY DEF IInv, TypeOK, Alone, OneDriver, OnlyTheWebhookTells, Undisturbed, Busy
<1>4. SendingStands'
  BY DEF IInv, TypeOK, Alone, SendingStands, Busy
<1>5. TaskRemembers'
  BY DEF IInv, TypeOK, Alone, TaskRemembers, LateIsRemembered, PossiblyPosted, Busy
<1>6. LateIsRemembered'
  BY DEF IInv, TypeOK, TaskRemembers, LateIsRemembered, PossiblyPosted, Busy
<1>7. PushedIsGone'
  BY DEF IInv, TypeOK, PushedIsGone, Gone, Busy
<1>8. OnlyTheWebhookTells'
  BY DEF IInv, OnlyTheWebhookTells
<1>9. AttemptLeft'
  BY DEF IInv, TypeOK, AttemptLeft, Busy
<1>10. PushKeepsPaymentOut'
  BY DEF IInv, TypeOK, PushKeepsPaymentOut, SendingStands, Busy
<1> QED
  BY <1>1, <1>2, <1>3, <1>4, <1>5, <1>6, <1>7, <1>8, <1>9, <1>10 DEF IInv

\* A void takes a paid invoice back to approved, where no task holds it at sending.
LEMMA VoidPaymentKeeps == ASSUME IInv, VoidPayment PROVE IInv'
<1> USE DEF VoidPayment, doors, task, erp
<1>1. TypeOK'
  BY DEF IInv, TypeOK, Status
<1>2. Alone'
  BY DEF IInv, TypeOK, Alone, Busy
<1>3. OneDriver'
  BY DEF IInv, TypeOK, Alone, OneDriver, OnlyTheWebhookTells, Undisturbed, Busy
<1>4. SendingStands'
  BY DEF IInv, TypeOK, Alone, SendingStands, Busy
<1>5. TaskRemembers'
  BY DEF IInv, TypeOK, Alone, TaskRemembers, LateIsRemembered, PossiblyPosted, Busy
<1>6. LateIsRemembered'
  BY DEF IInv, TypeOK, TaskRemembers, LateIsRemembered, PossiblyPosted, Busy
<1>7. PushedIsGone'
  BY DEF IInv, TypeOK, PushedIsGone, Gone, Busy
<1>8. OnlyTheWebhookTells'
  BY DEF IInv, OnlyTheWebhookTells
<1>9. AttemptLeft'
  BY DEF IInv, TypeOK, AttemptLeft, Busy
<1>10. PushKeepsPaymentOut'
  BY DEF IInv, TypeOK, PushKeepsPaymentOut, SendingStands, Busy
<1> QED
  BY <1>1, <1>2, <1>3, <1>4, <1>5, <1>6, <1>7, <1>8, <1>9, <1>10 DEF IInv

\* Flags decide, and change nothing themselves.
LEMMA ToggleFlagKeeps == ASSUME IInv, ToggleFlag PROVE IInv'
<1> USE DEF ToggleFlag, doors, task, erp
<1>1. TypeOK'
  BY DEF IInv, TypeOK
<1>2. Alone'
  BY DEF IInv, TypeOK, Alone, Busy
<1>3. OneDriver'
  BY DEF IInv, TypeOK, Alone, OneDriver, OnlyTheWebhookTells, Undisturbed, Busy
<1>4. SendingStands'
  BY DEF IInv, TypeOK, Alone, SendingStands, Busy
<1>5. TaskRemembers'
  BY DEF IInv, TypeOK, Alone, TaskRemembers, LateIsRemembered, PossiblyPosted, Busy
<1>6. LateIsRemembered'
  BY DEF IInv, TypeOK, TaskRemembers, LateIsRemembered, PossiblyPosted, Busy
<1>7. PushedIsGone'
  BY DEF IInv, TypeOK, PushedIsGone, Gone, Busy
<1>8. OnlyTheWebhookTells'
  BY DEF IInv, OnlyTheWebhookTells
<1>9. AttemptLeft'
  BY DEF IInv, TypeOK, AttemptLeft, Busy
<1>10. PushKeepsPaymentOut'
  BY DEF IInv, TypeOK, PushKeepsPaymentOut, SendingStands, Busy
<1> QED
  BY <1>1, <1>2, <1>3, <1>4, <1>5, <1>6, <1>7, <1>8, <1>9, <1>10 DEF IInv

-----------------------------------------------------------------------------
(* How a send task's commits end *)

\* A task that is over keeps nothing.
LEMMA EndTypes ==
  ASSUME TypeOK, NEW t \in Tasks, End(t)
  PROVE  /\ pc' \in [Tasks -> PC] /\ seen' \in [Tasks -> Status]
         /\ mine' \in [Tasks -> StateData] /\ prior' \in [Tasks -> BOOLEAN]
  BY MaxRetriesIsPositive DEF TypeOK, End, PC, Status, StateData, NoAttempt

\* A message deleted was in the queue.
LEMMA ReturnTypes ==
  ASSUME TypeOK, NEW t \in Tasks, Return(t), org.queue => queue > 0
  PROVE  /\ queue' \in Nat /\ queue' <= queue /\ (~org.queue => queue' = queue)
         /\ faults' \in 0 .. MaxFaults /\ faults' >= faults
  BY BoundsAreNatural DEF TypeOK, Return, Fault

\* One more attempt is still one a push may make.
LEMMA OneMoreAttempt ==
  ASSUME TypeOK, NEW t \in Tasks, NEW m \in StateData, m.retries = mine[t].retries,
         mine[t].retries < MaxRetries
  PROVE  /\ [m EXCEPT !.retries = @ + 1] \in StateData
         /\ [m EXCEPT !.retries = @ + 1].retries = mine[t].retries + 1
         /\ [m EXCEPT !.retries = @ + 1].unknown = m.unknown
         /\ [m EXCEPT !.retries = @ + 1].reference = m.reference
  BY MaxRetriesIsPositive DEF StateData

\* Backing off commits state_data m, and with a hook that raised the status s.
LEMMA BackOffKeeps ==
  ASSUME IInv, NEW t \in Tasks, Busy(t), NEW s \in Status, NEW m \in StateData,
         m.retries = mine[t].retries, BackOff(t, s, m),
         \/ s = seen[t]
         \/ seen[t] = "sending_to_erp" /\ s \in {"sent_to_erp", Landing} /\ faults' > 0,
         faults' \in 0 .. MaxFaults, faults' >= faults, late' \in BOOLEAN,
         ~overlap /\ (bill \/ late') => PossiblyPosted(m),
         UNCHANGED <<org, paying, flagged, doors, bill, cancelled, overlap>>
  PROVE  IInv'
<1> DEFINE n == [m EXCEPT !.retries = @ + 1]
<1>1. mine[t].retries < MaxRetries /\ ~IsLast(t)
  BY DEF IInv, AttemptLeft, BackOff
<1>2. /\ n \in StateData /\ n.retries = mine[t].retries + 1
      /\ n.unknown = m.unknown /\ n.reference = m.reference
  BY <1>1, OneMoreAttempt DEF IInv
<1>3. n.retries < MaxRetries
  BY <1>1, <1>2, MaxRetriesIsPositive DEF IInv, TypeOK, StateData, IsLast
<1>4. /\ stateData' = n /\ mine' = [mine EXCEPT ![t] = n]
      /\ pc' = [pc EXCEPT ![t] = "attempt"] /\ seen' = [seen EXCEPT ![t] = s]
      /\ prior' = [prior EXCEPT ![t] = FALSE]
      /\ status' = (IF s = seen[t] THEN status ELSE s)
      /\ UNCHANGED queue
  BY DEF BackOff
<1>5. /\ UNCHANGED <<org, paying, flagged, committed, refused, bill, cancelled, overlap>>
      /\ Landing = IF org.reports = "sync" THEN "posted_in_erp" ELSE "done"
  BY DEF doors, Landing
<1> HIDE DEF n
<1>a. TypeOK'
  BY <1>2, <1>4, <1>5 DEF IInv, TypeOK, PC
<1>b. Alone'
  BY <1>4, <1>5 DEF IInv, TypeOK, Alone, Busy
<1>c. OneDriver'
  BY <1>4, <1>5 DEF IInv, TypeOK, OneDriver, Undisturbed, Busy
<1>d. SendingStands'
  BY <1>4, <1>5 DEF IInv, TypeOK, Alone, SendingStands, Busy
<1>e. TaskRemembers'
  BY <1>4, <1>5 DEF IInv, TypeOK, Alone, TaskRemembers, Busy
<1>f. LateIsRemembered'
  BY <1>2, <1>4, <1>5 DEF LateIsRemembered, PossiblyPosted
<1>g. PushedIsGone'
  BY <1>4, <1>5 DEF IInv, TypeOK, PushedIsGone, Gone
<1>h. OnlyTheWebhookTells'
  BY <1>5 DEF IInv, OnlyTheWebhookTells
<1>i. AttemptLeft'
  BY <1>3, <1>4 DEF IInv, TypeOK, AttemptLeft, Busy
<1>j. PushKeepsPaymentOut'
  BY <1>4, <1>5 DEF IInv, PushKeepsPaymentOut, SendingStands
<1> QED
  BY <1>a, <1>b, <1>c, <1>d, <1>e, <1>f, <1>g, <1>h, <1>i, <1>j DEF IInv

\* A task that returns from an invoice it holds at sending leaves it out of reach of the
\* payment side, or confirmed, and its state_data m remembers what the ERP may hold.
LEMMA ReturnKeeps ==
  ASSUME IInv, NEW t \in Tasks, Busy(t), seen[t] = "sending_to_erp", Return(t),
         NEW m \in StateData, stateData' = m, status' \in {"failed", Landing},
         UNCHANGED <<org, paying, flagged, doors, bill, cancelled, overlap>>,
         late' \in BOOLEAN, ~overlap /\ (bill \/ late') => PossiblyPosted(m)
  PROVE  IInv'
<1>1. /\ pc' = [pc EXCEPT ![t] = "idle"] /\ seen' = [seen EXCEPT ![t] = "approved"]
      /\ mine' = [mine EXCEPT ![t] = NoAttempt]
  BY DEF Return, End
<1>2. /\ queue' \in Nat /\ queue' <= queue /\ (~org.queue => queue' = queue)
      /\ faults' \in 0 .. MaxFaults /\ faults' >= faults
  BY ReturnTypes DEF IInv, Alone
<1>3. /\ UNCHANGED <<org, paying, flagged, committed, refused, bill, cancelled, overlap>>
      /\ Landing = IF org.reports = "sync" THEN "posted_in_erp" ELSE "done"
  BY DEF doors, Landing
<1>a. TypeOK'
  BY EndTypes, <1>2, <1>3 DEF IInv, TypeOK, Return, Status
<1>b. Alone'
  BY <1>1, <1>2, <1>3 DEF IInv, TypeOK, Alone, Busy
<1>c. OneDriver'
  BY <1>1, <1>2, <1>3 DEF IInv, TypeOK, Alone, OneDriver, Undisturbed, Busy
<1>d. SendingStands'
  BY <1>1, <1>3 DEF IInv, TypeOK, Alone, SendingStands, Busy
<1>e. TaskRemembers'
  BY <1>1, <1>3 DEF IInv, TypeOK, Alone, TaskRemembers, Busy
<1>f. LateIsRemembered'
  BY <1>3 DEF LateIsRemembered, PossiblyPosted
<1>g. PushedIsGone'
  BY <1>3 DEF IInv, TypeOK, PushedIsGone, Gone
<1>h. OnlyTheWebhookTells'
  BY <1>3 DEF IInv, OnlyTheWebhookTells
<1>i. AttemptLeft'
  BY <1>1 DEF IInv, TypeOK, AttemptLeft, Busy
<1>j. PushKeepsPaymentOut'
  BY <1>3 DEF IInv, PushKeepsPaymentOut, SendingStands
<1> QED
  BY <1>a, <1>b, <1>c, <1>d, <1>e, <1>f, <1>g, <1>h, <1>i, <1>j DEF IInv

\* A task that raises leaves the row as it is, the doubt of its call included.
LEMMA RaiseKeeps ==
  ASSUME IInv, NEW t \in Tasks, Busy(t), Raise(t),
         faults' \in 0 .. MaxFaults, faults' >= faults,
         late' = (late \/ pc[t] = "calling") \/ late' = late,
         UNCHANGED <<org, paying, flagged, doors, bill, cancelled, overlap>>
  PROVE  IInv'
<1>1. /\ pc' = [pc EXCEPT ![t] = "idle"] /\ seen' = [seen EXCEPT ![t] = "approved"]
      /\ mine' = [mine EXCEPT ![t] = NoAttempt] /\ UNCHANGED <<status, stateData, queue>>
  BY DEF Raise, End
<1>2. UNCHANGED <<org, paying, flagged, committed, refused, bill, cancelled, overlap>>
  BY DEF doors
<1>a. TypeOK'
  BY EndTypes, <1>1, <1>2 DEF IInv, TypeOK, Raise
<1>b. Alone'
  BY <1>1, <1>2 DEF IInv, TypeOK, Alone, Busy
<1>c. OneDriver'
  BY <1>1, <1>2 DEF IInv, TypeOK, Alone, OneDriver, Undisturbed, Busy
<1>d. SendingStands'
  BY <1>1, <1>2 DEF IInv, TypeOK, Alone, SendingStands, Busy
<1>e. TaskRemembers'
  BY <1>1, <1>2 DEF IInv, TypeOK, Alone, TaskRemembers, Busy
<1>f. LateIsRemembered'
  BY <1>1, <1>2 DEF IInv, TypeOK, TaskRemembers, LateIsRemembered, PossiblyPosted, Busy
<1>g. PushedIsGone'
  BY <1>1, <1>2 DEF IInv, TypeOK, PushedIsGone
<1>h. OnlyTheWebhookTells'
  BY <1>2 DEF IInv, OnlyTheWebhookTells
<1>i. AttemptLeft'
  BY <1>1 DEF IInv, TypeOK, AttemptLeft, Busy
<1>j. PushKeepsPaymentOut'
  BY <1>1, <1>2 DEF IInv, PushKeepsPaymentOut
<1> QED
  BY <1>a, <1>b, <1>c, <1>d, <1>e, <1>f, <1>g, <1>h, <1>i, <1>j DEF IInv

\* So does an attempt that ends in an exception, whatever is left of the push.
LEMMA AttemptFailedKeeps ==
  ASSUME IInv, NEW t \in Tasks, Busy(t), NEW m \in StateData, NEW final \in BOOLEAN,
         m.retries = mine[t].retries, AttemptFailed(t, m, final),
         late' = (late \/ pc[t] = "calling") \/ late' = late,
         ~overlap /\ (bill \/ late') => PossiblyPosted(m),
         UNCHANGED <<org, paying, flagged, doors, bill, cancelled, overlap>>
  PROVE  IInv'
<1>1. late' \in BOOLEAN /\ seen[t] \in Status /\ faults \in 0 .. MaxFaults
  <2>1. late \in BOOLEAN /\ seen \in [Tasks -> Status] /\ faults \in 0 .. MaxFaults
    BY DEF IInv, TypeOK
  <2> QED
    BY <2>1
<1>2. CASE BackOff(t, seen[t], m) /\ UNCHANGED faults
  <2>1. faults' \in 0 .. MaxFaults /\ faults' >= faults
    BY <1>1, <1>2
  <2> QED
    BY <1>1, <1>2, <2>1, BackOffKeeps
<1>3. CASE GiveUp(t, m)
  <2>1. [m EXCEPT !.retries = @ + 1] \in StateData
        /\ (PossiblyPosted(m) => PossiblyPosted([m EXCEPT !.retries = @ + 1]))
    BY OneMoreAttempt DEF IInv, AttemptLeft, PossiblyPosted
  <2> QED
    BY <1>1, <1>3, <2>1, ReturnKeeps DEF GiveUp
<1>4. CASE Raise(t) /\ UNCHANGED faults
  <2>1. faults' \in 0 .. MaxFaults /\ faults' >= faults
    BY <1>1, <1>4
  <2> QED
    BY <1>1, <1>4, <2>1, RaiseKeeps
<1> QED
  BY <1>2, <1>3, <1>4 DEF AttemptFailed

-----------------------------------------------------------------------------
(* The steps of a send task *)

\* A task begins with what the row says, alone in lambda mode and undisturbed ones.
LEMMA LoadKeeps == ASSUME IInv, NEW t \in Tasks, Load(t) PROVE IInv'
<1> USE DEF Load, Begin, MayBegin, invoice, doors, erp
<1>1. TypeOK'
  BY DEF IInv, TypeOK, PC
<1>2. Alone'
  BY DEF IInv, TypeOK, Alone, Busy
<1>3. OneDriver'
  BY DEF IInv, TypeOK, Alone, OneDriver, OnlyTheWebhookTells, Undisturbed, Busy
<1>4. SendingStands'
  BY DEF IInv, TypeOK, Alone, SendingStands, Busy
<1>5. TaskRemembers'
  BY DEF IInv, TypeOK, Alone, TaskRemembers, LateIsRemembered, PossiblyPosted, Busy
<1>6. LateIsRemembered'
  BY DEF IInv, TypeOK, TaskRemembers, LateIsRemembered, PossiblyPosted, Busy
<1>7. PushedIsGone'
  BY DEF IInv, TypeOK, PushedIsGone, Gone, Busy
<1>8. OnlyTheWebhookTells'
  BY DEF IInv, OnlyTheWebhookTells
<1>9. AttemptLeft'
  BY DEF IInv, TypeOK, AttemptLeft, Busy
<1>10. PushKeepsPaymentOut'
  BY DEF IInv, TypeOK, PushKeepsPaymentOut, SendingStands, Busy
<1> QED
  BY <1>1, <1>2, <1>3, <1>4, <1>5, <1>6, <1>7, <1>8, <1>9, <1>10 DEF IInv

\* A message the less.
LEMMA LoadExhaustedKeeps == ASSUME IInv, NEW t \in Tasks, LoadExhausted(t) PROVE IInv'
<1> USE DEF LoadExhausted, Begin, MayBegin, invoice, doors, task, erp
<1>1. TypeOK'
  BY DEF IInv, TypeOK
<1>2. Alone'
  BY DEF IInv, TypeOK, Alone, Busy
<1>3. OneDriver'
  BY DEF IInv, TypeOK, Alone, OneDriver, OnlyTheWebhookTells, Undisturbed, Busy
<1>4. SendingStands'
  BY DEF IInv, TypeOK, Alone, SendingStands, Busy
<1>5. TaskRemembers'
  BY DEF IInv, TypeOK, Alone, TaskRemembers, LateIsRemembered, PossiblyPosted, Busy
<1>6. LateIsRemembered'
  BY DEF IInv, TypeOK, TaskRemembers, LateIsRemembered, PossiblyPosted, Busy
<1>7. PushedIsGone'
  BY DEF IInv, TypeOK, PushedIsGone, Gone, Busy
<1>8. OnlyTheWebhookTells'
  BY DEF IInv, OnlyTheWebhookTells
<1>9. AttemptLeft'
  BY DEF IInv, TypeOK, AttemptLeft, Busy
<1>10. PushKeepsPaymentOut'
  BY DEF IInv, TypeOK, PushKeepsPaymentOut, SendingStands, Busy
<1> QED
  BY <1>1, <1>2, <1>3, <1>4, <1>5, <1>6, <1>7, <1>8, <1>9, <1>10 DEF IInv

\* The task fails an invoice it has just read at sending, and is over.
LEMMA LoadWithoutCredentialsKeeps == ASSUME IInv, NEW t \in Tasks, LoadWithoutCredentials(t) PROVE IInv'
<1> USE DEF LoadWithoutCredentials, Begin, MayBegin, doors, task, erp
<1>1. TypeOK'
  BY DEF IInv, TypeOK, Status
<1>2. Alone'
  BY DEF IInv, TypeOK, Alone, Busy
<1>3. OneDriver'
  BY DEF IInv, TypeOK, Alone, OneDriver, OnlyTheWebhookTells, Undisturbed, Busy
<1>4. SendingStands'
  BY DEF IInv, TypeOK, Alone, SendingStands, Busy
<1>5. TaskRemembers'
  BY DEF IInv, TypeOK, Alone, TaskRemembers, LateIsRemembered, PossiblyPosted, Busy
<1>6. LateIsRemembered'
  BY DEF IInv, TypeOK, TaskRemembers, LateIsRemembered, PossiblyPosted, Busy
<1>7. PushedIsGone'
  BY DEF IInv, TypeOK, PushedIsGone, Gone, Busy
<1>8. OnlyTheWebhookTells'
  BY DEF IInv, OnlyTheWebhookTells
<1>9. AttemptLeft'
  BY DEF IInv, TypeOK, AttemptLeft, Busy
<1>10. PushKeepsPaymentOut'
  BY DEF IInv, TypeOK, PushKeepsPaymentOut, SendingStands, Busy
<1> QED
  BY <1>1, <1>2, <1>3, <1>4, <1>5, <1>6, <1>7, <1>8, <1>9, <1>10 DEF IInv

\* The doubt is in the row before the call, and the earlier doubt with the attempt.
LEMMA CallErpKeeps == ASSUME IInv, NEW t \in Tasks, CallErp(t) PROVE IInv'
<1> USE DEF CallErp, DoubtBeforeCall, MayExport, invoice, doors, erp
<1>1. TypeOK'
  BY DEF IInv, TypeOK, PC, StateData
<1>2. Alone'
  BY DEF IInv, TypeOK, Alone, Busy
<1>3. OneDriver'
  BY DEF IInv, TypeOK, Alone, OneDriver, OnlyTheWebhookTells, Undisturbed, Busy
<1>4. SendingStands'
  BY DEF IInv, TypeOK, Alone, SendingStands, Busy
<1>5. TaskRemembers'
  <2> SUFFICES ASSUME ~overlap PROVE TaskRemembers'
    BY DEF TaskRemembers
  <2>1. Busy(t) /\ \A u \in Tasks : Busy(u)' => u = t
    BY DEF IInv, TypeOK, Alone, Busy
  <2>2. /\ mine'[t] = stateData' /\ stateData'.unknown
        /\ stateData'.reference = mine[t].reference
        /\ prior'[t] = mine[t].unknown /\ pc'[t] = "calling"
    BY DEF IInv, TypeOK, StateData
  <2>3. bill \/ late => mine[t].unknown \/ mine[t].reference
    BY <2>1 DEF IInv, TaskRemembers, LateIsRemembered, PossiblyPosted
  <2> QED
    BY <2>1, <2>2, <2>3 DEF TaskRemembers
<1>6. LateIsRemembered'
  BY DEF IInv, TypeOK, TaskRemembers, LateIsRemembered, PossiblyPosted, Busy
<1>7. PushedIsGone'
  BY DEF IInv, TypeOK, PushedIsGone, Gone, Busy
<1>8. OnlyTheWebhookTells'
  BY DEF IInv, OnlyTheWebhookTells
<1>9. AttemptLeft'
  BY DEF IInv, TypeOK, AttemptLeft, Busy
<1>10. PushKeepsPaymentOut'
  BY DEF IInv, TypeOK, PushKeepsPaymentOut, SendingStands, Busy
<1> QED
  BY <1>1, <1>2, <1>3, <1>4, <1>5, <1>6, <1>7, <1>8, <1>9, <1>10 DEF IInv

\* The doubt of the call is the memory of its bill.
LEMMA ErpActsKeeps == ASSUME IInv, NEW t \in Tasks, ErpActs(t) PROVE IInv'
<1> USE DEF ErpActs, invoice, doors
<1>1. TypeOK'
  BY DEF IInv, TypeOK, PC
<1>2. Alone'
  BY DEF IInv, TypeOK, Alone, Busy
<1>3. OneDriver'
  BY DEF IInv, TypeOK, Alone, OneDriver, OnlyTheWebhookTells, Undisturbed, Busy
<1>4. SendingStands'
  BY DEF IInv, TypeOK, Alone, SendingStands, Busy
<1>5. TaskRemembers'
  BY DEF IInv, TypeOK, Alone, TaskRemembers, LateIsRemembered, PossiblyPosted, Busy
<1>6. LateIsRemembered'
  BY DEF IInv, TypeOK, TaskRemembers, LateIsRemembered, PossiblyPosted, Busy
<1>7. PushedIsGone'
  BY DEF IInv, TypeOK, PushedIsGone, Gone, Busy
<1>8. OnlyTheWebhookTells'
  BY DEF IInv, OnlyTheWebhookTells
<1>9. AttemptLeft'
  BY DEF IInv, TypeOK, AttemptLeft, Busy
<1>10. PushKeepsPaymentOut'
  BY DEF IInv, TypeOK, PushKeepsPaymentOut, SendingStands, Busy
<1> QED
  BY <1>1, <1>2, <1>3, <1>4, <1>5, <1>6, <1>7, <1>8, <1>9, <1>10 DEF IInv

\* An attempt the gate refuses has called nothing.
LEMMA GateRefusesKeeps == ASSUME IInv, NEW t \in Tasks, GateRefuses(t) PROVE IInv'
<1>1. Busy(t) /\ mine[t] \in StateData
  BY DEF IInv, TypeOK, GateRefuses, Busy
<1>2. /\ late' = late
      /\ UNCHANGED <<org, paying, flagged, doors, bill, cancelled, overlap>>
  BY DEF GateRefuses, erp
<1>3. ~overlap /\ (bill \/ late') => PossiblyPosted(mine[t])
  BY <1>1, <1>2 DEF IInv, LateIsRemembered, TaskRemembers, PossiblyPosted
<1> QED
  BY <1>1, <1>2, <1>3, AttemptFailedKeeps DEF GateRefuses

\* A refusal leaves the doubt of the attempts before it.
LEMMA ErpRefusesKeeps == ASSUME IInv, NEW t \in Tasks, ErpRefuses(t) PROVE IInv'
<1> DEFINE m == [mine[t] EXCEPT !.unknown = AfterRefusal(t)]
<1>1. PICK final \in BOOLEAN : AttemptFailed(t, m, final)
  BY DEF ErpRefuses
<1>2. /\ late' = late /\ pc[t] = "calling"
      /\ UNCHANGED <<org, paying, flagged, doors, bill, cancelled, overlap>>
  BY DEF ErpRefuses, erp
<1>3. /\ Busy(t) /\ m \in StateData /\ m.retries = mine[t].retries
      /\ m.unknown = prior[t] /\ m.reference = mine[t].reference
  BY <1>2 DEF IInv, TypeOK, StateData, Busy, AfterRefusal
<1>4. ~overlap /\ (bill \/ late') => PossiblyPosted(m)
  BY <1>2, <1>3 DEF IInv, TaskRemembers, PossiblyPosted
<1> QED
  BY <1>1, <1>2, <1>3, <1>4, AttemptFailedKeeps

\* An answer that is lost leaves the doubt committed before the call.
LEMMA AnswerLostKeeps == ASSUME IInv, NEW t \in Tasks, AnswerLost(t) PROVE IInv'
<1>1. PICK final \in BOOLEAN : AttemptFailed(t, mine[t], final)
  BY DEF AnswerLost
<1>2. /\ late' = (late \/ pc[t] = "calling") /\ pc[t] \in {"calling", "acted"}
      /\ UNCHANGED <<org, paying, flagged, doors, bill, cancelled, overlap>>
  BY DEF AnswerLost
<1>3. Busy(t) /\ mine[t] \in StateData
  BY <1>2 DEF IInv, TypeOK, Busy
<1>4. ~overlap /\ (bill \/ late') => PossiblyPosted(mine[t])
  BY <1>2, <1>3 DEF IInv, TaskRemembers, PossiblyPosted
<1> QED
  BY <1>1, <1>2, <1>3, <1>4, AttemptFailedKeeps

\* What a confirmed attempt has in memory names the bill.
LEMMA ConfirmedTypes ==
  ASSUME IInv, NEW t \in Tasks, pc[t] = "acted"
  PROVE  /\ Busy(t) /\ Confirmed(t) \in StateData /\ PossiblyPosted(Confirmed(t))
         /\ Confirmed(t).retries = mine[t].retries
  BY DEF IInv, TypeOK, StateData, Busy, Confirmed, PossiblyPosted

\* A confirmed push ends where the tenant's ERP decides, with its reference.
LEMMA ConfirmKeeps == ASSUME IInv, NEW t \in Tasks, Confirm(t) PROVE IInv'
<1> DEFINE m == [Confirmed(t) EXCEPT !.retries = @ + 1]
<1>1. Busy(t) /\ Confirmed(t) \in StateData /\ PossiblyPosted(Confirmed(t))
      /\ Confirmed(t).retries = mine[t].retries
  BY ConfirmedTypes DEF Confirm
<1>2. m \in StateData /\ PossiblyPosted(m)
  BY <1>1, OneMoreAttempt DEF IInv, AttemptLeft, PossiblyPosted
<1>3. /\ late' = late /\ late' \in BOOLEAN
      /\ UNCHANGED <<org, paying, flagged, doors, bill, cancelled, overlap>>
  BY DEF Confirm, erp, IInv, TypeOK
<1> QED
  BY <1>1, <1>2, <1>3, ReturnKeeps DEF Confirm

\* A task that holds the invoice elsewhere confirms nothing, and remembers the bill.
LEMMA ConfirmRefusedKeeps == ASSUME IInv, NEW t \in Tasks, ConfirmRefused(t) PROVE IInv'
<1>1. /\ Busy(t) /\ Confirmed(t) \in StateData /\ PossiblyPosted(Confirmed(t))
      /\ Confirmed(t).retries = mine[t].retries
  BY ConfirmedTypes DEF ConfirmRefused
<1>2. /\ late' = late
      /\ UNCHANGED <<org, paying, flagged, doors, bill, cancelled, overlap>>
  BY DEF ConfirmRefused, erp
<1> QED
  BY <1>1, <1>2, AttemptFailedKeeps DEF ConfirmRefused

\* A half-confirmed push has its reference, and its task a status it cannot leave.
LEMMA ConfirmHalfKeeps == ASSUME IInv, NEW t \in Tasks, ConfirmHalf(t) PROVE IInv'
<1>1. /\ Busy(t) /\ Confirmed(t) \in StateData /\ PossiblyPosted(Confirmed(t))
      /\ Confirmed(t).retries = mine[t].retries
  BY ConfirmedTypes DEF ConfirmHalf
<1>2. /\ late' = late /\ late' \in BOOLEAN /\ faults' \in 0 .. MaxFaults /\ faults' >= faults
      /\ faults' > 0 /\ seen[t] = "sending_to_erp"
      /\ UNCHANGED <<org, paying, flagged, doors, bill, cancelled, overlap>>
  BY BoundsAreNatural DEF ConfirmHalf, erp, Fault, IInv, TypeOK
<1>3. ASSUME NEW s \in {"sent_to_erp", Landing}, BackOff(t, s, Confirmed(t)) PROVE IInv'
  <2>1. s \in Status
    BY DEF Status, Landing
  <2> QED
    BY <1>1, <1>2, <1>3, <2>1, BackOffKeeps
<1>4. CASE Raise(t)
  BY <1>1, <1>2, <1>4, RaiseKeeps
<1> QED
  BY <1>3, <1>4 DEF ConfirmHalf

\* A task that dies leaves the row as it is.
LEMMA DieKeeps == ASSUME IInv, NEW t \in Tasks, Die(t) PROVE IInv'
<1>1. /\ faults' \in 0 .. MaxFaults /\ faults' >= faults
      /\ UNCHANGED <<org, paying, flagged, doors, bill, cancelled, overlap>>
      /\ late' = (late \/ pc[t] = "calling") /\ Busy(t) /\ Raise(t)
  BY BoundsAreNatural DEF Die, Fault, IInv, TypeOK
<1> QED
  BY <1>1, RaiseKeeps

-----------------------------------------------------------------------------
(* The specification *)

\* A tenant's first push starts from nothing.
LEMMA InitKeeps == Init => IInv
<1> SUFFICES ASSUME Init PROVE IInv
  OBVIOUS
<1>1. NoAttempt \in StateData
  BY MaxRetriesIsPositive DEF NoAttempt, StateData
<1>2. \A t \in Tasks : ~Busy(t)
  BY DEF Init, Busy
<1>3. TypeOK
  <2>1. 0 \in 0 .. MaxFaults
    BY BoundsAreNatural
  <2>2. "idle" \in PC /\ "approved" \in Status
    BY DEF PC, Status
  <2>3. /\ pc \in [Tasks -> PC] /\ seen \in [Tasks -> Status]
        /\ mine \in [Tasks -> StateData] /\ prior \in [Tasks -> BOOLEAN]
    BY <1>1, <2>2 DEF Init
  <2> QED
    BY <1>1, <2>1, <2>2, <2>3 DEF Init, TypeOK
<1> QED
  BY <1>1, <1>2, <1>3 DEF Init, IInv, Alone, OneDriver, Undisturbed, SendingStands,
     TaskRemembers, LateIsRemembered, PushedIsGone, OnlyTheWebhookTells, AttemptLeft,
     PushKeepsPaymentOut

\* Nothing changes in a stuttering step.
LEMMA StutterKeeps == IInv /\ UNCHANGED vars => IInv'
  BY DEF vars, invoice, doors, task, erp, IInv, TypeOK, Alone, OneDriver, Undisturbed,
     SendingStands, TaskRemembers, LateIsRemembered, PushedIsGone, OnlyTheWebhookTells,
     AttemptLeft, PushKeepsPaymentOut, Busy, PossiblyPosted

\* The invariant is inductive: every state of every behaviour satisfies it, for any
\* number of send tasks, attempts, pushes and faults.
THEOREM Invariance == Spec => []IInv
<1>1. ASSUME IInv, Next PROVE IInv'
  <2>1. CASE Door
    BY <1>1, <2>1, SendToErpKeeps, RetryErpKeeps, DispatchKeeps, DispatchRaisesKeeps,
       FailNotDispatchedKeeps DEF Door
  <2>2. ASSUME NEW t \in Tasks, Sending(t) PROVE IInv'
    BY <1>1, <2>2, LoadKeeps, LoadExhaustedKeeps, LoadWithoutCredentialsKeeps,
       GateRefusesKeeps, CallErpKeeps, ErpActsKeeps, ErpRefusesKeeps, AnswerLostKeeps,
       ConfirmKeeps, ConfirmRefusedKeeps, ConfirmHalfKeeps, DieKeeps DEF Sending, Proceed
  <2>3. CASE InTheErp
    BY <1>1, <2>3, ErpActsLateKeeps, ErpVoidsBillKeeps, WebhookCancelledKeeps,
       WebhookOpenKeeps DEF InTheErp
  <2>4. CASE Paying
    BY <1>1, <2>4, StageRunKeeps, ExecutePaymentKeeps, MarkPaidKeeps, VoidPaymentKeeps,
       ToggleFlagKeeps DEF Paying
  <2> QED
    BY <1>1, <2>1, <2>2, <2>3, <2>4, RestartKeeps DEF Next
<1> QED
  BY InitKeeps, <1>1, StutterKeeps, PTL DEF Spec

\* Every variable always holds a value of its kind, and no push counts more attempts
\* than MAX_RETRIES.
THEOREM TypeCorrect == Spec => []TypeOK
<1>1. IInv => TypeOK
  BY DEF IInv
<1> QED
  BY Invariance, <1>1, PTL

\* The invoice is never payable both here and in an ERP that reports nothing.
THEOREM NotTwice == Spec => []NotPayableTwice
<1>1. IInv => NotPayableTwice
  BY DEF IInv, NotPayableTwice, PushedIsGone, Gone, Payable
<1> QED
  BY Invariance, <1>1, PTL

\* While FeohLedger pays the invoice, no push of it is under way or failed.
THEOREM PaymentKeptOut == Spec => []PushKeepsPaymentOut
<1>1. IInv => PushKeepsPaymentOut
  BY DEF IInv
<1> QED
  BY Invariance, <1>1, PTL

\* A bill in the ERP is remembered as possibly posted.
THEOREM PostedRemembered == Spec => []PostedIsRemembered
<1>1. IInv => PostedIsRemembered
  BY DEF IInv, LateIsRemembered, PostedIsRemembered
<1> QED
  BY Invariance, <1>1, PTL

\* Sends overlap only where the ERP's webhook or a raising hook lets them.
THEOREM OneSend == Spec => []OneSendAtATime
<1>1. IInv => OneSendAtATime
  BY DEF IInv, TypeOK, Alone, OneDriver, Undisturbed, OneSendAtATime
<1> QED
  BY Invariance, <1>1, PTL
-----------------------------------------------------------------------------
(* The bill is named *)

\* What a commit of a running task leaves in the row names the bill if the row did.
LEMMA NamedStays ==
  ASSUME IInv, SentHasReference, NEW t \in Tasks, Busy(t), NEW m, m.reference = mine[t].reference,
         status' \in {status, "failed"}, stateData' \in {stateData, [m EXCEPT !.retries = @ + 1]},
         m \in StateData, UNCHANGED overlap
  PROVE  SentHasReference'
  BY DEF IInv, TypeOK, StateData, TaskRemembers, SentHasReference

\* An attempt that fails commits what its task remembers, or rolls back.
LEMMA FailedStaysNamed ==
  ASSUME IInv, SentHasReference, NEW t \in Tasks, Busy(t),
         NEW m \in StateData, m.reference = mine[t].reference \/ m.reference,
         NEW final \in BOOLEAN, AttemptFailed(t, m, final), UNCHANGED overlap
  PROVE  SentHasReference'
<1>1. \/ UNCHANGED <<status, stateData>>
      \/ status' \in {status, "failed"} /\ stateData' = [m EXCEPT !.retries = @ + 1]
  BY DEF AttemptFailed, BackOff, GiveUp, Raise
<1>2. CASE m.reference = mine[t].reference
  BY <1>1, <1>2, NamedStays
<1>3. CASE m.reference
  BY <1>1, <1>3 DEF SentHasReference, StateData
<1> QED
  BY <1>2, <1>3

\* Every step of a send task keeps the bill named.
LEMMA SendingStaysNamed ==
  ASSUME IInv, SentHasReference, NEW t \in Tasks, Sending(t)
  PROVE  SentHasReference'
<1>0. mine[t] \in StateData
  BY DEF IInv, TypeOK
<1>1. CASE Load(t) \/ LoadExhausted(t) \/ LoadWithoutCredentials(t)
  BY <1>1 DEF Load, LoadExhausted, LoadWithoutCredentials, Begin, invoice, SentHasReference
<1>2. CASE GateRefuses(t)
  BY <1>0, <1>2, FailedStaysNamed DEF GateRefuses, Busy
<1>3. CASE CallErp(t)
  <2>1. ~overlap => mine[t].reference = stateData.reference
    BY <1>3 DEF CallErp, IInv, TaskRemembers, Busy
  <2>2. stateData'.reference = mine[t].reference
    BY <1>0, <1>3 DEF CallErp, DoubtBeforeCall, StateData
  <2> QED
    BY <1>3, <2>1, <2>2 DEF CallErp, invoice, SentHasReference
<1>4. CASE ErpActs(t) \/ Die(t)
  BY <1>4 DEF ErpActs, Die, Raise, invoice, SentHasReference
<1>5. CASE ErpRefuses(t)
  <2> DEFINE m == [mine[t] EXCEPT !.unknown = AfterRefusal(t)]
  <2>1. AfterRefusal(t) \in BOOLEAN
    BY DEF AfterRefusal, IInv, TypeOK
  <2>2. m \in StateData /\ m.reference = mine[t].reference
    BY <1>0, <2>1 DEF StateData
  <2>3. PICK final \in BOOLEAN : AttemptFailed(t, m, final)
    BY <1>5 DEF ErpRefuses
  <2>4. Busy(t) /\ UNCHANGED overlap
    BY <1>5 DEF ErpRefuses, Busy
  <2> HIDE DEF m
  <2> QED
    BY <2>2, <2>3, <2>4, FailedStaysNamed
<1>6. CASE AnswerLost(t)
  BY <1>0, <1>6, FailedStaysNamed DEF AnswerLost, Busy
<1>7. ASSUME pc[t] = "acted"
      PROVE  Confirmed(t) \in StateData /\ Confirmed(t).reference /\ Busy(t)
  BY <1>0, <1>7 DEF Confirmed, StateData, Busy
<1>8. CASE Confirm(t)
  BY <1>7, <1>8 DEF Confirm, SentHasReference, StateData
<1>9. CASE ConfirmRefused(t)
  BY <1>7, <1>9, FailedStaysNamed DEF ConfirmRefused
<1>10. CASE ConfirmHalf(t)
  BY <1>7, <1>10 DEF ConfirmHalf, BackOff, Raise, SentHasReference, StateData
<1> QED
  BY <1>1, <1>2, <1>3, <1>4, <1>5, <1>6, <1>8, <1>9, <1>10 DEF Sending, Proceed

\* An invoice that reads sent to the ERP names its bill, whatever fails, is delivered
\* again or is half done (_call_erp, send_to_erp_internal, erp_webhook).
THEOREM SentIsNamed == Spec => []SentHasReference
<1>1. Init => SentHasReference
  BY DEF Init, SentHasReference
<1>2. IInv /\ SentHasReference /\ [Next]_vars => SentHasReference'
  <2> SUFFICES ASSUME IInv, SentHasReference, [Next]_vars PROVE SentHasReference'
    OBVIOUS
  <2>1. CASE Door
    BY <2>1 DEF Door, SendToErp, RetryErp, Dispatch, DispatchRaises, FailNotDispatched,
       invoice, SentHasReference, IInv, TypeOK, StateData
  <2>2. ASSUME NEW t \in Tasks, Sending(t) PROVE SentHasReference'
    BY <2>2, SendingStaysNamed
  <2>3. CASE InTheErp
    BY <2>3 DEF InTheErp, ErpActsLate, ErpVoidsBill, WebhookCancelled, WebhookOpen, invoice,
       SentHasReference
  <2>4. CASE Paying
    BY <2>4 DEF Paying, StageRun, ExecutePayment, MarkPaid, VoidPayment, ToggleFlag,
       SentHasReference
  <2>5. CASE Restart \/ UNCHANGED vars
    BY <2>5 DEF Restart, vars, invoice, SentHasReference
  <2> QED
    BY <2>1, <2>2, <2>3, <2>4, <2>5 DEF Next
<1> QED
  BY <1>1, <1>2, Invariance, PTL DEF Spec

\* Where SQS carries the pushes, and where the ERP reports nothing, no exception is
\* left: a bill, or a request that may still make one, is remembered, and no payment
\* is out beside a push (dispatch_erp, lock_run_invoices, erp_export_refusal).
THEOREM WhereNoSendOverlaps ==
  Spec => [](org.queue \/ org.reports = "nothing" =>
               /\ bill \/ late => PossiblyPosted(stateData)
               /\ paying => status \notin {"sending_to_erp", "sent_to_erp", "failed"})
<1>1. IInv => (org.queue \/ org.reports = "nothing" =>
                 /\ bill \/ late => PossiblyPosted(stateData)
                 /\ paying => status \notin {"sending_to_erp", "sent_to_erp", "failed"})
  BY DEF IInv, Alone, OneDriver, Undisturbed, LateIsRemembered, PushKeepsPaymentOut
<1> QED
  BY Invariance, <1>1, PTL
=============================================================================
