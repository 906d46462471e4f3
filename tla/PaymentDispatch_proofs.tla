----------------------- MODULE PaymentDispatch_proofs -----------------------
(***************************************************************************)
(* Proofs about PaymentDispatch, for any sets of invoices, payment rows,   *)
(* runs and dispatchers.                                                   *)
(*                                                                         *)
(* The first part proves that IInv of PaymentDispatchInvariant is          *)
(* inductive, action by action: steps of requests that change no row, the  *)
(* stamp, the processor call, the recorded outcome, what people and the    *)
(* rail do to a row afterwards, and booking.  The second part draws the    *)
(* safety theorems from it.  The third describes the life of one row as a  *)
(* relation that every step satisfies, and proves from it what a row may   *)
(* never do.  The last two relate a row's step to its invoice: to the      *)
(* payment queue, and to the flag.                                         *)
(***************************************************************************)
EXTENDS PaymentDispatchInvariant, TLAPS

\* The tuples of variables and RunOutcome are abbreviations, and None is known to
\* be no value.
USE DEF rows, books, procs, lists, world, RunOutcome
USE NoneIsNoValue

\* Runs only move between begun states.
BegunStay ==
    /\ runStatus' \in [Runs -> RunStatus]
    /\ \A r \in Runs : runStatus'[r] = runStatus[r] \/ {runStatus[r], runStatus'[r]} \subseteq Begun

-----------------------------------------------------------------------------
(* Initial state, and runs that stay begun *)

\* A tenant with approved invoices and no payments satisfies the invariant.
LEMMA InitInv == Init => DispatchInv
  <1> SUFFICES ASSUME Init PROVE DispatchInv
    OBVIOUS
  <1>1. TypeOK
    BY DEF Init, TypeOK, InvoiceStatus, PaymentStatus, Reason, RunStatus, PC,
           OrderStatus
  <1>2. RowInv
    BY DEF Init, RowInv, RowsWellFormed, OneLiveRow, RetriedHaveFailed,
           DraftRowsUntouched, RunsHaveRows, Exists, Live, Booked, Begun
  <1>3. PassInv
    BY DEF Init, PassInv, PassOnItsRun, TurnOnARow, HolderOwnsStamp, Turn, Holding
  <1>4. SentInv
    BY DEF Init, SentInv, UnstampedUnsent, FirstAttemptUnsent, Waiting
  <1>5. InDoubtIsBlocked /\ NoUnansweredDoublePayment
    BY DEF Init, InDoubtIsBlocked, NoUnansweredDoublePayment, Unanswered, MoneyOut,
           LiveOrder
  <1> QED
    BY <1>1, <1>2, <1>3, <1>4, <1>5 DEF DispatchInv

\* The rollup of at least one row is an outcome or executing, never draft
\* (run_status answers draft only for a run without payments).
LEMMA RollupBegun ==
  ASSUME NEW R, NEW view, R # {}
  PROVE  RollupStatus(R, view) \in Begun
  BY DEF RollupStatus, Begun

\* recompute_run_status never makes a draft of a run that has begun.
LEMMA RecomputedBegun ==
  ASSUME DispatchInv, NEW p \in Payments, NEW view, runStatus' = Recomputed(p, view)
  PROVE  BegunStay
  <1> DEFINE r == runOf[p]
  <1>1. CASE r # None /\ runStatus[r] \in RunOutcome
    <2>1. r \in Runs
      BY <1>1 DEF DispatchInv, TypeOK
    <2>2. Active(r) # {}
      BY <1>1, <2>1 DEF DispatchInv, RowInv, RunsHaveRows, Booked, Begun, Active, RowsIn
    <2>3. RollupStatus(Active(r), view) \in Begun
      BY <2>2, RollupBegun
    <2> QED
      BY <1>1, <2>1, <2>3 DEF DispatchInv, TypeOK, BegunStay, Recomputed, Begun, RunStatus
  <1>2. CASE ~(r # None /\ runStatus[r] \in RunOutcome)
    BY <1>2 DEF DispatchInv, TypeOK, BegunStay, Recomputed
  <1> QED BY <1>1, <1>2

\* A step that leaves payments, invoices and the processor alone keeps every
\* part of the invariant that speaks of them only.
LEMMA QuietRows ==
  ASSUME DispatchInv, UNCHANGED <<rows, books, world>>, BegunStay
  PROVE  RowInv' /\ UnstampedUnsent' /\ InDoubtIsBlocked' /\ NoUnansweredDoublePayment'
  <1>1. RowInv'
    <2> USE DEF DispatchInv, TypeOK, RowInv
    <2>1. \A r \in Runs : /\ runStatus'[r] \in Booked <=> runStatus[r] \in Booked
                          /\ runStatus'[r] = "draft" <=> runStatus[r] = "draft"
      BY DEF Booked, Begun, BegunStay
    <2>4. RowsWellFormed' /\ DraftRowsUntouched'
      BY <2>1 DEF RowsWellFormed, DraftRowsUntouched, Exists
    <2>2. OneLiveRow' /\ RetriedHaveFailed'
      BY DEF OneLiveRow, RetriedHaveFailed, Live
    <2>3. RunsHaveRows'
      BY <2>1 DEF RunsHaveRows, Exists
    <2> QED BY <2>2, <2>3, <2>4
  <1>2. UnstampedUnsent'
    BY DEF DispatchInv, SentInv, UnstampedUnsent
  <1>3. InDoubtIsBlocked' /\ NoUnansweredDoublePayment'
    BY DEF DispatchInv, InDoubtIsBlocked, NoUnansweredDoublePayment, Unanswered, MoneyOut,
           Answered, TakenAsDeclined, SameInvoice, Live
  <1> QED BY <1>1, <1>2, <1>3

-----------------------------------------------------------------------------
(* The outcome of an attempt *)

\* The commit that records an outcome keeps the invariant, if the outcome is one
\* that the attempt may record: a failure is flagged, or the processor was not
\* called, or the adapter itself reported it; only an unsent row is held.
LEMMA OutcomeInv ==
  ASSUME DispatchInv, NEW d \in Dispatchers, NEW s \in {"failed", "submitted", "completed", "pending_compliance"},
         NEW why \in Reason, NEW doubt \in BOOLEAN,
         Outcome(d, s, why, doubt),
         UNCHANGED order, invoiceStatus' \in [Invoices -> InvoiceStatus],
         pc[d] \in Holding \/ (pc[d] = "lost" /\ ~RowHeld(cur[d]) /\ s = "failed" /\ doubt),
         s = "pending_compliance" => pc[d] = "attempt",
         s = "failed" /\ ~doubt => pc[d] = "attempt" \/ why = "adapter",
         status[cur[d]] = Expected(d)
  PROVE  DispatchInv'
  <1> DEFINE p == cur[d]
  <1>0. /\ p \in Payments /\ status[p] \in Waiting /\ Live(p) /\ Exists(p)
        /\ invoiceOf[p] \in Invoices /\ p \notin retried
        /\ runOf[p] # None => runStatus[runOf[p]] \in Begun
        /\ pc[d] \in Turn /\ (passOf[d] # None => runOf[p] = passOf[d])
    BY DEF DispatchInv, PassInv, TurnOnARow, Turn, Holding, Expected, Live, Exists,
           Waiting, Terminal, RowInv, RowsWellFormed, RetriedHaveFailed
  <1>r. BegunStay
    <2>1. CASE passOf[d] = None
       BY <2>1, <1>0, RecomputedBegun DEF Outcome
    <2>2. CASE passOf[d] # None
       BY <2>2 DEF Outcome, BegunStay, DispatchInv, TypeOK
    <2> QED BY <2>1, <2>2
  <1>1. TypeOK'
    BY <1>0, <1>r
       DEF DispatchInv, TypeOK, Outcome, Leave, StampAfter, Flags, PC, PaymentStatus,
           Terminal, BegunStay
  <1>d. DraftRowsUntouched'
    <2>1. /\ runOf' = runOf
          /\ \A q \in Payments \ {p} : status'[q] = status[q] /\ stamp'[q] = stamp[q]
      BY <1>0 DEF Outcome, DispatchInv, TypeOK
    <2>2. \A q \in Payments : runOf[q] # None /\ runStatus'[runOf[q]] = "draft"
                               => runOf[q] \in Runs /\ runStatus[runOf[q]] = "draft"
      <3>1. \A r \in Runs : runStatus'[r] = "draft" => runStatus[r] = "draft"
        BY <1>r DEF BegunStay, Begun
      <3>2. \A q \in Payments : runOf[q] # None => runOf[q] \in Runs
        BY DEF DispatchInv, TypeOK
      <3> QED BY <3>1, <3>2
    <2>3. ~(runOf[p] # None /\ runStatus'[runOf[p]] = "draft")
      BY <1>0, <2>2 DEF Begun
    <2> QED
      BY <2>1, <2>2, <2>3 DEF DispatchInv, RowInv, DraftRowsUntouched, Exists
  <1>2. RowInv'
    <2> USE <1>0, <1>r DEF DispatchInv, TypeOK, RowInv, Outcome
    <2>1. RowsWellFormed'
      BY DEF RowsWellFormed, Exists, Booked, Begun, BegunStay
    <2>2. OneLiveRow' /\ RetriedHaveFailed'
      BY DEF OneLiveRow, RetriedHaveFailed, Live
    <2>3. RunsHaveRows'
      BY DEF RunsHaveRows, Exists, Booked, Begun, BegunStay
    <2> QED BY <1>d, <2>1, <2>2, <2>3
  <1>3. \A e \in Dispatchers : pc[e] \in Holding /\ cur[e] = p => e = d
    BY <1>0 DEF DispatchInv, PassInv, HolderOwnsStamp, RowHeld, Holding
  <1>4. PassInv'
    BY <1>0, <1>3, <1>r
       DEF DispatchInv, TypeOK, PassInv, PassOnItsRun, TurnOnARow, HolderOwnsStamp, Turn,
           Holding, Exists, Expected, Outcome, Leave, StampAfter, BegunStay,
           Waiting, Begun
  <1>5. SentInv'
    BY <1>0, <1>3
       DEF DispatchInv, TypeOK, SentInv, UnstampedUnsent, FirstAttemptUnsent, PassInv,
           HolderOwnsStamp, Holding, Outcome, Leave, StampAfter, Waiting
  <1>6. InDoubtIsBlocked'
    BY <1>0, <1>3
       DEF DispatchInv, TypeOK, SentInv, FirstAttemptUnsent, PassInv, HolderOwnsStamp,
           Holding, Outcome, StampAfter, Waiting, InDoubtIsBlocked, Unanswered,
           MoneyOut, Answered, TakenAsDeclined, Live, Terminal, Flags, LiveOrder
  <1>7. NoUnansweredDoublePayment'
    BY <1>0
       DEF DispatchInv, TypeOK, Outcome, NoUnansweredDoublePayment, Unanswered, MoneyOut,
           Answered, TakenAsDeclined, SameInvoice, Waiting
  <1> QED BY <1>1, <1>2, <1>4, <1>5, <1>6, <1>7 DEF DispatchInv

-----------------------------------------------------------------------------
(* Steps of a request that change no row *)

\* Opening and dropping the run builder's check.
LEMMA VetInvoicesInv ==
  ASSUME DispatchInv, NEW S \in SUBSET Invoices, VetInvoices(S) \/ AbandonRun
  PROVE  DispatchInv'
  <1> USE DEF VetInvoices, AbandonRun
  <1>1. TypeOK' /\ BegunStay
    BY DEF DispatchInv, TypeOK, PC, PaymentStatus, InvoiceStatus, RunStatus, BegunStay, Begun
  <1>2. RowInv' /\ UnstampedUnsent' /\ InDoubtIsBlocked' /\ NoUnansweredDoublePayment'
    BY QuietRows, <1>1
  <1>3. PassInv'
    BY DEF DispatchInv, TypeOK, PassInv, PassOnItsRun, TurnOnARow, HolderOwnsStamp, Turn,
           Holding, Exists, Expected, Begun
  <1>4. FirstAttemptUnsent'
    BY DEF DispatchInv, TypeOK, SentInv, FirstAttemptUnsent
  <1> QED BY <1>1, <1>2, <1>3, <1>4 DEF DispatchInv, SentInv

\* Resume claims nothing that is not already executing.
LEMMA ResumeInv ==
  ASSUME DispatchInv, NEW d \in Dispatchers, NEW r \in Runs, Resume(d, r)
  PROVE  DispatchInv'
  <1> USE DEF Resume, Claim
  <1>1. TypeOK' /\ BegunStay
    BY DEF DispatchInv, TypeOK, PC, PaymentStatus, InvoiceStatus, RunStatus, BegunStay, Begun
  <1>2. RowInv' /\ UnstampedUnsent' /\ InDoubtIsBlocked' /\ NoUnansweredDoublePayment'
    BY QuietRows, <1>1
  <1>3. PassInv'
    BY DEF DispatchInv, TypeOK, PassInv, PassOnItsRun, TurnOnARow, HolderOwnsStamp, Turn,
           Holding, Exists, Expected, Begun
  <1>4. FirstAttemptUnsent'
    BY DEF DispatchInv, TypeOK, SentInv, FirstAttemptUnsent
  <1> QED BY <1>1, <1>2, <1>3, <1>4 DEF DispatchInv, SentInv

\* The first half of a retry looks, and locks, and changes no row.
LEMMA VetRetryInv ==
  ASSUME DispatchInv, NEW d \in Dispatchers, NEW r \in Runs, VetRetry(d, r)
  PROVE  DispatchInv'
  <1>1. BegunStay
    BY DEF DispatchInv, TypeOK, BegunStay, VetRetry
  <1>2. todo'[d] \subseteq {p \in RowsIn(r) : status[p] = "failed"}
    BY DEF DispatchInv, TypeOK, VetRetry, Active, RetrySafe
  <1>3. TypeOK'
    <2>1. todo' \in [Dispatchers -> SUBSET Payments]
      BY <1>2 DEF DispatchInv, TypeOK, VetRetry, RowsIn
    <2>2. seen' \in [Dispatchers -> [Payments -> PaymentStatus]]
      <3>1. [p \in Payments |-> IF p \in RowsIn(r) THEN status[p] ELSE "unused"]
              \in [Payments -> PaymentStatus]
        BY DEF DispatchInv, TypeOK, PaymentStatus
      <3> QED
        BY <3>1 DEF DispatchInv, TypeOK, VetRetry
    <2> QED
      BY <2>1, <2>2 DEF DispatchInv, TypeOK, VetRetry, PC
  <1>4. RowInv' /\ UnstampedUnsent' /\ InDoubtIsBlocked' /\ NoUnansweredDoublePayment'
    BY <1>1, QuietRows DEF VetRetry
  <1>5. PassInv'
    <2>1. PassOnItsRun'
      BY <1>2
         DEF DispatchInv, TypeOK, PassInv, PassOnItsRun, VetRetry, RowsIn, Exists, Begun,
             FinishedWithFailures
    <2>2. TurnOnARow' /\ HolderOwnsStamp'
      BY DEF DispatchInv, TypeOK, PassInv, TurnOnARow, HolderOwnsStamp, VetRetry, Turn,
             Holding, Exists, Expected
    <2> QED BY <2>1, <2>2 DEF PassInv
  <1>6. FirstAttemptUnsent'
    BY DEF DispatchInv, TypeOK, SentInv, FirstAttemptUnsent, VetRetry
  <1> QED BY <1>3, <1>4, <1>5, <1>6 DEF DispatchInv, SentInv

\* A crashed worker and a refused retry leave the database as it was.
LEMMA ToIdleInv ==
  ASSUME DispatchInv, NEW d \in Dispatchers, ToIdle(d), UNCHANGED <<rows, books, runStatus, vetted, lists, world>>
  PROVE  DispatchInv'
  <1> USE DEF ToIdle
  <1>1. TypeOK' /\ BegunStay
    BY DEF DispatchInv, TypeOK, PC, PaymentStatus, RunStatus, BegunStay
  <1>2. RowInv' /\ UnstampedUnsent' /\ InDoubtIsBlocked' /\ NoUnansweredDoublePayment'
    BY QuietRows, <1>1
  <1>3. PassInv'
    BY DEF DispatchInv, TypeOK, PassInv, PassOnItsRun, TurnOnARow, HolderOwnsStamp, Turn,
           Holding, Exists, Expected
  <1>4. FirstAttemptUnsent'
    BY DEF DispatchInv, TypeOK, SentInv, FirstAttemptUnsent
  <1> QED BY <1>1, <1>2, <1>3, <1>4 DEF DispatchInv, SentInv

\* What a pass is going to send are rows of its own run.
LEMMA ReadPendingInv ==
  ASSUME DispatchInv, NEW d \in Dispatchers, ReadPending(d)
  PROVE  DispatchInv'
  <1> USE DEF ReadPending, RowsIn
  <1>1. TypeOK' /\ BegunStay
    BY DEF DispatchInv, TypeOK, PC, PaymentStatus, InvoiceStatus, RunStatus, BegunStay, Begun
  <1>2. RowInv' /\ UnstampedUnsent' /\ InDoubtIsBlocked' /\ NoUnansweredDoublePayment'
    BY QuietRows, <1>1
  <1>3. PassInv'
    BY DEF DispatchInv, TypeOK, PassInv, PassOnItsRun, TurnOnARow, HolderOwnsStamp, Turn,
           Holding, Exists, Expected, Begun
  <1>4. FirstAttemptUnsent'
    BY DEF DispatchInv, TypeOK, SentInv, FirstAttemptUnsent
  <1> QED BY <1>1, <1>2, <1>3, <1>4 DEF DispatchInv, SentInv

\* The end of a turn keeps the dispatcher's variables in their types.
LEMMA LeaveType ==
  ASSUME DispatchInv, NEW d \in Dispatchers, NEW p \in Payments, NEW s \in PaymentStatus, Leave(d, p, s)
  PROVE  /\ pc' \in [Dispatchers -> PC]
         /\ passOf' \in [Dispatchers -> Runs \cup {None}]
         /\ todo' \in [Dispatchers -> SUBSET Payments]
         /\ cur' \in [Dispatchers -> Payments \cup {None}]
         /\ remarked' \in [Dispatchers -> BOOLEAN]
         /\ seen' \in [Dispatchers -> [Payments -> PaymentStatus]]
         /\ runSeen' \in [Dispatchers -> RunStatus]
  BY DEF DispatchInv, TypeOK, Leave, PC

\* A turn that ends without an outcome.
LEMMA LeaveInv ==
  ASSUME DispatchInv, NEW d \in Dispatchers, NEW p \in Payments, Leave(d, p, status[p]),
         passOf[d] # None \/ pc[d] # "looping",
         UNCHANGED <<rows, books, runStatus, vetted, lists, world>>
  PROVE  DispatchInv'
  <1>1. BegunStay
    BY DEF DispatchInv, TypeOK, BegunStay
  <1>2. TypeOK'
    BY LeaveType DEF DispatchInv, TypeOK
  <1>3. RowInv' /\ UnstampedUnsent' /\ InDoubtIsBlocked' /\ NoUnansweredDoublePayment'
    BY <1>1, QuietRows
  <1>4. PassInv'
    BY DEF DispatchInv, TypeOK, PassInv, PassOnItsRun, TurnOnARow, HolderOwnsStamp, Turn,
           Holding, Exists, Expected, Leave
  <1>5. FirstAttemptUnsent'
    BY DEF DispatchInv, TypeOK, SentInv, FirstAttemptUnsent, Leave
  <1> QED BY <1>2, <1>3, <1>4, <1>5 DEF DispatchInv, SentInv

\* A row that has moved, or that another dispatcher stamped, is left alone.
LEMMA SkipInv ==
  ASSUME DispatchInv, NEW d \in Dispatchers, (\E p \in Payments : SkipMoved(d, p)) \/ SkipClaimed(d)
  PROVE  DispatchInv'
  <1>1. CASE \E p \in Payments : SkipMoved(d, p)
    BY <1>1, LeaveInv DEF SkipMoved, DispatchInv, PassInv, PassOnItsRun
  <1>2. CASE SkipClaimed(d)
    BY <1>2, LeaveInv DEF SkipClaimed, DispatchInv, PassInv, TurnOnARow, Turn
  <1> QED BY <1>1, <1>2

\* Past the second lock the stamp on the row is the dispatcher's own.
LEMMA RelockInv ==
  ASSUME DispatchInv, NEW d \in Dispatchers, Relock(d) \/ LoseConnection(d)
  PROVE  DispatchInv'
  <1>0. /\ pc[d] \in Turn /\ pc' = [pc EXCEPT ![d] = pc'[d]] /\ pc'[d] \in {"attempt", "lost"}
        /\ UNCHANGED <<passOf, todo, cur, remarked, runSeen>>
        /\ seen' \in [Dispatchers -> [Payments -> PaymentStatus]]
        /\ UNCHANGED <<rows, books, runStatus, vetted, lists, world>>
        /\ pc'[d] = "attempt" => /\ pc[d] = "marked"
                                 /\ status[cur[d]] = Expected(d) /\ stamp[cur[d]] = d
    <2>1. CASE Relock(d)
      BY <2>1 DEF Relock, DispatchInv, TypeOK, Turn
    <2>2. CASE LoseConnection(d)
      <3>1. seen' \in [Dispatchers -> [Payments -> PaymentStatus]]
        BY <2>2 DEF LoseConnection, DispatchInv, TypeOK, PaymentStatus
      <3> QED BY <2>2, <3>1 DEF LoseConnection, DispatchInv, TypeOK, Turn
    <2> QED BY <2>1, <2>2
  <1>1. TypeOK' /\ BegunStay
    <2>1. pc' \in [Dispatchers -> PC]
      BY <1>0 DEF DispatchInv, TypeOK, PC
    <2>2. TypeOK'
      BY <1>0, <2>1 DEF DispatchInv, TypeOK
    <2> QED BY <1>0, <2>2 DEF DispatchInv, TypeOK, BegunStay
  <1>2. RowInv' /\ UnstampedUnsent' /\ InDoubtIsBlocked' /\ NoUnansweredDoublePayment'
    BY <1>0, <1>1, QuietRows
  <1>3. PassInv'
    <2> USE <1>0 DEF DispatchInv, TypeOK, PassInv, Turn, Exists
    <2>1. PassOnItsRun'
      BY DEF PassOnItsRun
    <2>2. TurnOnARow'
      BY DEF TurnOnARow
    <2>3. HolderOwnsStamp'
      BY DEF HolderOwnsStamp, Holding, Expected
    <2> QED BY <2>1, <2>2, <2>3
  <1>4. FirstAttemptUnsent'
    BY <1>0 DEF DispatchInv, TypeOK, SentInv, FirstAttemptUnsent
  <1> QED BY <1>1, <1>2, <1>3, <1>4 DEF DispatchInv, SentInv

\* execute_payment_run: the draft run begins.
LEMMA ExecuteInv ==
  ASSUME DispatchInv, NEW d \in Dispatchers, NEW r \in Runs, Execute(d, r)
  PROVE  DispatchInv'
  <1> USE DEF Execute, Claim
  <1>1. TypeOK'
    BY DEF DispatchInv, TypeOK, PC, RunStatus
  <1>2. RowInv'
    <2> USE DEF DispatchInv, TypeOK, RowInv
    <2>1. RowsWellFormed' /\ DraftRowsUntouched'
      BY DEF RowsWellFormed, DraftRowsUntouched, Exists, Booked, Begun
    <2>2. OneLiveRow' /\ RetriedHaveFailed'
      BY DEF OneLiveRow, RetriedHaveFailed, Live
    <2>3. RunsHaveRows'
      BY DEF RunsHaveRows, Exists, Booked, Begun
    <2> QED BY <2>1, <2>2, <2>3
  <1>3. PassInv'
    BY DEF DispatchInv, TypeOK, PassInv, PassOnItsRun, TurnOnARow, HolderOwnsStamp, Turn,
           Holding, Exists, Expected, Begun
  <1>4. SentInv'
    BY DEF DispatchInv, TypeOK, SentInv, UnstampedUnsent, FirstAttemptUnsent
  <1>5. InDoubtIsBlocked' /\ NoUnansweredDoublePayment'
    BY DEF DispatchInv, InDoubtIsBlocked, NoUnansweredDoublePayment, Unanswered, MoneyOut,
           Answered, TakenAsDeclined, SameInvoice, Live
  <1> QED BY <1>1, <1>2, <1>3, <1>4, <1>5 DEF DispatchInv

\* What the final rollup says of a run is never draft.
LEMMA FinishBegun ==
  ASSUME DispatchInv, NEW d \in Dispatchers, Finish(d)
  PROVE  BegunStay
  <1> DEFINE r == passOf[d]
  <1>1. r \in Runs /\ runStatus[r] \in Begun
    BY DEF DispatchInv, TypeOK, PassInv, PassOnItsRun, Finish
  <1>2. Active(r) # {}
    BY <1>1 DEF DispatchInv, RowInv, RunsHaveRows, Booked, Active, RowsIn
  <1>3. RollupStatus(Active(r), View(d)) \in Begun
    BY <1>2, RollupBegun
  <1> QED
    BY <1>1, <1>3 DEF DispatchInv, TypeOK, BegunStay, Begun, RunStatus, Finish

\* The final rollup moves the run between begun states.
LEMMA FinishInv ==
  ASSUME DispatchInv, NEW d \in Dispatchers, Finish(d)
  PROVE  DispatchInv'
  <1>1. BegunStay
    BY FinishBegun
  <1>2. TypeOK'
    BY <1>1 DEF DispatchInv, TypeOK, Finish, ToIdle, PC, PaymentStatus, RunStatus, BegunStay
  <1>3. RowInv' /\ UnstampedUnsent' /\ InDoubtIsBlocked' /\ NoUnansweredDoublePayment'
    BY <1>1, QuietRows DEF Finish
  <1>4. PassInv'
    BY <1>1
       DEF DispatchInv, TypeOK, PassInv, PassOnItsRun, TurnOnARow, HolderOwnsStamp, Turn,
           Holding, Exists, Expected, Finish, ToIdle, BegunStay
  <1>5. FirstAttemptUnsent'
    BY DEF DispatchInv, TypeOK, SentInv, FirstAttemptUnsent, Finish, ToIdle
  <1> QED BY <1>2, <1>3, <1>4, <1>5 DEF DispatchInv, SentInv

-----------------------------------------------------------------------------
(* The stamp and the call *)

\* The stamp: nobody holds the row, and a row stamped for the first time was
\* never sent.
LEMMA MarkInv ==
  ASSUME DispatchInv, NEW d \in Dispatchers, NEW p \in Payments, MarkNext(d, p) \/ Release(d, p)
  PROVE  DispatchInv'
  <1>0. /\ Mark(d, p) /\ status[p] \in Waiting /\ pc[d] \in {"idle", "looping"}
        /\ UNCHANGED <<passOf, todo>>
        /\ passOf[d] # None => runOf[p] = passOf[d] /\ status[p] = "pending"
        /\ passOf[d] = None => status[p] = "pending_compliance"
    BY DEF MarkNext, Release, Waiting, DispatchInv, PassInv, PassOnItsRun
  <1>1. runOf[p] # None => runStatus[runOf[p]] \in Begun
    BY <1>0
       DEF DispatchInv, RowInv, RowsWellFormed, DraftRowsUntouched, PassInv, PassOnItsRun,
           Booked, Waiting, Exists
  <1> USE DEF Mark
  <1>2. TypeOK'
    BY <1>0 DEF DispatchInv, TypeOK, PC
  <1>3. RowInv'
    BY <1>0, <1>1
       DEF DispatchInv, TypeOK, RowInv, RowsWellFormed, OneLiveRow, RetriedHaveFailed,
           DraftRowsUntouched, RunsHaveRows, Exists, Live, Waiting, Begun
  <1>4. PassInv'
    BY <1>0, <1>1
       DEF DispatchInv, TypeOK, PassInv, PassOnItsRun, TurnOnARow, HolderOwnsStamp,
           RowHeld, Turn, Holding, Exists, Expected, Waiting
  <1>5. SentInv'
    <2>1. UnstampedUnsent'
      BY <1>0 DEF DispatchInv, TypeOK, SentInv, UnstampedUnsent
    <2>2. ~remarked'[d] => order[p] = "none"
      BY <1>0 DEF DispatchInv, TypeOK, SentInv, UnstampedUnsent
    <2>3. FirstAttemptUnsent'
      <3>1. ASSUME NEW e \in Dispatchers \ {d}, stamp'[cur'[e]] = e, pc[e] \in {"marked", "attempt"}
            PROVE  stamp[cur[e]] = e
        BY <1>0, <3>1 DEF DispatchInv, TypeOK, PassInv, TurnOnARow, Turn
      <3> QED
        BY <1>0, <2>2, <3>1 DEF DispatchInv, TypeOK, SentInv, FirstAttemptUnsent
    <2> QED BY <2>1, <2>3 DEF SentInv
  <1>6. InDoubtIsBlocked' /\ NoUnansweredDoublePayment'
    BY <1>0
       DEF DispatchInv, TypeOK, InDoubtIsBlocked, NoUnansweredDoublePayment, Unanswered,
           MoneyOut, Answered, TakenAsDeclined, SameInvoice, Live, Waiting
  <1> QED BY <1>2, <1>3, <1>4, <1>5, <1>6 DEF DispatchInv

\* The processor call, where the second payment would leave: the invoice is not
\* flagged and the row holds its slot, so no other row of the invoice is out.
LEMMA CallInv ==
  ASSUME DispatchInv, NEW d \in Dispatchers, CallProcessor(d)
  PROVE  DispatchInv'
  <1> DEFINE p == cur[d]
  <1>0. /\ p \in Payments /\ status[p] \in Waiting /\ stamp[p] = d /\ Exists(p) /\ Live(p)
        /\ invoiceOf[p] \notin flagged /\ pc[d] = "attempt"
        /\ order' \in [Payments -> OrderStatus]
        /\ \A q \in Payments \ {p} : order'[q] = order[q]
    <2>1. pc[d] = "attempt" /\ invoiceOf[p] \notin flagged
      BY DEF CallProcessor, Clear
    <2>2. p \in Payments /\ status[p] \in Waiting /\ stamp[p] = d
      BY <2>1
         DEF DispatchInv, PassInv, TurnOnARow, HolderOwnsStamp, Turn, Holding, Expected,
             Waiting
    <2>3. Exists(p) /\ Live(p)
      BY <2>2 DEF Waiting, Exists, Live, Terminal
    <2>4. order \in [Payments -> OrderStatus]
      BY DEF DispatchInv, TypeOK
    <2>5. PICK o \in OrderStatus : order' = [order EXCEPT ![p] = o]
      BY <2>2, <2>4 DEF CallProcessor, OrderStatus
    <2> QED BY <2>1, <2>2, <2>3, <2>4, <2>5
  <1>1. TypeOK'
    BY <1>0 DEF DispatchInv, TypeOK, PC, CallProcessor
  <1>2. RowInv'
    BY <1>0
       DEF DispatchInv, RowInv, RowsWellFormed, OneLiveRow, RetriedHaveFailed,
           DraftRowsUntouched, RunsHaveRows, Exists, Live, CallProcessor
  <1>3. PassInv'
    BY <1>0
       DEF DispatchInv, TypeOK, PassInv, PassOnItsRun, TurnOnARow, HolderOwnsStamp, Turn,
           Holding, Exists, Expected, CallProcessor
  <1>4. SentInv'
    BY <1>0
       DEF DispatchInv, TypeOK, SentInv, UnstampedUnsent, FirstAttemptUnsent, CallProcessor
  <1>5. InDoubtIsBlocked'
    BY <1>0
       DEF DispatchInv, InDoubtIsBlocked, Unanswered, MoneyOut, Answered, TakenAsDeclined,
           Live, CallProcessor
  <1>6. \A q \in Payments \ {p} : invoiceOf[q] = invoiceOf[p] => ~Unanswered(q)
    BY <1>0 DEF DispatchInv, InDoubtIsBlocked, RowInv, OneLiveRow
  <1>7. NoUnansweredDoublePayment'
    BY <1>0, <1>6
       DEF DispatchInv, NoUnansweredDoublePayment, SameInvoice, Unanswered, MoneyOut,
           Answered, TakenAsDeclined, CallProcessor
  <1> QED BY <1>1, <1>2, <1>3, <1>4, <1>5, <1>7 DEF DispatchInv

\* The actions that end an attempt.
Answers(d) ==
    \/ InvoiceLocked(d) \/ Refuse(d) \/ Hold(d) \/ FailBeforeCall(d)
    \/ RecordAccepted(d) \/ RecordRefused(d) \/ FailAfterCall(d)
    \/ RecordAborted(d)

\* A release that cannot lock the invoice leaves the row held.
LEMMA ReleaseKeepsWaiting ==
  ASSUME DispatchInv, NEW d \in Dispatchers, InvoiceLocked(d), passOf[d] = None
  PROVE  DispatchInv'
  <1> DEFINE p == cur[d]
  <1>0. /\ p \in Payments /\ pc[d] = "attempt" /\ stamp[p] = d /\ status[p] = "pending_compliance"
        /\ stamp' = [stamp EXCEPT ![p] = StampAfter(d)]
        /\ Leave(d, p, "pending_compliance")
        /\ UNCHANGED <<status, invoiceOf, runOf, reason, retried, books, runStatus, vetted, lists, world>>
    BY DEF InvoiceLocked, DispatchInv, PassInv, TurnOnARow, HolderOwnsStamp, Expected,
           Turn, Holding
  <1>1. TypeOK'
    BY <1>0, LeaveType DEF DispatchInv, TypeOK, StampAfter, PaymentStatus
  <1>2. RowInv'
    BY <1>0
       DEF DispatchInv, TypeOK, RowInv, RowsWellFormed, OneLiveRow, RetriedHaveFailed,
           DraftRowsUntouched, RunsHaveRows, Exists, Live
  <1>3. \A e \in Dispatchers : pc[e] \in Holding /\ cur[e] = p => e = d
    BY <1>0 DEF DispatchInv, PassInv, HolderOwnsStamp
  <1>4. PassInv'
    BY <1>0, <1>3
       DEF DispatchInv, TypeOK, PassInv, PassOnItsRun, TurnOnARow, HolderOwnsStamp, Turn,
           Holding, Exists, Expected, Leave
  <1>5. SentInv'
    BY <1>0
       DEF DispatchInv, TypeOK, SentInv, UnstampedUnsent, FirstAttemptUnsent, StampAfter,
           Leave, Waiting
  <1>6. InDoubtIsBlocked' /\ NoUnansweredDoublePayment'
    BY <1>0
       DEF DispatchInv, TypeOK, InDoubtIsBlocked, NoUnansweredDoublePayment, Unanswered,
           MoneyOut, Answered, TakenAsDeclined, SameInvoice, Live
  <1> QED BY <1>1, <1>2, <1>4, <1>5, <1>6 DEF DispatchInv

\* _record_aborted_dispatch records only over the status it expects.
LEMMA RecordAbortedInv ==
  ASSUME DispatchInv, NEW d \in Dispatchers, RecordAborted(d)
  PROVE  DispatchInv'
  <1>1. CASE status[cur[d]] = Expected(d)
    <2>1. Outcome(d, "failed", "in_doubt", TRUE) /\ UNCHANGED <<invoiceStatus, order>>
      BY <1>1 DEF RecordAborted
    <2> QED
      BY <1>1, <2>1, OutcomeInv DEF RecordAborted, Reason, DispatchInv, TypeOK
  <1>2. CASE status[cur[d]] # Expected(d)
    <2>1. cur[d] \in Payments
      BY DEF DispatchInv, PassInv, TurnOnARow, Turn, RecordAborted
    <2> QED
      BY <1>2, <2>1, LeaveInv DEF RecordAborted
  <1> QED BY <1>1, <1>2

\* Every way an attempt ends keeps the invariant.
LEMMA AnswersInv ==
  ASSUME DispatchInv, NEW d \in Dispatchers, Answers(d)
  PROVE  DispatchInv'
  <1>1. pc[d] \in Holding => status[cur[d]] = Expected(d) /\ cur[d] \in Payments
    BY DEF DispatchInv, PassInv, HolderOwnsStamp, TurnOnARow, Turn, Holding
  <1> USE DEF Reason, Holding
  <1>2. invoiceStatus \in [Invoices -> InvoiceStatus]
    BY DEF DispatchInv, TypeOK
  <1>3. CASE InvoiceLocked(d)
    BY <1>1, <1>2, <1>3, OutcomeInv, ReleaseKeepsWaiting DEF InvoiceLocked
  <1>4. CASE Refuse(d)
    BY <1>1, <1>2, <1>4, OutcomeInv DEF Refuse
  <1>5. CASE Hold(d)
    BY <1>1, <1>2, <1>5, OutcomeInv DEF Hold
  <1>6. CASE FailBeforeCall(d)
    BY <1>1, <1>2, <1>6, OutcomeInv DEF FailBeforeCall
  <1>7. CASE RecordAccepted(d)
    <2>1. invoiceStatus' \in [Invoices -> InvoiceStatus]
      BY <1>2, <1>7 DEF RecordAccepted, InvoiceStatus
    <2> QED
      BY <1>1, <2>1, <1>7, OutcomeInv DEF RecordAccepted
  <1>8. CASE RecordRefused(d)
    BY <1>1, <1>2, <1>8, OutcomeInv DEF RecordRefused
  <1>9. CASE FailAfterCall(d)
    <2>1. invoiceStatus' \in [Invoices -> InvoiceStatus]
      BY <1>2, <1>9 DEF FailAfterCall, InvoiceStatus
    <2> QED
      BY <1>1, <2>1, <1>9, OutcomeInv DEF FailAfterCall
  <1>10. CASE RecordAborted(d)
    BY <1>10, RecordAbortedInv
  <1> QED
    BY <1>3, <1>4, <1>5, <1>6, <1>7, <1>8, <1>9, <1>10 DEF Answers

-----------------------------------------------------------------------------
(* People and the rail *)

\* A row that ends, or settles, outside the dispatch pass.
Moved(p, t) ==
    /\ status' = [status EXCEPT ![p] = t]
    /\ UNCHANGED <<invoiceOf, runOf, stamp, retried, vetted, lists, procs, world>>

\* A live row that nobody holds may settle or end, if an end that leaves money
\* in doubt is flagged.
LEMMA MovedInv ==
  ASSUME DispatchInv, NEW p \in Payments, NEW t \in {"failed", "voided", "completed"}, Moved(p, t),
         BegunStay,
         Live(p), ~RowHeld(p),
         runOf[p] # None => runStatus[runOf[p]] # "draft",
         \/ t # "completed" 
         \/ status[p] \notin Waiting,
         reason' \in [Payments -> Reason],
         \A q \in Payments \ {p} : reason'[q] = reason[q],
         invoiceStatus' \in [Invoices -> InvoiceStatus],
         flagged' = flagged \/ flagged' = flagged \cup {invoiceOf[p]},
         t = "failed" => order[p] \notin LiveOrder \/ invoiceOf[p] \in flagged'
  PROVE  DispatchInv'
  <1> USE DEF Moved
  <1>0. Exists(p) /\ p \notin retried /\ invoiceOf[p] \in Invoices
    BY DEF DispatchInv, RowInv, RowsWellFormed, RetriedHaveFailed, Live, Exists, Terminal
  <1>1. TypeOK'
    BY <1>0 DEF DispatchInv, TypeOK, PaymentStatus, Terminal, BegunStay
  <1>2. RowInv'
    <2> USE DEF DispatchInv, TypeOK, RowInv
    <2>1. RowsWellFormed'
      BY <1>0 DEF RowsWellFormed, Exists, Booked, Begun, BegunStay
    <2>2. DraftRowsUntouched'
      <3>a. \A r \in Runs : runStatus'[r] = "draft" <=> runStatus[r] = "draft"
        BY DEF Begun, BegunStay
      <3>1. \A q \in Payments :
              Exists(q)' /\ runOf'[q] # None /\ runStatus'[runOf'[q]] = "draft"
                => q # p /\ Exists(q) /\ runOf[q] # None /\ runStatus[runOf[q]] = "draft"
        BY <1>0, <3>a DEF Exists
      <3> QED BY <3>1 DEF DraftRowsUntouched
    <2>3. OneLiveRow' /\ RetriedHaveFailed'
      BY <1>0 DEF OneLiveRow, RetriedHaveFailed, Live
    <2>4. RunsHaveRows'
      BY <1>0 DEF RunsHaveRows, Exists, Booked, Begun, BegunStay
    <2> QED BY <2>1, <2>2, <2>3, <2>4
  <1>3. PassInv'
    <2> USE DEF DispatchInv, TypeOK, PassInv
    <2>1. PassOnItsRun'
      BY <1>0 DEF PassOnItsRun, Exists, Begun, BegunStay, Live, Terminal
    <2>2. TurnOnARow'
      BY <1>0 DEF TurnOnARow, Exists, Begun, BegunStay, Turn
    <2>3. HolderOwnsStamp'
      BY <1>0 DEF HolderOwnsStamp, TurnOnARow, Expected, Holding, Turn, RowHeld
    <2> QED BY <2>1, <2>2, <2>3
  <1>4. SentInv'
    BY <1>0
       DEF DispatchInv, TypeOK, SentInv, UnstampedUnsent, FirstAttemptUnsent, PassInv,
           TurnOnARow, Turn, Waiting
  <1>5. \A q \in Payments : Unanswered(q)' => Unanswered(q)
    BY DEF DispatchInv, TypeOK, Unanswered, MoneyOut, Answered, TakenAsDeclined, Live, Terminal
  <1>6. InDoubtIsBlocked'
    BY <1>5
       DEF DispatchInv, TypeOK, InDoubtIsBlocked, Unanswered, MoneyOut, Answered, Live,
           Terminal
  <1>7. NoUnansweredDoublePayment'
    BY <1>5 DEF DispatchInv, NoUnansweredDoublePayment, SameInvoice
  <1> QED BY <1>1, <1>2, <1>3, <1>4, <1>6, <1>7 DEF DispatchInv

\* No dispatcher holds a row that is not waiting, or a standalone pending row.
LEMMA NotHeld ==
  ASSUME DispatchInv, NEW p \in Payments,
         \/ status[p] \notin Waiting
         \/ status[p] = "pending" /\ runOf[p] = None
  PROVE  ~RowHeld(p)
  BY DEF DispatchInv, PassInv, TurnOnARow, HolderOwnsStamp, RowHeld, Expected, Waiting,
         Turn, Holding

\* A row past pending is live and not in a draft run.
LEMMA StatusSettled ==
  ASSUME DispatchInv, NEW p \in Payments, status[p] \in {"submitted", "completed", "pending_compliance"}
  PROVE  Live(p) /\ (runOf[p] # None => runStatus[runOf[p]] # "draft")
  BY DEF DispatchInv, RowInv, DraftRowsUntouched, Live, Exists, Terminal

\* Dismissing a hold and voiding a payment keep the invariant.
LEMMA ReviewInv ==
  ASSUME DispatchInv, NEW p \in Payments, Dismiss(p) \/ Void(p)
  PROVE  DispatchInv'
  <1>1. CASE Dismiss(p)
    <2>1. BegunStay
      BY <1>1, RecomputedBegun DEF Dismiss
    <2>2. Moved(p, "failed") /\ ~RowHeld(p)
      BY <1>1 DEF Dismiss, Moved
    <2>3. order[p] \notin LiveOrder \/ invoiceOf[p] \in flagged'
      BY <1>1 DEF Dismiss, DispatchInv, SentInv, UnstampedUnsent, Waiting, LiveOrder
    <2> QED
      BY <1>1, <2>1, <2>2, <2>3, StatusSettled, MovedInv
         DEF Dismiss, DispatchInv, TypeOK, Reason
  <1>2. CASE Void(p)
    <2>1. BegunStay
      BY <1>2, RecomputedBegun DEF Void
    <2>2. Moved(p, "voided") /\ ~RowHeld(p) /\ Live(p)
      BY <1>2, NotHeld DEF Void, Moved, Waiting, Live, Terminal
    <2>3. invoiceStatus' \in [Invoices -> InvoiceStatus] /\ UNCHANGED <<reason, flagged>>
      BY <1>2 DEF Void, DispatchInv, TypeOK, InvoiceStatus
    <2>4. runOf[p] # None => runStatus[runOf[p]] # "draft"
      BY <1>2, StatusSettled DEF Void
    <2> QED
      BY <2>1, <2>2, <2>3, <2>4, MovedInv DEF DispatchInv, TypeOK
  <1> QED BY <1>1, <1>2

\* Webhooks, polls and ageing out keep the invariant.
LEMMA RailInv ==
  ASSUME DispatchInv, NEW p \in Payments, Webhook(p) \/ Reconcile(p)
  PROVE  DispatchInv'
  <1>0. status[p] = "submitted" /\ ~RowHeld(p) /\ Live(p) /\ (runOf[p] # None => runStatus[runOf[p]] # "draft")
    BY NotHeld, StatusSettled DEF Webhook, Reconcile, Poll, AgeOut, Waiting
  <1>1. CASE Webhook(p) \/ Poll(p)
    <2>1. Verdict(p) \in {"completed", "failed"} /\ Moved(p, Verdict(p)) /\ BegunStay
      BY <1>1 DEF Webhook, Poll, Settle, Verdict, Moved, BegunStay, DispatchInv, TypeOK
    <2>2. Verdict(p) = "failed" => order[p] \notin LiveOrder
      BY <1>1 DEF Webhook, Poll, Verdict, LiveOrder
    <2> QED
      BY <1>0, <1>1, <2>1, <2>2, MovedInv
         DEF Webhook, Poll, Settle, DispatchInv, TypeOK, Reason, Waiting
  <1>2. CASE AgeOut(p)
    <2>1. Moved(p, "failed") /\ BegunStay
      BY <1>2 DEF AgeOut, Moved, BegunStay, DispatchInv, TypeOK
    <2> QED
      BY <1>0, <1>2, <2>1, MovedInv DEF AgeOut, DispatchInv, TypeOK, Reason
  <1> QED BY <1>1, <1>2 DEF Reconcile

\* Clearing the flag keeps the invariant, because the failed rows were looked up.
LEMMA ResolveExceptionInv ==
  ASSUME DispatchInv, NEW i \in Invoices, ResolveException(i)
  PROVE  DispatchInv'
  <1> USE DEF ResolveException
  <1>1. TypeOK'
    BY DEF DispatchInv, TypeOK, RowsOf
  <1>2. RowInv'
    BY DEF DispatchInv, RowInv, RowsWellFormed, OneLiveRow, RetriedHaveFailed,
           DraftRowsUntouched, RunsHaveRows, Exists, Live
  <1>3. PassInv' /\ SentInv'
    BY DEF DispatchInv, PassInv, PassOnItsRun, TurnOnARow, HolderOwnsStamp, Exists,
           Expected, SentInv, UnstampedUnsent, FirstAttemptUnsent
  <1>4. \A q \in Payments : Unanswered(q)' => Unanswered(q)
    BY DEF Unanswered, MoneyOut, Answered, TakenAsDeclined
  <1>5. InDoubtIsBlocked'
    <2> SUFFICES ASSUME NEW q \in Payments, Unanswered(q)', ~Live(q)
                 PROVE  invoiceOf[q] \in flagged'
      BY DEF InDoubtIsBlocked, Live
    <2>1. status[q] = "failed" /\ Exists(q)
      BY DEF DispatchInv, TypeOK, RowInv, RowsWellFormed, Unanswered, MoneyOut, Answered,
             Live, Exists, PaymentStatus, Terminal, LiveOrder
    <2>2. invoiceOf[q] \in flagged
      BY <1>4 DEF DispatchInv, InDoubtIsBlocked
    <2>3. invoiceOf[q] # i
      BY <2>1 DEF RowsOf, Unanswered, MoneyOut, Answered
    <2> QED BY <2>2, <2>3
  <1>6. NoUnansweredDoublePayment'
    BY <1>4 DEF DispatchInv, NoUnansweredDoublePayment, SameInvoice
  <1> QED BY <1>1, <1>2, <1>3, <1>5, <1>6 DEF DispatchInv

\* The processor's verdict by itself changes no row.
LEMMA ProcessorDecidesInv ==
  ASSUME DispatchInv, NEW p \in Payments, ProcessorDecides(p)
  PROVE  DispatchInv'
  <1> USE DEF ProcessorDecides
  <1>1. TypeOK'
    BY DEF DispatchInv, TypeOK, OrderStatus
  <1>2. RowInv'
    BY DEF DispatchInv, TypeOK, RowInv, RowsWellFormed, OneLiveRow, RetriedHaveFailed,
           DraftRowsUntouched, RunsHaveRows, Exists, Live
  <1>3. PassInv' /\ SentInv'
    BY DEF DispatchInv, TypeOK, PassInv, PassOnItsRun, TurnOnARow, HolderOwnsStamp, Exists,
           Expected, SentInv, UnstampedUnsent, FirstAttemptUnsent, Waiting
  <1>4. \A q \in Payments : Unanswered(q)' => Unanswered(q)
    BY DEF DispatchInv, TypeOK, Unanswered, MoneyOut, Answered, TakenAsDeclined, LiveOrder
  <1>5. InDoubtIsBlocked' /\ NoUnansweredDoublePayment'
    BY <1>4 DEF DispatchInv, InDoubtIsBlocked, NoUnansweredDoublePayment, SameInvoice, Live
  <1> QED BY <1>1, <1>2, <1>3, <1>5 DEF DispatchInv

\* cancel_payment_run deletes only rows that were never sent.
LEMMA CancelRunInv ==
  ASSUME DispatchInv, NEW r \in Runs, CancelRun(r)
  PROVE  DispatchInv'
  <1> USE DEF CancelRun, RowsIn
  <1>0. \A p \in RowsIn(r) : order[p] = "none" /\ stamp[p] = None /\ status[p] = "pending" /\ p \notin retried
    BY DEF DispatchInv, TypeOK, RowInv, DraftRowsUntouched, SentInv, UnstampedUnsent,
           Waiting, RetriedHaveFailed
  <1>1. TypeOK'
    BY DEF DispatchInv, TypeOK, PaymentStatus, RunStatus
  <1>2. RowInv'
    <2> USE DEF DispatchInv, TypeOK, RowInv
    <2>1. RowsWellFormed' /\ DraftRowsUntouched'
      BY <1>0 DEF RowsWellFormed, DraftRowsUntouched, Exists, Booked, Begun
    <2>2. OneLiveRow' /\ RetriedHaveFailed'
      BY <1>0 DEF OneLiveRow, RetriedHaveFailed, Live
    <2>3. RunsHaveRows'
      BY <1>0 DEF RunsHaveRows, Exists, Booked, Begun
    <2> QED BY <2>1, <2>2, <2>3
  <1>3. PassInv'
    <2> USE DEF DispatchInv, TypeOK, PassInv
    <2>1. PassOnItsRun'
      BY <1>0 DEF PassOnItsRun, Exists, Begun
    <2>2. TurnOnARow' /\ HolderOwnsStamp'
      BY <1>0 DEF TurnOnARow, HolderOwnsStamp, Exists, Begun, Turn, Holding, Expected
    <2> QED BY <2>1, <2>2
  <1>4. SentInv'
    BY <1>0
       DEF DispatchInv, TypeOK, SentInv, UnstampedUnsent, FirstAttemptUnsent, PassInv,
           TurnOnARow, Turn, Waiting, Exists
  <1>5. InDoubtIsBlocked' /\ NoUnansweredDoublePayment'
    BY <1>0
       DEF DispatchInv, TypeOK, InDoubtIsBlocked, NoUnansweredDoublePayment, Unanswered,
           MoneyOut, Answered, TakenAsDeclined, SameInvoice, Live, LiveOrder, Exists
  <1> QED BY <1>1, <1>2, <1>3, <1>4, <1>5 DEF DispatchInv

-----------------------------------------------------------------------------
(* Booking *)

\* Rows inserted under the unique index keep what is said of rows and money.
LEMMA InsertRows ==
  ASSUME DispatchInv, NEW Q, NEW who \in [Q -> Invoices], NEW r \in Runs \cup {None}, Insert(Q, who, r),
         UNCHANGED <<books, world>>
  PROVE  /\ Q \subseteq Payments
         /\ \A p \in Q : ~Exists(p) /\ order[p] = "none" /\ stamp[p] = None /\ p \notin retried
         /\ status' \in [Payments -> PaymentStatus]
         /\ invoiceOf' \in [Payments -> Invoices \cup {None}]
         /\ runOf' \in [Payments -> Runs \cup {None}]
         /\ OneLiveRow' /\ UnstampedUnsent' /\ InDoubtIsBlocked' /\ NoUnansweredDoublePayment'
  <1> USE DEF Insert
  <1>0. /\ Q \subseteq Payments
        /\ \A p \in Q : ~Exists(p) /\ order[p] = "none" /\ stamp[p] = None /\ p \notin retried
    BY DEF Unused, DispatchInv, RowInv, RowsWellFormed, RetriedHaveFailed, Exists
  <1>1. /\ status' \in [Payments -> PaymentStatus]
        /\ invoiceOf' \in [Payments -> Invoices \cup {None}]
        /\ runOf' \in [Payments -> Runs \cup {None}]
    BY <1>0 DEF DispatchInv, TypeOK, PaymentStatus
  <1>2. OneLiveRow'
    BY <1>0
       DEF DispatchInv, TypeOK, RowInv, OneLiveRow, SlotFree, RowsOf, Live, Exists,
           Terminal
  <1>3. UnstampedUnsent'
    BY <1>0 DEF DispatchInv, SentInv, UnstampedUnsent
  <1>4. InDoubtIsBlocked' /\ NoUnansweredDoublePayment'
    BY <1>0
       DEF DispatchInv, InDoubtIsBlocked, NoUnansweredDoublePayment, Unanswered, MoneyOut,
           Answered, TakenAsDeclined, SameInvoice, Live, LiveOrder
  <1> QED BY <1>0, <1>1, <1>2, <1>3, <1>4

\* ... and disturb no dispatcher.
LEMMA InsertTurns ==
  ASSUME DispatchInv, NEW Q \in SUBSET Payments, NEW who, NEW r, Insert(Q, who, r), \A p \in Q : ~Exists(p),
         \A s \in Runs : runStatus'[s] = runStatus[s] \/ runStatus'[s] \in Begun \/ runStatus[s] = "unused",
         UNCHANGED <<procs, world>>
  PROVE  PassInv' /\ FirstAttemptUnsent'
  <1> USE DEF Insert
  <1>1. PassOnItsRun'
    <2>1. \A e \in Dispatchers : passOf[e] # None => runStatus'[passOf[e]] \in Begun
      <3>1. "unused" \notin Begun
        BY DEF Begun
      <3>2. \A e \in Dispatchers : passOf[e] # None =>
              passOf[e] \in Runs /\ runStatus[passOf[e]] \in Begun
        BY DEF DispatchInv, TypeOK, PassInv, PassOnItsRun
      <3> QED BY <3>1, <3>2
    <2>2. \A e \in Dispatchers : \A p \in todo[e] : p \in Payments /\ p \notin Q
      BY DEF DispatchInv, TypeOK, PassInv, PassOnItsRun
    <2> QED
      BY <2>1, <2>2 DEF DispatchInv, PassInv, PassOnItsRun, Exists
  <1>2. \A e \in Dispatchers : pc[e] \in Turn => cur[e] \in Payments \ Q
    BY DEF DispatchInv, PassInv, TurnOnARow
  <1>3. TurnOnARow'
    <2>1. \A p \in Payments \ Q : status'[p] = status[p] /\ runOf'[p] = runOf[p]
      BY DEF Insert
    <2>2. \A p \in Payments : runOf[p] # None => runOf[p] \in Runs
      BY DEF DispatchInv, TypeOK
    <2>3. \A e \in Dispatchers :
             pc[e] \in Turn /\ runOf[cur[e]] # None => runStatus'[runOf[cur[e]]] \in Begun
      BY <1>2, <2>2 DEF DispatchInv, PassInv, TurnOnARow, Begun
    <2> QED
      BY <1>2, <2>1, <2>3 DEF DispatchInv, PassInv, TurnOnARow, Exists
  <1>4. HolderOwnsStamp' /\ FirstAttemptUnsent'
    BY <1>2
       DEF DispatchInv, PassInv, HolderOwnsStamp, SentInv, FirstAttemptUnsent, Turn,
           Holding, Expected
  <1> QED BY <1>1, <1>3, <1>4 DEF PassInv

\* The run builder books a draft with at least one row.
LEMMA BookRunInv ==
  ASSUME DispatchInv, NEW r \in Runs, BookRun(r)
  PROVE  DispatchInv'
  <1>1. PICK Q \in SUBSET Unused : \E who \in [Q -> vetted] :
                /\ \A i \in vetted : \E p \in Q : who[p] = i
                /\ Insert(Q, who, r)
    BY DEF BookRun
  <1>2. PICK who \in [Q -> vetted] :
                /\ \A i \in vetted : \E p \in Q : who[p] = i
                /\ Insert(Q, who, r)
    BY <1>1
  <1>3. Q # {} /\ who \in [Q -> Invoices]
    BY <1>2 DEF BookRun, DispatchInv, TypeOK
  <1>4. UNCHANGED <<retried, books, lists, procs, world>> /\ runStatus[r] = "unused"
        /\ runStatus' = [runStatus EXCEPT ![r] = "draft"] /\ vetted' = {}
    BY DEF BookRun
  <1>5. /\ Q \subseteq Payments
        /\ \A p \in Q : ~Exists(p) /\ order[p] = "none" /\ stamp[p] = None /\ p \notin retried
        /\ status' \in [Payments -> PaymentStatus]
        /\ invoiceOf' \in [Payments -> Invoices \cup {None}]
        /\ runOf' \in [Payments -> Runs \cup {None}]
        /\ OneLiveRow' /\ UnstampedUnsent' /\ InDoubtIsBlocked' /\ NoUnansweredDoublePayment'
    BY <1>2, <1>3, <1>4, InsertRows
  <1>6. TypeOK'
    BY <1>2, <1>4, <1>5 DEF DispatchInv, TypeOK, Insert, RunStatus
  <1>7. RowInv'
    <2> USE <1>2, <1>3, <1>4, <1>5 DEF DispatchInv, TypeOK, RowInv, Insert
    <2>1. \A p \in Payments : Exists(p) => runOf[p] # r
      BY DEF RowsWellFormed, Booked, Begun
    <2>2. RowsWellFormed'
      BY DEF RowsWellFormed, Exists, Booked, Begun
    <2>3. DraftRowsUntouched'
      BY <2>1 DEF RowsWellFormed, DraftRowsUntouched, Exists
    <2>4. RetriedHaveFailed'
      BY DEF RetriedHaveFailed
    <2>5. RunsHaveRows'
      BY DEF RunsHaveRows, Exists, Booked, Begun
    <2> QED BY <2>2, <2>3, <2>4, <2>5
  <1>8. PassInv' /\ FirstAttemptUnsent'
    BY <1>2, <1>4, <1>5, InsertTurns DEF DispatchInv, TypeOK
  <1> QED BY <1>5, <1>6, <1>7, <1>8 DEF DispatchInv, SentInv

\* A standalone payment.
LEMMA CreatePaymentInv ==
  ASSUME DispatchInv, NEW i \in Invoices, NEW p \in Payments, CreatePayment(i, p)
  PROVE  DispatchInv'
  <1> DEFINE who == [q \in {p} |-> i]
  <1>1. Insert({p}, who, None) /\ who \in [{p} -> Invoices]
        /\ UNCHANGED <<retried, books, runStatus, vetted, lists, procs, world>>
    BY DEF CreatePayment
  <1> HIDE DEF who
  <1>2. /\ \A q \in {p} : ~Exists(q) /\ order[q] = "none" /\ stamp[q] = None /\ q \notin retried
        /\ status' \in [Payments -> PaymentStatus]
        /\ invoiceOf' \in [Payments -> Invoices \cup {None}]
        /\ runOf' \in [Payments -> Runs \cup {None}]
        /\ OneLiveRow' /\ UnstampedUnsent' /\ InDoubtIsBlocked' /\ NoUnansweredDoublePayment'
    BY <1>1, InsertRows
  <1>3. TypeOK'
    BY <1>1, <1>2 DEF DispatchInv, TypeOK, Insert
  <1>4. RowInv'
    <2> USE <1>1, <1>2 DEF DispatchInv, TypeOK, RowInv, Insert
    <2>1. RowsWellFormed' /\ DraftRowsUntouched'
      BY DEF RowsWellFormed, DraftRowsUntouched, Exists
    <2>2. RetriedHaveFailed'
      BY DEF RetriedHaveFailed
    <2>3. RunsHaveRows'
      BY DEF RunsHaveRows, Exists
    <2> QED BY <1>2, <2>1, <2>2, <2>3
  <1>5. PassInv' /\ FirstAttemptUnsent'
    BY <1>1, <1>2, InsertTurns
  <1> QED BY <1>2, <1>3, <1>4, <1>5 DEF DispatchInv, SentInv

\* A retry books a fresh row for each failure it replaces, so the run keeps an
\* active row.
LEMMA BookRetryInv ==
  ASSUME DispatchInv, NEW d \in Dispatchers, BookRetry(d)
  PROVE  DispatchInv'
  <1> DEFINE r == passOf[d]
  <1>a. PICK ok \in SUBSET {p \in todo[d] : SlotFree(invoiceOf[p])} :
          /\ \E Q \in SUBSET Unused : \E again \in [Q -> ok] :
                /\ \A p \in ok : \E q \in Q : again[q] = p
                /\ Insert(Q, [q \in Q |-> invoiceOf[again[q]]], r)
                /\ seen' = [seen EXCEPT ![d] =
                              [p \in Payments |-> IF p \in Q THEN "pending" ELSE @[p]]]
          /\ retried' = retried \cup ok
    BY DEF BookRetry
  <1>0. /\ r \in Runs /\ runStatus[r] \in Begun /\ pc[d] = "retrying" /\ ok \subseteq Payments
        /\ \A p \in ok : status[p] = "failed" /\ runOf[p] = r /\ invoiceOf[p] \in Invoices
    BY <1>a DEF BookRetry, DispatchInv, TypeOK, PassInv, PassOnItsRun, RowInv, RowsWellFormed,
           Exists
  <1>1. PICK Q \in SUBSET Unused : \E again \in [Q -> ok] :
              /\ \A p \in ok : \E q \in Q : again[q] = p
              /\ Insert(Q, [q \in Q |-> invoiceOf[again[q]]], r)
              /\ seen' = [seen EXCEPT ![d] =
                            [p \in Payments |-> IF p \in Q THEN "pending" ELSE @[p]]]
    BY <1>a
  <1>2. PICK again \in [Q -> ok] :
              /\ \A p \in ok : \E q \in Q : again[q] = p
              /\ Insert(Q, [q \in Q |-> invoiceOf[again[q]]], r)
              /\ seen' = [seen EXCEPT ![d] =
                            [p \in Payments |-> IF p \in Q THEN "pending" ELSE @[p]]]
    BY <1>1
  <1> DEFINE who == [q \in Q |-> invoiceOf[again[q]]]
  <1>3. who \in [Q -> Invoices]
    BY <1>0, <1>2
  <1>4. /\ retried' = retried \cup ok
        /\ runStatus' = [runStatus EXCEPT ![r] = "executing"]
        /\ pc' = [pc EXCEPT ![d] = "claimed"]
        /\ todo' = [todo EXCEPT ![d] = {}]
        /\ runSeen' = [runSeen EXCEPT ![d] = "executing"]
        /\ UNCHANGED <<books, vetted, lists, passOf, cur, remarked, world>>
        /\ Insert(Q, who, r)
    BY <1>a, <1>2 DEF BookRetry
  <1> HIDE DEF who, r
  <1>5. /\ Q \subseteq Payments
        /\ \A p \in Q : ~Exists(p) /\ order[p] = "none" /\ stamp[p] = None /\ p \notin retried
        /\ status' \in [Payments -> PaymentStatus]
        /\ invoiceOf' \in [Payments -> Invoices \cup {None}]
        /\ runOf' \in [Payments -> Runs \cup {None}]
        /\ OneLiveRow' /\ UnstampedUnsent' /\ InDoubtIsBlocked' /\ NoUnansweredDoublePayment'
    BY <1>0, <1>3, <1>4, InsertRows
  <1>6. TypeOK'
    <2>1. seen' \in [Dispatchers -> [Payments -> PaymentStatus]]
      <3>1. [p \in Payments |-> IF p \in Q THEN "pending" ELSE seen[d][p]] \in [Payments -> PaymentStatus]
        BY DEF DispatchInv, TypeOK, PaymentStatus
      <3> QED BY <1>2, <3>1 DEF DispatchInv, TypeOK
    <2>2. stamp' = stamp /\ reason' = reason
      BY <1>4 DEF Insert
    <2> QED BY <1>0, <1>4, <1>5, <2>1, <2>2 DEF DispatchInv, TypeOK, RunStatus, PC
  <1>7. RowInv'
    <2> USE <1>0, <1>4, <1>5 DEF DispatchInv, TypeOK, RowInv, Insert
    <2>1. RowsWellFormed' /\ DraftRowsUntouched'
      BY <1>3 DEF RowsWellFormed, DraftRowsUntouched, Exists, Booked, Begun
    <2>2. RetriedHaveFailed'
      BY DEF RetriedHaveFailed, Exists
    <2>3. RunsHaveRows'
      <3> SUFFICES ASSUME NEW s \in Runs, runStatus'[s] \in Booked
                   PROVE  \E p \in Payments : (Exists(p) /\ runOf[p] = s /\ p \notin retried)'
        BY DEF RunsHaveRows
      <3>1. PICK p \in Payments : Exists(p) /\ runOf[p] = s /\ p \notin retried
        BY DEF RunsHaveRows, Booked, Begun
      <3>2. CASE p \notin ok
        BY <3>1, <3>2 DEF Exists
      <3>3. CASE p \in ok
        <4>1. s = r
          BY <3>1, <3>3
        <4>2. PICK q \in Q : again[q] = p
          BY <1>2, <3>3
        <4>3. q \notin ok
          BY DEF Exists
        <4> QED BY <4>1, <4>2, <4>3 DEF Exists
      <3> QED BY <3>2, <3>3
    <2> QED BY <2>1, <2>2, <2>3
  <1>8. PassInv' /\ FirstAttemptUnsent'
    <2> USE <1>0, <1>4, <1>5 DEF DispatchInv, TypeOK, PassInv, Insert
    <2>1. PassOnItsRun'
      BY DEF PassOnItsRun, Exists, Begun, r
    <2>2. TurnOnARow' /\ HolderOwnsStamp' /\ FirstAttemptUnsent'
      BY DEF TurnOnARow, HolderOwnsStamp, SentInv, FirstAttemptUnsent, Exists,
             Begun, Turn, Holding, Expected, Waiting
    <2> QED BY <2>1, <2>2
  <1> QED BY <1>5, <1>6, <1>7, <1>8 DEF DispatchInv, SentInv

\* An invoice recorded as paid outside had no money out before.
LEMMA RecordOutsideInv ==
  ASSUME DispatchInv, NEW i \in Invoices, NEW p \in Payments, RecordOutside(i, p)
  PROVE  DispatchInv'
  <1>1. /\ i \notin flagged /\ status[p] \in {"pending", "unused"}
        /\ UNCHANGED <<runOf, runStatus, reason, stamp, retried, flagged, vetted, lists, procs, reconciled>>
        /\ status' = [status EXCEPT ![p] = "completed"]
        /\ order' = [q \in Payments |-> IF q = p THEN "outside" ELSE order[q]]
    <2>1. CompleteOutside({p}, {i}) /\ i \notin flagged /\ runStatus' = runStatus
      BY DEF RecordOutside, Recordable
    <2>2. order' = [q \in Payments |-> IF q = p THEN "outside" ELSE order[q]]
      BY <2>1 DEF CompleteOutside
    <2>3. status[p] \in {"pending", "unused"} /\ runOf' = runOf
          /\ status' = [status EXCEPT ![p] = "completed"]
      BY DEF RecordOutside, Unused, Exists
    <2> QED BY <2>1, <2>2, <2>3 DEF CompleteOutside
  <1>2. runOf[p] = None
    BY DEF RecordOutside, Unused, DispatchInv, RowInv, RowsWellFormed
  <1>3. /\ invoiceOf' \in [Payments -> Invoices \cup {None}]
        /\ invoiceOf'[p] = i
        /\ \A q \in Payments \ {p} : invoiceOf'[q] = invoiceOf[q]
        /\ Exists(p) => invoiceOf[p] = i
    <2>1. CASE p \in RowsOf(i) /\ invoiceOf' = invoiceOf
      BY <2>1 DEF RowsOf, DispatchInv, TypeOK
    <2>2. CASE p \in Unused /\ invoiceOf' = [invoiceOf EXCEPT ![p] = i]
      BY <2>2 DEF Unused, DispatchInv, TypeOK
    <2> QED BY <2>1, <2>2 DEF RecordOutside
  <1>4. \A q \in Payments \ {p} : Live(q) => invoiceOf[q] # i
    <2>1. CASE p \in RowsOf(i) /\ status[p] = "pending"
      BY <2>1 DEF RowsOf, Live, Terminal, DispatchInv, RowInv, OneLiveRow
    <2>2. CASE SlotFree(i)
      BY <2>2 DEF SlotFree, RowsOf, Live, Exists
    <2> QED BY <2>1, <2>2 DEF RecordOutside
  <1>5. invoiceStatus' \in [Invoices -> InvoiceStatus]
    BY DEF RecordOutside, CompleteOutside, DispatchInv, TypeOK, InvoiceStatus
  <1>6. ~RowHeld(p)
    BY <1>1, <1>2, NotHeld DEF Waiting
  <1>7. TypeOK'
    BY <1>1, <1>3, <1>5 DEF DispatchInv, TypeOK, PaymentStatus, OrderStatus
  <1>8. RowInv'
    <2> USE <1>1, <1>2, <1>3 DEF DispatchInv, TypeOK, RowInv
    <2>1. RowsWellFormed' /\ DraftRowsUntouched'
      BY DEF RowsWellFormed, DraftRowsUntouched, Exists
    <2>2. OneLiveRow'
      BY <1>4 DEF OneLiveRow, Live
    <2>3. RetriedHaveFailed' /\ RunsHaveRows'
      BY DEF RetriedHaveFailed, RunsHaveRows, Exists
    <2> QED BY <2>1, <2>2, <2>3
  <1>9. PassInv'
    <2> USE <1>1, <1>6 DEF DispatchInv, TypeOK, PassInv
    <2>1. PassOnItsRun' /\ TurnOnARow'
      BY DEF PassOnItsRun, TurnOnARow, Exists, Turn
    <2>2. HolderOwnsStamp'
      BY DEF HolderOwnsStamp, TurnOnARow, Turn, Holding, Expected, RowHeld
    <2> QED BY <2>1, <2>2
  <1>10. SentInv'
    BY <1>1
       DEF DispatchInv, TypeOK, SentInv, UnstampedUnsent, FirstAttemptUnsent, PassInv,
           TurnOnARow, Turn, Waiting
  <1>11. \A q \in Payments \ {p} : Unanswered(q)' <=> Unanswered(q)
    BY <1>1 DEF DispatchInv, TypeOK, Unanswered, MoneyOut, Answered, TakenAsDeclined
  <1>12. InDoubtIsBlocked'
    BY <1>1, <1>3, <1>11 DEF DispatchInv, TypeOK, InDoubtIsBlocked, Live, Terminal
  <1>13. \A q \in Payments \ {p} : Unanswered(q) => invoiceOf[q] # i
    BY <1>1, <1>4 DEF DispatchInv, InDoubtIsBlocked
  <1>14. NoUnansweredDoublePayment'
    BY <1>3, <1>11, <1>13 DEF DispatchInv, NoUnansweredDoublePayment, SameInvoice
  <1> QED BY <1>7, <1>8, <1>9, <1>10, <1>12, <1>14 DEF DispatchInv

\* A draft run recorded as paid outside: as many invoices as rows.
LEMMA RecordRunOutsideInv ==
  ASSUME DispatchInv, NEW r \in Runs, RecordRunOutside(r)
  PROVE  DispatchInv'
  <1> DEFINE Q == RowsIn(r)
  <1>1. /\ UNCHANGED <<invoiceOf, runOf, reason, stamp, retried, flagged, vetted, lists, procs, reconciled>>
        /\ runStatus[r] = "draft" /\ runStatus' = [runStatus EXCEPT ![r] = "completed"]
        /\ status' = [p \in Payments |-> IF p \in Q THEN "completed" ELSE status[p]]
        /\ order' = [p \in Payments |-> IF p \in Q THEN "outside" ELSE order[p]]
    BY DEF RecordRunOutside, CompleteOutside
  <1>2. \A p \in Q : /\ status[p] = "pending" /\ Live(p) /\ runOf[p] = r /\ Exists(p)
                     /\ invoiceOf[p] \in Invoices /\ invoiceOf[p] \notin flagged
                     /\ p \in Payments
    BY DEF RecordRunOutside, Recordable, RowsIn, Live, Terminal, DispatchInv, RowInv,
           RowsWellFormed, Exists
  <1>3. \A p \in Payments : Exists(p) /\ runOf[p] = r => p \in Q
    BY DEF RowsIn
  <1>4. invoiceStatus' \in [Invoices -> InvoiceStatus]
    BY DEF RecordRunOutside, CompleteOutside, DispatchInv, TypeOK, InvoiceStatus
  <1> HIDE DEF Q
  <1>5. TypeOK'
    BY <1>1, <1>4 DEF DispatchInv, TypeOK, PaymentStatus, OrderStatus, RunStatus
  <1>6. RowInv'
    <2> USE <1>1, <1>2, <1>3 DEF DispatchInv, TypeOK, RowInv
    <2>1. RowsWellFormed' /\ DraftRowsUntouched'
      BY DEF RowsWellFormed, DraftRowsUntouched, Exists, Booked, Begun
    <2>2. OneLiveRow' /\ RetriedHaveFailed'
      BY DEF OneLiveRow, RetriedHaveFailed, Live
    <2>3. RunsHaveRows'
      BY DEF RunsHaveRows, Exists, Booked, Begun
    <2> QED BY <2>1, <2>2, <2>3
  <1>7. PassInv'
    <2> USE <1>1, <1>2 DEF DispatchInv, TypeOK, PassInv
    <2>1. PassOnItsRun'
      BY DEF PassOnItsRun, Exists, Begun
    <2>2. TurnOnARow'
      BY DEF TurnOnARow, Exists, Turn, Begun
    <2>3. HolderOwnsStamp'
      BY DEF HolderOwnsStamp, TurnOnARow, Turn, Holding, Expected, Begun
    <2> QED BY <2>1, <2>2, <2>3
  <1>8. SentInv'
    BY <1>1
       DEF DispatchInv, TypeOK, SentInv, UnstampedUnsent, FirstAttemptUnsent, PassInv,
           TurnOnARow, Turn, Waiting
  <1>9. \A q \in Payments \ Q : Unanswered(q)' <=> Unanswered(q)
    BY <1>1 DEF Unanswered, MoneyOut, Answered, TakenAsDeclined
  <1>10. InDoubtIsBlocked'
    BY <1>1, <1>9 DEF DispatchInv, InDoubtIsBlocked, Live, Terminal
  <1>11. \A p \in Q : \A q \in Payments \ {p} : invoiceOf[q] = invoiceOf[p] => q \notin Q /\ ~Unanswered(q)
    BY <1>2 DEF DispatchInv, RowInv, OneLiveRow, InDoubtIsBlocked
  <1>12. NoUnansweredDoublePayment'
    BY <1>1, <1>9, <1>11 DEF DispatchInv, NoUnansweredDoublePayment, SameInvoice
  <1> QED BY <1>5, <1>6, <1>7, <1>8, <1>10, <1>12 DEF DispatchInv

-----------------------------------------------------------------------------
(* The invariant is inductive *)

\* Every booking step keeps the invariant.
LEMMA BookingInv ==
  ASSUME DispatchInv, Booking
  PROVE  DispatchInv'
  <1>1. CASE (\E S \in SUBSET Invoices : VetInvoices(S)) \/ AbandonRun
    BY <1>1, VetInvoicesInv
  <1>2. CASE \E r \in Runs : BookRun(r) \/ CancelRun(r) \/ RecordRunOutside(r)
    BY <1>2, BookRunInv, CancelRunInv, RecordRunOutsideInv
  <1>3. CASE \E i \in Invoices, p \in Payments : CreatePayment(i, p) \/ RecordOutside(i, p)
    BY <1>3, CreatePaymentInv, RecordOutsideInv
  <1> QED BY <1>1, <1>2, <1>3 DEF Booking

\* Every step of a request keeps the invariant.
LEMMA DispatcherInv ==
  ASSUME DispatchInv, NEW d \in Dispatchers, Begin(d) \/ Proceed(d) \/ Break(d)
  PROVE  DispatchInv'
  <1>1. CASE Begin(d)
    BY <1>1, ExecuteInv, ResumeInv, VetRetryInv, MarkInv DEF Begin
  <1>2. CASE Proceed(d)
    <2>1. CASE BookRetry(d) \/ RefuseRetry(d) \/ ReadPending(d)
      BY <2>1, BookRetryInv, ToIdleInv, ReadPendingInv DEF RefuseRetry
    <2>2. CASE \E p \in Payments : MarkNext(d, p) \/ SkipMoved(d, p)
      BY <2>2, MarkInv, SkipInv
    <2>3. CASE Relock(d) \/ SkipClaimed(d)
      BY <2>3, RelockInv, SkipInv
    <2>4. CASE CallProcessor(d)
      BY <2>4, CallInv
    <2>5. CASE Answers(d)
      BY <2>5, AnswersInv
    <2>6. CASE Finish(d)
      BY <2>6, FinishInv
    <2> QED BY <1>2, <2>1, <2>2, <2>3, <2>4, <2>5, <2>6 DEF Proceed, Answers
  <1>3. CASE Break(d)
    BY <1>3, RelockInv, ToIdleInv DEF Break, Crash
  <1> QED BY <1>1, <1>2, <1>3

\* A stuttering step keeps the invariant.
LEMMA StutterInv ==
  ASSUME DispatchInv, UNCHANGED vars
  PROVE  DispatchInv'
  <1> USE DEF vars
  <1>1. TypeOK' /\ BegunStay
    BY DEF DispatchInv, TypeOK, BegunStay
  <1>2. RowInv' /\ UnstampedUnsent' /\ InDoubtIsBlocked' /\ NoUnansweredDoublePayment'
    BY <1>1, QuietRows
  <1>3. PassInv' /\ FirstAttemptUnsent'
    BY DEF DispatchInv, PassInv, PassOnItsRun, TurnOnARow, HolderOwnsStamp, Exists,
           Expected, SentInv, FirstAttemptUnsent
  <1> QED BY <1>1, <1>2, <1>3 DEF DispatchInv, SentInv

\* Storing a derived status keeps the invariant, as the run has begun.
LEMMA ListingInv ==
  ASSUME IInv, NEW v \in Viewers, Listing(v)
  PROVE  DispatchInv'
  <1> USE DEF IInv
  <1>1. UNCHANGED <<rows, books, vetted, procs, world>>
    BY DEF Listing, ListRun, DeriveStatus, PersistDerived
  <1>2. BegunStay /\ listing' \in [Viewers -> Runs \cup {None}]
        /\ listed' \in [Viewers -> RunStatus] /\ derived' \in [Viewers -> RunStatus]
    <2>1. CASE \E r \in Runs : ListRun(v, r)
      BY <2>1 DEF ListRun, DispatchInv, TypeOK, BegunStay
    <2>2. CASE DeriveStatus(v)
      <3>1. RollupStatus(Active(listing[v]), status) \in RunStatus
        BY DEF RollupStatus, RunStatus
      <3> QED BY <2>2, <3>1 DEF DeriveStatus, DispatchInv, TypeOK, BegunStay
    <2>3. CASE PersistDerived(v)
      <3>1. /\ listing[v] \in Runs /\ {runStatus[listing[v]], derived[v]} \subseteq Begun
            /\ runStatus' \in {runStatus, [runStatus EXCEPT ![listing[v]] = derived[v]]}
        BY <2>3 DEF PersistDerived, ListedHaveBegun, DispatchInv, TypeOK
      <3>2. BegunStay
        BY <3>1 DEF BegunStay, DispatchInv, TypeOK
      <3> QED BY <2>3, <3>2 DEF PersistDerived, DispatchInv, TypeOK, RunStatus
    <2> QED BY <2>1, <2>2, <2>3 DEF Listing
  <1>3. TypeOK'
    BY <1>1, <1>2 DEF DispatchInv, TypeOK, BegunStay
  <1>4. RowInv' /\ UnstampedUnsent' /\ InDoubtIsBlocked' /\ NoUnansweredDoublePayment'
    BY <1>1, <1>2, QuietRows
  <1>5. PassInv' /\ FirstAttemptUnsent'
    BY <1>1, <1>2
       DEF DispatchInv, TypeOK, PassInv, PassOnItsRun, TurnOnARow, HolderOwnsStamp,
           Exists, Expected, SentInv, FirstAttemptUnsent, BegunStay
  <1> QED BY <1>3, <1>4, <1>5 DEF DispatchInv, SentInv

\* Every step keeps what the properties need.
LEMMA NextInv == IInv /\ [Next]_vars => DispatchInv'
  <1> SUFFICES ASSUME IInv, [Next]_vars PROVE DispatchInv'
    OBVIOUS
  <1> USE DEF IInv
  <1>1. CASE Booking
    BY <1>1, BookingInv
  <1>2. CASE \E d \in Dispatchers : Begin(d) \/ Proceed(d) \/ Break(d)
    BY <1>2, DispatcherInv
  <1>3. CASE Review
    BY <1>3, ReviewInv, ResolveExceptionInv DEF Review
  <1>4. CASE \E p \in Payments : ProcessorDecides(p) \/ Webhook(p) \/ Reconcile(p)
    BY <1>4, ProcessorDecidesInv, RailInv
  <1>5. CASE \E v \in Viewers : Listing(v)
    BY <1>5, ListingInv
  <1>6. CASE UNCHANGED vars
    BY <1>6, StutterInv
  <1> QED BY <1>1, <1>2, <1>3, <1>4, <1>5, <1>6 DEF Next

\* Recording an outcome keeps a begun run begun.
LEMMA AnswersBegun ==
  ASSUME DispatchInv, NEW d \in Dispatchers, Answers(d)
  PROVE  BegunStay
  <1>1. cur[d] \in Payments
    BY DEF Answers, InvoiceLocked, Refuse, Hold, FailBeforeCall, RecordAccepted,
           RecordRefused, FailAfterCall, RecordAborted, DispatchInv, PassInv,
           TurnOnARow, Turn
  <1>2. runStatus' = runStatus \/ runStatus' = Recomputed(cur[d], status')
    BY DEF Answers, InvoiceLocked, Refuse, Hold, FailBeforeCall, RecordAccepted,
           RecordRefused, FailAfterCall, RecordAborted, Outcome
  <1>3. CASE runStatus' = runStatus
    BY <1>3 DEF BegunStay, DispatchInv, TypeOK
  <1>4. CASE runStatus' = Recomputed(cur[d], status')
    BY <1>1, <1>4, RecomputedBegun
  <1> QED BY <1>2, <1>3, <1>4

\* No step takes a run that has begun back to a claim that is not a dispatch.
LEMMA RunsStayBegun ==
  ASSUME IInv, [Next]_vars, NEW r \in Runs, runStatus[r] \in Begun
  PROVE  runStatus'[r] \in Begun
  <1> USE DEF IInv
  <1>1. CASE Booking
    <2>1. \/ runStatus' = runStatus
          \/ \E s \in Runs : /\ runStatus[s] \in {"unused", "draft"}
                             /\ \E x : runStatus' = [runStatus EXCEPT ![s] = x]
      BY <1>1
         DEF Booking, VetInvoices, AbandonRun, BookRun, CancelRun, RecordRunOutside,
             CreatePayment, RecordOutside
    <2>2. runStatus[r] \notin {"unused", "draft"} /\ runStatus \in [Runs -> RunStatus]
      BY DEF DispatchInv, TypeOK, Begun
    <2> QED BY <2>1, <2>2
  <1>2. ASSUME NEW d \in Dispatchers, Begin(d) \/ Proceed(d) \/ Break(d)
        PROVE  runStatus'[r] \in Begun
    <2>1. CASE (\E s \in Runs : Execute(d, s)) \/ BookRetry(d)
      <3>1. runStatus \in [Runs -> RunStatus] /\ "executing" \in Begun
        BY DEF DispatchInv, TypeOK, Begun
      <3>2. \E s : runStatus' = [runStatus EXCEPT ![s] = "executing"]
        BY <2>1 DEF Execute, BookRetry
      <3> QED BY <3>1, <3>2
    <2>2. CASE Finish(d)
      BY <2>2, FinishBegun DEF BegunStay
    <2>3. CASE Answers(d)
      BY <2>3, AnswersBegun DEF BegunStay
    <2>4. CASE ~(\E s \in Runs : Execute(d, s)) /\ ~BookRetry(d) /\ ~Finish(d) /\ ~Answers(d)
      <3>1. runStatus' = runStatus
        BY <1>2, <2>4
           DEF Begin, Proceed, Break, Answers, Resume, VetRetry, Release, MarkNext,
               Mark, RefuseRetry, ReadPending, SkipMoved, Relock, SkipClaimed,
               CallProcessor, LoseConnection, Crash
      <3> QED BY <3>1
    <2> QED BY <2>1, <2>2, <2>3, <2>4
  <1>3. CASE Review
    BY <1>3, RecomputedBegun
       DEF Review, Dismiss, Void, ResolveException, BegunStay
  <1>4. CASE \E p \in Payments : ProcessorDecides(p) \/ Webhook(p) \/ Reconcile(p)
    BY <1>4 DEF ProcessorDecides, Webhook, Reconcile, Poll, AgeOut
  <1>5. CASE \E v \in Viewers : Listing(v)
    BY <1>5
       DEF Listing, ListRun, DeriveStatus, PersistDerived, ListedHaveBegun,
           DispatchInv, TypeOK, Begun
  <1>6. CASE UNCHANGED vars
    BY <1>6 DEF vars
  <1> QED BY <1>1, <1>2, <1>3, <1>4, <1>5, <1>6 DEF Next

\* What is being listed has begun, and stays so.
LEMMA ListedNext ==
  ASSUME IInv, [Next]_vars, NEW v \in Viewers
  PROVE  /\ listing'[v] # None => runStatus'[listing'[v]] \in Begun
         /\ derived'[v] \in Begun \cup {"unused"}
  <1> USE DEF IInv
  <1>1. CASE UNCHANGED lists
    BY <1>1, RunsStayBegun DEF ListedHaveBegun, DispatchInv, TypeOK
  <1>2. ASSUME NEW w \in Viewers, Listing(w)
        PROVE  /\ listing'[v] # None => runStatus'[listing'[v]] \in Begun
               /\ derived'[v] \in Begun \cup {"unused"}
    <2>1. CASE \E r \in Runs : ListRun(w, r)
      <3>1. PICK r \in Runs : ListRun(w, r)
        BY <2>1
      <3>2. runStatus' = runStatus /\ runStatus[r] \in Begun /\ derived' = derived
        BY <3>1 DEF ListRun, Begun
      <3>3. CASE v # w
        BY <3>1, <3>2, <3>3 DEF ListRun, ListedHaveBegun, DispatchInv, TypeOK
      <3>4. CASE v = w
        BY <3>1, <3>2, <3>4 DEF ListRun, ListedHaveBegun, DispatchInv, TypeOK
      <3> QED BY <3>3, <3>4
    <2>2. CASE DeriveStatus(w)
      <3>1. listing[w] \in Runs /\ runStatus[listing[w]] \in Begun
        BY <2>2 DEF DeriveStatus, ListedHaveBegun, DispatchInv, TypeOK
      <3>2. Active(listing[w]) # {}
        BY <3>1 DEF DispatchInv, RowInv, RunsHaveRows, Booked, Active, RowsIn
      <3>3. RollupStatus(Active(listing[w]), status) \in Begun
        BY <3>2, RollupBegun
      <3> QED BY <2>2, <3>3 DEF DeriveStatus, ListedHaveBegun, DispatchInv, TypeOK
    <2>3. CASE PersistDerived(w)
      <3>1. listing'[v] \in {listing[v], None} /\ derived'[v] \in {derived[v], "unused"}
        BY <2>3 DEF PersistDerived, DispatchInv, TypeOK
      <3>2. listing[v] # None => runStatus'[listing[v]] \in Begun
        BY RunsStayBegun DEF ListedHaveBegun, DispatchInv, TypeOK
      <3> QED BY <3>1, <3>2 DEF ListedHaveBegun
    <2> QED BY <1>2, <2>1, <2>2, <2>3 DEF Listing
  <1>3. CASE Booking \/ Review
    BY <1>1, <1>3
       DEF Booking, VetInvoices, AbandonRun, BookRun, CancelRun, RecordRunOutside,
           CreatePayment, RecordOutside, CompleteOutside, Review, Dismiss, Void,
           ResolveException
  <1>4. ASSUME NEW d \in Dispatchers, Begin(d) \/ Proceed(d) \/ Break(d)
        PROVE  UNCHANGED lists
    <2>1. CASE Answers(d)
      BY <2>1
         DEF Answers, InvoiceLocked, Refuse, Hold, FailBeforeCall, RecordAccepted,
             RecordRefused, FailAfterCall, RecordAborted, Outcome
    <2>2. CASE ~Answers(d)
      BY <1>4, <2>2
         DEF Begin, Proceed, Break, Answers, Execute, Resume, VetRetry, Release,
             MarkNext, Mark, BookRetry, RefuseRetry, ReadPending, SkipMoved, Relock,
             SkipClaimed, CallProcessor, Finish, LoseConnection, Crash
    <2> QED BY <2>1, <2>2
  <1>5. CASE \E p \in Payments : ProcessorDecides(p) \/ Webhook(p) \/ Reconcile(p)
    BY <1>1, <1>5 DEF ProcessorDecides, Webhook, Reconcile, Poll, AgeOut
  <1>6. CASE UNCHANGED vars
    BY <1>1, <1>6 DEF vars
  <1> QED BY <1>1, <1>2, <1>3, <1>4, <1>5, <1>6 DEF Next

\* The invariant behind the safety properties holds throughout, whatever the
\* number of invoices, payments, runs and concurrent requests of the dispatch,
\* retry, release and reconciliation code.
THEOREM Invariance == Spec => []IInv
  <1>1. Init => IInv
    BY InitInv DEF Init, IInv, ListedHaveBegun
  <1>2. IInv /\ [Next]_vars => IInv'
    <2>1. IInv /\ [Next]_vars => ListedHaveBegun'
      BY ListedNext DEF ListedHaveBegun
    <2> QED BY <2>1, NextInv DEF IInv
  <1> QED BY <1>1, <1>2, PTL DEF Spec

\* The part of it that the properties below follow from.
LEMMA DispatchInvariance == Spec => []DispatchInv
  <1>1. IInv => DispatchInv
    BY DEF IInv
  <1> QED BY <1>1, Invariance, PTL

-----------------------------------------------------------------------------
(* What follows from it *)

\* The variables keep their types in every behaviour of the payment code.
THEOREM TypeCorrect == Spec => []TypeOK
  <1>1. DispatchInv => TypeOK
    BY DEF DispatchInv
  <1> QED BY <1>1, DispatchInvariance, PTL

\* However dispatch passes, resumes, retries, releases, crashes, webhooks, polls
\* and reviewers interleave, at most one row of an invoice has money out that
\* nobody answered for.
THEOREM NeverPaidTwice == Spec => []NoUnansweredDoublePayment
  <1>1. DispatchInv => NoUnansweredDoublePayment
    BY DEF DispatchInv
  <1> QED BY <1>1, DispatchInvariance, PTL

\* Money out under a row always holds the invoice's live slot or its
\* payment_reconciliation flag.
THEOREM DoubtBlocks == Spec => []InDoubtIsBlocked
  <1>1. DispatchInv => InDoubtIsBlocked
    BY DEF DispatchInv
  <1> QED BY <1>1, DispatchInvariance, PTL

\* cancel_payment_run and record_run_paid_outside act on draft runs: none of their
\* rows was ever sent or is in a dispatcher's hands.
THEOREM DraftsAreUnsent == Spec => []DraftIsUnsent
  <1>1. DispatchInv => DraftIsUnsent
    <2> SUFFICES ASSUME DispatchInv, NEW r \in Runs, runStatus[r] = "draft"
                 PROVE  /\ \A p \in RowsIn(r) : status[p] = "pending" /\ stamp[p] = None /\ order[p] = "none"
                        /\ \A d \in Dispatchers : passOf[d] # r /\ (todo[d] \cup {cur[d]}) \cap RowsIn(r) = {}
      BY DEF DraftIsUnsent
    <2>1. \A p \in RowsIn(r) : status[p] = "pending" /\ stamp[p] = None /\ order[p] = "none"
      BY DEF RowsIn, DispatchInv, RowInv, DraftRowsUntouched, SentInv, UnstampedUnsent, Waiting
    <2>2. \A d \in Dispatchers : passOf[d] # r /\ todo[d] \cap RowsIn(r) = {}
      BY DEF RowsIn, DispatchInv, PassInv, PassOnItsRun, Begun
    <2>3. \A d \in Dispatchers : cur[d] \notin RowsIn(r)
      BY DEF RowsIn, DispatchInv, PassInv, TurnOnARow, Begun
    <2> QED BY <2>1, <2>2, <2>3
  <1> QED BY <1>1, DispatchInvariance, PTL

-----------------------------------------------------------------------------
(* The life of a row *)

\* The life of a row: everything one step can do to row p.
RowKept(p) ==
    /\ status'[p] = status[p] /\ reason'[p] = reason[p]
    /\ \/ stamp'[p] = stamp[p] /\ order'[p] = order[p]
       \/ status[p] \in Waiting /\ order'[p] \in {order[p], "open", "settled"}
       \/ status[p] = "submitted" /\ stamp'[p] = stamp[p]
RowAnswered(p) ==
    /\ status[p] \in Waiting \cup {"submitted"} /\ order'[p] = order[p]
    /\ status'[p] \in {"submitted", "completed", "pending_compliance", "failed"}
    /\ status'[p] = "completed" => order[p] = "settled"
    /\ status'[p] = "pending_compliance" => status[p] \in Waiting
    /\ RetrySafe(p)' => order[p] = "none"
RowOutside(p) ==
    /\ status[p] \in {"unused", "pending"} /\ status'[p] = "completed" /\ order'[p] = "outside"
RowVoided(p) ==
    /\ status[p] \in {"pending", "submitted", "completed"} /\ status'[p] = "voided"
RowBooked(p) ==
    /\ order'[p] = order[p]
    /\ \/ status[p] = "unused" /\ status'[p] = "pending"
       \/ status[p] = "pending" /\ status'[p] = "unused"

RowStep(p) ==
    /\ RowKept(p) \/ RowAnswered(p) \/ RowOutside(p) \/ RowVoided(p) \/ RowBooked(p)
    /\ p \in reconciled' => p \in reconciled \/ status'[p] = "failed"

\* Recording an outcome is a RowStep of every row.
LEMMA OutcomeOfRow ==
  ASSUME DispatchInv, NEW d \in Dispatchers, NEW s \in {"failed", "submitted", "completed", "pending_compliance"},
         NEW why, NEW doubt,
         Outcome(d, s, why, doubt), UNCHANGED order,
         status[cur[d]] = Expected(d), cur[d] \in Payments,
         s = "completed" => order[cur[d]] = "settled",
         s = "failed" /\ why = "refused" => pc[d] = "attempt",
         NEW p \in Payments
  PROVE  RowStep(p)
  <1>1. CASE p # cur[d]
    BY <1>1 DEF Outcome, DispatchInv, TypeOK, RowStep, RowKept
  <1>2. CASE p = cur[d]
    <2>1. pc[d] = "attempt" /\ ~remarked[d] => order[p] = "none"
      BY <1>2
         DEF DispatchInv, PassInv, HolderOwnsStamp, SentInv, FirstAttemptUnsent, Holding,
             Expected, Waiting
    <2>2. pc[d] = "attempt" => stamp[p] # None
      BY <1>2 DEF DispatchInv, PassInv, HolderOwnsStamp, Holding
    <2>3. RetrySafe(p)' => order[p] = "none"
      BY <1>2, <2>1, <2>2 DEF Outcome, StampAfter, RetrySafe, DispatchInv, TypeOK
    <2>4. status[p] \in Waiting /\ status'[p] = s /\ reconciled' = reconciled
      BY <1>2 DEF Expected, Waiting, Outcome, DispatchInv, TypeOK
    <2> QED BY <1>2, <2>3, <2>4 DEF RowStep, RowAnswered
  <1> QED BY <1>1, <1>2

\* So is every way an attempt ends.
LEMMA AnswersOfRow ==
  ASSUME DispatchInv, NEW d \in Dispatchers, Answers(d), NEW p \in Payments
  PROVE  RowStep(p)
  <1>1. /\ pc[d] \in Holding \cup {"lost"} /\ order' = order
        /\ pc[d] \in Turn /\ cur[d] \in Payments
    BY DEF Answers, InvoiceLocked, Refuse, Hold, FailBeforeCall, RecordAccepted,
           RecordRefused, FailAfterCall, RecordAborted, Holding, Turn, DispatchInv,
           PassInv, TurnOnARow
  <1>2. pc[d] \in Holding => status[cur[d]] = Expected(d)
    BY DEF DispatchInv, PassInv, HolderOwnsStamp
  <1>3. CASE InvoiceLocked(d) \/ Refuse(d) \/ Hold(d) \/ FailBeforeCall(d)
    <2>1. CASE InvoiceLocked(d) /\ passOf[d] = None
      BY <1>1, <1>2, <2>1
         DEF InvoiceLocked, RowStep, RowKept, Expected, Waiting, Holding, DispatchInv,
             TypeOK
    <2>2. CASE ~(InvoiceLocked(d) /\ passOf[d] = None)
      BY <1>1, <1>2, <1>3, <2>2, OutcomeOfRow
         DEF InvoiceLocked, Refuse, Hold, FailBeforeCall, Holding
    <2> QED BY <2>1, <2>2
  <1>4. CASE RecordAccepted(d) \/ RecordRefused(d) \/ FailAfterCall(d)
    BY <1>1, <1>2, <1>4, OutcomeOfRow
       DEF RecordAccepted, RecordRefused, FailAfterCall, Holding
  <1>5. CASE RecordAborted(d)
    <2>1. CASE status[cur[d]] = Expected(d)
      BY <1>1, <1>5, <2>1, OutcomeOfRow DEF RecordAborted
    <2>2. CASE status[cur[d]] # Expected(d)
      BY <1>5, <2>2 DEF RecordAborted, RowStep, RowKept
    <2> QED BY <2>1, <2>2
  <1> QED BY <1>3, <1>4, <1>5 DEF Answers

\* Every step of the system is a RowStep of every row.
LEMMA StepOfRow ==
  ASSUME DispatchInv, Next, NEW p \in Payments
  PROVE  RowStep(p)
  <1> USE DEF RowStep
  <1>1. CASE Booking
    <2>1. CASE (\E S \in SUBSET Invoices : VetInvoices(S)) \/ AbandonRun
      BY <2>1 DEF VetInvoices, AbandonRun, RowKept
    <2>2. CASE (\E r \in Runs : BookRun(r)) \/ (\E i \in Invoices, q \in Payments : CreatePayment(i, q))
      BY <2>2 DEF BookRun, CreatePayment, Insert, Unused, Exists, RowKept, RowBooked
    <2>3. CASE \E r \in Runs : CancelRun(r)
      BY <2>3
         DEF CancelRun, RowsIn, DispatchInv, RowInv, DraftRowsUntouched, RowKept, RowBooked
    <2>4. CASE \E r \in Runs : RecordRunOutside(r)
      BY <2>4 DEF RecordRunOutside, CompleteOutside, RowKept, RowOutside
    <2>5. CASE \E i \in Invoices, q \in Payments : RecordOutside(i, q)
      BY <2>5
         DEF RecordOutside, CompleteOutside, Unused, Exists, RowKept, RowOutside,
             DispatchInv, TypeOK
    <2> QED BY <1>1, <2>1, <2>2, <2>3, <2>4, <2>5 DEF Booking
  <1>2. ASSUME NEW d \in Dispatchers, Begin(d) \/ Proceed(d) \/ Break(d)
        PROVE  RowStep(p)
    <2>1. CASE Begin(d)
      BY <2>1
         DEF Begin, Execute, Resume, VetRetry, Release, Mark, RowKept, Waiting,
             DispatchInv, TypeOK
    <2>2. CASE BookRetry(d)
      BY <2>2 DEF BookRetry, Insert, Unused, Exists, RowKept, RowBooked
    <2>3. CASE \E q \in Payments : MarkNext(d, q)
      BY <2>3 DEF MarkNext, Mark, RowKept, Waiting, DispatchInv, TypeOK
    <2>4. CASE RefuseRetry(d) \/ ReadPending(d) \/ (\E q \in Payments : SkipMoved(d, q))
               \/ Relock(d) \/ SkipClaimed(d) \/ Finish(d) \/ Break(d)
      BY <2>4
         DEF RefuseRetry, ReadPending, SkipMoved, Relock, SkipClaimed, Finish,
             Break, LoseConnection, Crash, RowKept
    <2>5. CASE CallProcessor(d)
      <3>1. status[cur[d]] \in Waiting
        BY <2>5
           DEF CallProcessor, DispatchInv, PassInv, HolderOwnsStamp, Holding, Expected,
               Waiting
      <3> QED BY <2>5, <3>1 DEF CallProcessor, RowKept, DispatchInv, TypeOK
    <2>6. CASE Answers(d)
      BY <2>6, AnswersOfRow
    <2> QED BY <1>2, <2>1, <2>2, <2>3, <2>4, <2>5, <2>6 DEF Proceed, Answers
  <1>3. CASE Review
    <2>1. CASE \E q \in Payments : Dismiss(q)
      BY <2>1
         DEF Dismiss, RowKept, RowAnswered, RetrySafe, Waiting, DispatchInv, TypeOK,
             SentInv, UnstampedUnsent
    <2>2. CASE \E q \in Payments : Void(q)
      BY <2>2 DEF Void, RowKept, RowVoided, DispatchInv, TypeOK
    <2>3. CASE \E i \in Invoices : ResolveException(i)
      BY <2>3 DEF ResolveException, RowKept, RowsOf
    <2> QED BY <1>3, <2>1, <2>2, <2>3 DEF Review
  <1>4. CASE \E q \in Payments : ProcessorDecides(q) \/ Webhook(q) \/ Reconcile(q)
    BY <1>4
       DEF ProcessorDecides, Webhook, Reconcile, Poll, AgeOut, Settle, Verdict,
           RowKept, RowAnswered, RetrySafe, DispatchInv, TypeOK
  <1>5. CASE \E v \in Viewers : Listing(v)
    BY <1>5 DEF Listing, ListRun, DeriveStatus, PersistDerived, RowKept
  <1> QED BY <1>1, <1>2, <1>3, <1>4, <1>5 DEF Next

\* No late dispatcher, webhook, poll or reviewer overwrites a row that ended; a
\* settled one may still be voided.
THEOREM EndedStay == Spec => EndedRowsStay
  <1>1. DispatchInv /\ [Next]_vars =>
          [\A p \in Payments :
             /\ status[p] \in Terminal => status'[p] = status[p]
             /\ status[p] = "completed" => status'[p] \in {"completed", "voided"}]_vars
    BY StepOfRow
       DEF RowStep, RowKept, RowAnswered, RowOutside, RowVoided, RowBooked, Waiting,
           Terminal
  <1> QED BY <1>1, DispatchInvariance, PTL DEF Spec, EndedRowsStay

\* A payment that reads completed was settled by the processor or recorded as paid
\* outside: a dispatch, webhook or poll never writes completed on less.
THEOREM CompletedMoved == Spec => []CompletedMeansMoved
  <1>1. Init => CompletedMeansMoved
    BY DEF Init, CompletedMeansMoved
  <1>2. DispatchInv /\ CompletedMeansMoved /\ [Next]_vars => CompletedMeansMoved'
    <2>1. CASE UNCHANGED vars
      BY <2>1 DEF vars, CompletedMeansMoved
    <2>2. CASE Next
      BY <2>2, StepOfRow
         DEF CompletedMeansMoved, RowStep, RowKept, RowAnswered, RowOutside,
             RowVoided, RowBooked, Waiting
    <2> QED BY <2>1, <2>2
  <1> QED BY <1>1, <1>2, DispatchInvariance, PTL DEF Spec

\* What retry_failed_payments sends again under a fresh idempotency key never had
\* an order at the processor.
THEOREM RetriesNeverSent == Spec => []RetrySafeNeverSent
  <1>1. Init => RetrySafeNeverSent
    BY DEF Init, RetrySafeNeverSent
  <1>2. DispatchInv /\ RetrySafeNeverSent /\ [Next]_vars => RetrySafeNeverSent'
    <2>1. CASE UNCHANGED vars
      BY <2>1 DEF vars, RetrySafeNeverSent, RetrySafe
    <2>2. CASE Next
      BY <2>2, StepOfRow
         DEF RetrySafeNeverSent, RetrySafe, RowStep, RowKept, RowAnswered,
             RowOutside, RowVoided, RowBooked, Waiting
    <2> QED BY <2>1, <2>2
  <1> QED BY <1>1, <1>2, DispatchInvariance, PTL DEF Spec

-----------------------------------------------------------------------------
(* Invoices leave the queue *)

\* Row p is booked as paid or on its way.
Paying(p) == status[p] \in {"submitted", "completed"}

\* No step but a void puts an invoice back, and a row starts paying only in a
\* step that takes its invoice off the queue.
QueueStep(p) ==
    /\ \A i \in Invoices : invoiceStatus'[i] = "approved" => invoiceStatus[i] = "approved"
    /\ Paying(p) => invoiceOf'[p] = invoiceOf[p]
    /\ Paying(p)' /\ ~Paying(p) => invoiceStatus'[invoiceOf'[p]] # "approved"

\* An attempt that ends in an accepted order schedules the invoice.
LEMMA AnswersLeaveQueue ==
  ASSUME DispatchInv, NEW d \in Dispatchers, Answers(d), NEW p \in Payments
  PROVE  QueueStep(p)
  <1>1. invoiceOf' = invoiceOf /\ pc[d] \in Turn /\ cur[d] \in Payments /\ invoiceOf[cur[d]] \in Invoices
    BY DEF Answers, InvoiceLocked, Refuse, Hold, FailBeforeCall, RecordAccepted,
           RecordRefused, FailAfterCall, RecordAborted, Turn, DispatchInv, PassInv,
           TurnOnARow, Outcome, RowInv, RowsWellFormed
  <1>2. CASE RecordAccepted(d)
    <2>1. invoiceStatus' = [invoiceStatus EXCEPT ![invoiceOf[cur[d]]] = "payment_scheduled"]
          /\ \A q \in Payments \ {cur[d]} : status'[q] = status[q]
      BY <1>2 DEF RecordAccepted, Outcome, DispatchInv, TypeOK
    <2> QED BY <1>1, <2>1 DEF DispatchInv, TypeOK, QueueStep, Paying
  <1>3. CASE FailAfterCall(d)
    <2>1. /\ \A i \in Invoices : invoiceStatus'[i] \in {invoiceStatus[i], "payment_scheduled"}
          /\ \A q \in Payments : status'[q] \in {status[q], "failed"}
      BY <1>1, <1>3 DEF FailAfterCall, Outcome, DispatchInv, TypeOK
    <2> QED BY <1>1, <2>1 DEF QueueStep, Paying
  <1>4. CASE ~RecordAccepted(d) /\ ~FailAfterCall(d)
    <2>1. /\ invoiceStatus' = invoiceStatus
          /\ \A q \in Payments : status'[q] \in {status[q], "failed", "pending_compliance"}
      BY <1>1, <1>4
         DEF Answers, InvoiceLocked, Refuse, Hold, FailBeforeCall, RecordRefused,
             RecordAborted, Outcome, DispatchInv, TypeOK
    <2> QED BY <1>1, <2>1 DEF QueueStep, Paying
  <1> QED BY <1>2, <1>3, <1>4

\* Every step but a void is a QueueStep.
LEMMA StepLeavesQueue ==
  ASSUME DispatchInv, Next, NEW p \in Payments, \A q \in Payments : ~Void(q)
  PROVE  QueueStep(p)
  <1> USE DEF QueueStep, Paying
  <1>1. CASE Booking
    <2>1. CASE (\E S \in SUBSET Invoices : VetInvoices(S)) \/ AbandonRun
      BY <2>1 DEF VetInvoices, AbandonRun
    <2>2. CASE (\E r \in Runs : BookRun(r)) \/ (\E i \in Invoices, q \in Payments : CreatePayment(i, q))
      BY <2>2 DEF BookRun, CreatePayment, Insert, Unused, Exists
    <2>3. CASE \E r \in Runs : CancelRun(r)
      BY <2>3 DEF CancelRun, RowsIn, DispatchInv, RowInv, DraftRowsUntouched
    <2>4. CASE \E r \in Runs : RecordRunOutside(r)
      BY <2>4
         DEF RecordRunOutside, CompleteOutside, RowsIn, DispatchInv, RowInv, RowsWellFormed
    <2>5. CASE \E i \in Invoices, q \in Payments : RecordOutside(i, q)
      <3>1. PICK i \in Invoices, q \in Payments : RecordOutside(i, q)
        BY <2>5
      <3>2. /\ \A j \in Invoices : invoiceStatus'[j] = IF j = i THEN "paid" ELSE invoiceStatus[j]
            /\ \A x \in Payments \ {q} : status'[x] = status[x] /\ invoiceOf'[x] = invoiceOf[x]
            /\ invoiceOf'[q] = i /\ ~Paying(q)
        BY <3>1 DEF RecordOutside, CompleteOutside, RowsOf, Unused, Exists, DispatchInv, TypeOK
      <3> QED BY <3>2
    <2> QED BY <1>1, <2>1, <2>2, <2>3, <2>4, <2>5 DEF Booking
  <1>2. ASSUME NEW d \in Dispatchers, Begin(d) \/ Proceed(d) \/ Break(d)
        PROVE  QueueStep(p)
    <2>1. CASE BookRetry(d)
      BY <2>1 DEF BookRetry, Insert, Unused, Exists
    <2>2. CASE Answers(d)
      BY <2>2, AnswersLeaveQueue
    <2>3. CASE ~BookRetry(d) /\ ~Answers(d)
      <3>1. UNCHANGED <<invoiceStatus, status, invoiceOf>>
        BY <1>2, <2>3
           DEF Begin, Proceed, Break, Answers, Execute, Resume, VetRetry, Release,
               MarkNext, Mark, RefuseRetry, ReadPending, SkipMoved, Relock,
               SkipClaimed, CallProcessor, Finish, LoseConnection, Crash
      <3> QED BY <3>1
    <2> QED BY <2>1, <2>2, <2>3
  <1>3. CASE Review
    BY <1>3 DEF Review, Dismiss, ResolveException, DispatchInv, TypeOK
  <1>4. CASE \E q \in Payments : ProcessorDecides(q) \/ Webhook(q) \/ Reconcile(q)
    BY <1>4 DEF ProcessorDecides, Webhook, Reconcile, Poll, AgeOut, Settle, DispatchInv, TypeOK
  <1>5. CASE \E v \in Viewers : Listing(v)
    BY <1>5 DEF Listing, ListRun, DeriveStatus, PersistDerived
  <1> QED BY <1>1, <1>2, <1>3, <1>4, <1>5 DEF Next

\* An invoice whose payment is submitted or completed is never approved, so it is
\* not offered for another run: a void puts back only the invoice of its own row.
THEOREM PayingLeavesQueue == Spec => []InFlightLeavesQueue
  <1>1. Init => InFlightLeavesQueue
    BY DEF Init, InFlightLeavesQueue
  <1>2. DispatchInv /\ InFlightLeavesQueue /\ [Next]_vars => InFlightLeavesQueue'
    <2> SUFFICES ASSUME DispatchInv, InFlightLeavesQueue, [Next]_vars, NEW p \in Payments, Paying(p)'
                 PROVE  invoiceStatus'[invoiceOf'[p]] # "approved"
      BY DEF InFlightLeavesQueue, Paying
    <2>1. CASE UNCHANGED vars
      BY <2>1 DEF vars, InFlightLeavesQueue, Paying
    <2>2. CASE \E q \in Payments : Void(q)
      <3>1. PICK q \in Payments : Void(q)
        BY <2>2
      <3>2. p # q /\ Paying(p) /\ invoiceOf' = invoiceOf
        BY <3>1 DEF Void, Paying, DispatchInv, TypeOK
      <3>3. invoiceOf[p] # invoiceOf[q]
        BY <3>1, <3>2 DEF Void, Paying, DispatchInv, RowInv, OneLiveRow, Live, Terminal
      <3> QED BY <3>1, <3>2, <3>3 DEF Void, InFlightLeavesQueue, Paying, DispatchInv, TypeOK
    <2>3. CASE Next /\ \A q \in Payments : ~Void(q)
      <3>1. QueueStep(p)
        BY <2>3, StepLeavesQueue
      <3>2. Paying(p) => invoiceOf[p] \in Invoices
        BY DEF Paying, DispatchInv, RowInv, RowsWellFormed, Exists
      <3> QED BY <3>1, <3>2 DEF QueueStep, Paying, InFlightLeavesQueue
    <2> QED BY <2>1, <2>2, <2>3
  <1> QED BY <1>1, <1>2, DispatchInvariance, PTL DEF Spec

-----------------------------------------------------------------------------
(* The flag of one payment never stands in for another's *)

\* A flag goes up only when a live row of the invoice fails, and an order appears
\* only behind a row whose invoice is clear of it.
FlagStep(p) ==
    /\ \A i \in flagged' \ flagged :
          \E q \in Payments : Live(q) /\ invoiceOf[q] = i /\ status'[q] = "failed"
    /\ Live(p) /\ Live(p)' => invoiceOf'[p] = invoiceOf[p]
    /\ \/ order'[p] = order[p] \/ (Live(p) /\ order[p] # "none")
       \/ invoiceOf'[p] \notin flagged'

\* The commit of an outcome flags the invoice of its own row, when it failed.
LEMMA OutcomeFlags ==
  ASSUME DispatchInv, NEW d \in Dispatchers, NEW s \in {"failed", "submitted", "completed", "pending_compliance"},
         NEW why, NEW doubt,
         Outcome(d, s, why, doubt), UNCHANGED order,
         s # "failed" => doubt = FALSE,
         status[cur[d]] = Expected(d), cur[d] \in Payments,
         NEW p \in Payments
  PROVE  FlagStep(p)
  <1>1. invoiceOf' = invoiceOf /\ Live(cur[d])
    BY DEF Outcome, Expected, Live, Terminal
  <1>2. flagged' # flagged => s = "failed" /\ flagged' = flagged \cup {invoiceOf[cur[d]]}
    BY DEF Outcome, Flags
  <1>3. status'[cur[d]] = s
    BY DEF Outcome, DispatchInv, TypeOK
  <1> QED BY <1>1, <1>2, <1>3 DEF FlagStep

\* So does every way an attempt ends.
LEMMA AnswersFlag ==
  ASSUME DispatchInv, NEW d \in Dispatchers, Answers(d), NEW p \in Payments
  PROVE  FlagStep(p)
  <1>1. pc[d] \in Holding \cup {"lost"} /\ order' = order /\ cur[d] \in Payments
    BY DEF Answers, InvoiceLocked, Refuse, Hold, FailBeforeCall, RecordAccepted,
           RecordRefused, FailAfterCall, RecordAborted, Holding, Turn, DispatchInv,
           PassInv, TurnOnARow
  <1>2. pc[d] \in Holding => status[cur[d]] = Expected(d)
    BY DEF DispatchInv, PassInv, HolderOwnsStamp
  <1>3. CASE UNCHANGED <<status, invoiceOf, flagged>>
    BY <1>1, <1>3 DEF FlagStep, Live
  <1>4. CASE InvoiceLocked(d) \/ Refuse(d) \/ Hold(d) \/ FailBeforeCall(d)
    BY <1>1, <1>2, <1>3, <1>4, OutcomeFlags
       DEF InvoiceLocked, Refuse, Hold, FailBeforeCall, Holding
  <1>5. CASE RecordAccepted(d) \/ RecordRefused(d) \/ FailAfterCall(d)
    BY <1>1, <1>2, <1>5, OutcomeFlags
       DEF RecordAccepted, RecordRefused, FailAfterCall, Holding
  <1>6. CASE RecordAborted(d)
    BY <1>1, <1>3, <1>6, OutcomeFlags DEF RecordAborted
  <1> QED BY <1>4, <1>5, <1>6 DEF Answers

\* Every step of the system is a FlagStep of every row.
LEMMA StepOfFlag ==
  ASSUME DispatchInv, Next, NEW p \in Payments
  PROVE  FlagStep(p)
  <1> USE DEF FlagStep, Live
  <1>1. CASE Booking
    <2>1. CASE (\E S \in SUBSET Invoices : VetInvoices(S)) \/ AbandonRun
      BY <2>1 DEF VetInvoices, AbandonRun
    <2>2. CASE (\E r \in Runs : BookRun(r)) \/ (\E i \in Invoices, q \in Payments : CreatePayment(i, q))
      BY <2>2 DEF BookRun, CreatePayment, Insert, Unused, Exists
    <2>3. CASE \E r \in Runs : CancelRun(r)
      BY <2>3 DEF CancelRun, RowsIn, DispatchInv, TypeOK
    <2>4. CASE \E r \in Runs : RecordRunOutside(r)
      BY <2>4 DEF RecordRunOutside, CompleteOutside, Recordable
    <2>5. CASE \E i \in Invoices, q \in Payments : RecordOutside(i, q)
      BY <2>5
         DEF RecordOutside, CompleteOutside, Recordable, RowsOf, Unused, Exists,
             DispatchInv, TypeOK
    <2> QED BY <1>1, <2>1, <2>2, <2>3, <2>4, <2>5 DEF Booking
  <1>2. ASSUME NEW d \in Dispatchers, Begin(d) \/ Proceed(d) \/ Break(d)
        PROVE  FlagStep(p)
    <2>1. CASE BookRetry(d)
      BY <2>1 DEF BookRetry, Insert, Unused, Exists
    <2>2. CASE Answers(d)
      BY <2>2, AnswersFlag
    <2>3. CASE CallProcessor(d)
      BY <2>3
         DEF CallProcessor, Clear, DispatchInv, TypeOK, PassInv, HolderOwnsStamp, Holding,
             Expected, Terminal
    <2>4. CASE ~BookRetry(d) /\ ~Answers(d) /\ ~CallProcessor(d)
      <3>1. UNCHANGED <<flagged, status, invoiceOf, order>>
        BY <1>2, <2>4
           DEF Begin, Proceed, Break, Answers, Execute, Resume, VetRetry, Release,
               MarkNext, Mark, RefuseRetry, ReadPending, SkipMoved, Relock,
               SkipClaimed, Finish, LoseConnection, Crash
      <3> QED BY <3>1
    <2> QED BY <2>1, <2>2, <2>3, <2>4
  <1>3. CASE Review
    BY <1>3
       DEF Review, Dismiss, Void, ResolveException, Terminal, DispatchInv, TypeOK
  <1>4. CASE \E q \in Payments : ProcessorDecides(q) \/ Webhook(q) \/ Reconcile(q)
    BY <1>4
       DEF ProcessorDecides, Webhook, Reconcile, Poll, AgeOut, Settle, Terminal,
           DispatchInv, TypeOK
  <1>5. CASE \E v \in Viewers : Listing(v)
    BY <1>5 DEF Listing, ListRun, DeriveStatus, PersistDerived
  <1> QED BY <1>1, <1>2, <1>3, <1>4, <1>5 DEF Next

\* While an order stands behind a live row the invoice has no open
\* payment_reconciliation exception, so the doubt about that row is never folded
\* into an exception raised for another.
THEOREM OwnFlag == Spec => []SentIsUnflagged
  <1>1. Init => SentIsUnflagged
    BY DEF Init, SentIsUnflagged
  <1>2. DispatchInv /\ SentIsUnflagged /\ [Next]_vars => SentIsUnflagged'
    <2> SUFFICES ASSUME DispatchInv, SentIsUnflagged, [Next]_vars,
                        NEW p \in Payments, Live(p)', order'[p] # "none"
                 PROVE  invoiceOf'[p] \notin flagged'
      BY DEF SentIsUnflagged
    <2>1. CASE UNCHANGED vars
      BY <2>1 DEF vars, SentIsUnflagged, Live
    <2>2. CASE Next
      <3>1. FlagStep(p) /\ RowStep(p)
        BY <2>2, StepOfFlag, StepOfRow
      <3>2. CASE Live(p) /\ order[p] # "none"
        <4>1. invoiceOf'[p] = invoiceOf[p] /\ invoiceOf[p] \notin flagged
          BY <3>1, <3>2 DEF FlagStep, SentIsUnflagged
        <4>2. \A q \in Payments : Live(q) /\ invoiceOf[q] = invoiceOf[p] => status'[q] # "failed"
          BY <3>2 DEF DispatchInv, RowInv, OneLiveRow, Live, Terminal
        <4> QED BY <3>1, <4>1, <4>2 DEF FlagStep
      <3>3. CASE ~Live(p) \/ order[p] = "none"
        <4>1. order'[p] # order[p]
          BY <3>1, <3>3
             DEF RowStep, RowKept, RowAnswered, RowOutside, RowVoided, RowBooked,
                 Live, Terminal, Waiting, DispatchInv, RowInv, RowsWellFormed, Exists
        <4> QED BY <3>1, <3>3, <4>1 DEF FlagStep
      <3> QED BY <3>2, <3>3
    <2> QED BY <2>1, <2>2
  <1> QED BY <1>1, <1>2, DispatchInvariance, PTL DEF Spec
=============================================================================
