------------------- MODULE PaymentDispatchConditions_proofs -------------------
(***************************************************************************)
(* What keeps the properties of PaymentDispatch that its runs show         *)
(* violated, or hold only for a single request.  Each theorem adds to Spec *)
(* what has to stay away, as a state predicate that must hold throughout;  *)
(* the runs that violate a property are behaviours without it.             *)
(*                                                                         *)
(* The first part frames LegInv of PaymentDispatchInvariant: what a step   *)
(* must leave alone for a pass to keep its legs in hand and for an outcome *)
(* to keep meaning that there are none.  The second goes through the steps *)
(* of people and the rail, of a pass, and of those who list the runs.      *)
(***************************************************************************)
EXTENDS PaymentDispatch_proofs

USE DEF rows, books, procs, lists, world, RunOutcome
USE NoneIsNoValue

\* The legs of r after the step.
NextLegs(r) == {p \in Payments : status'[p] = "pending" /\ runOf'[p] = r}

\* What an outcome stored by a step rests on: no leg is left, or none was left
\* before and none is new.
OutcomesJustified ==
    \A r \in Runs : runStatus'[r] \in RunOutcome =>
        \/ NextLegs(r) = {}
        \/ runStatus[r] \in RunOutcome /\ NextLegs(r) \subseteq Legs(r)

\* The claim of r stands and r has no leg that it had not before.
ClaimStands(r) == runStatus'[r] = "executing" /\ NextLegs(r) \subseteq Legs(r)

-----------------------------------------------------------------------------
(* What keeps the legs of a run in hand *)

\* A tenant without payment runs has no legs.
LEMMA InitLegs == Init => LegInv
  BY DEF Init, LegInv, HoldsItsLegs, AtWork, OutcomeMeansNoLegs, OutcomesAreDerived

\* A pass that does not move keeps its legs in hand, if its claim stands and the
\* stamp stays on a leg in its turn.
LEMMA PassKept ==
  ASSUME DispatchInv, DispatchInv', NEW e \in Dispatchers, HoldsItsLegs(e),
         AtWork(e) => ClaimStands(passOf[e]),
         passOf'[e] = passOf[e], pc'[e] = pc[e], todo'[e] = todo[e], cur'[e] = cur[e],
         /\ AtWork(e) /\ pc[e] \in Turn /\ status'[cur[e]] = "pending"
         => stamp'[cur[e]] = stamp[cur[e]]
  PROVE  HoldsItsLegs(e)'
  <1> SUFFICES ASSUME AtWork(e)' PROVE HoldsItsLegs(e)'
    BY DEF HoldsItsLegs
  <1>1. AtWork(e) /\ ClaimStands(passOf[e])
    BY DEF AtWork
  <1>2. pc[e] # "claimed" => NextLegs(passOf[e]) \subseteq todo[e]
    BY <1>1 DEF HoldsItsLegs, ClaimStands
  <1>3. ASSUME pc[e] \in Turn, status'[cur[e]] = "pending"
        PROVE  stamp'[cur[e]] = e
    <2>1. cur[e] \in Payments /\ runOf'[cur[e]] = passOf[e]
      BY <1>1, <1>3 DEF DispatchInv, PassInv, TurnOnARow, AtWork
    <2>2. cur[e] \in NextLegs(passOf[e])
      BY <1>3, <2>1 DEF NextLegs
    <2>3. status[cur[e]] = "pending"
      BY <1>1, <2>2 DEF ClaimStands, Legs
    <2> QED BY <1>1, <1>3, <2>3 DEF HoldsItsLegs
  <1>4. Legs(passOf[e])' = NextLegs(passOf[e])
    BY DEF Legs, NextLegs
  <1> QED BY <1>1, <1>2, <1>3, <1>4 DEF HoldsItsLegs, ClaimStands

\* Outcomes that rest on something mean that no leg is left.
LEMMA OutcomesKept ==
  ASSUME OutcomeMeansNoLegs, OutcomesJustified
  PROVE  OutcomeMeansNoLegs'
  BY DEF OutcomeMeansNoLegs, OutcomesJustified, Legs, NextLegs

\* A step of people or of the rail, who never touch a stamp, keeps the legs in
\* hand if it neither takes a run out of executing nor adds to one that began.
LEMMA QuietLegs ==
  ASSUME DispatchInv, DispatchInv', LegInv, UNCHANGED <<procs, stamp, derived>>,
         OutcomesJustified,
         \A r \in Runs : runStatus[r] = "executing" => ClaimStands(r)
  PROVE  LegInv'
  <1>1. ASSUME NEW e \in Dispatchers PROVE HoldsItsLegs(e)'
    <2>1. AtWork(e) => passOf[e] \in Runs /\ runStatus[passOf[e]] = "executing"
      BY DEF AtWork, LegInv, HoldsItsLegs, NextLegs, DispatchInv, TypeOK
    <2> QED BY <2>1, PassKept DEF LegInv
  <1>2. OutcomesAreDerived'
    BY DEF LegInv, OutcomesAreDerived
  <1> QED BY <1>1, <1>2, OutcomesKept DEF LegInv

\* recompute_run_status leaves claims alone, and only an outcome is derived again.
LEMMA RecomputedLegs ==
  ASSUME DispatchInv, NEW p \in Payments, NEW view,
         runStatus' = runStatus \/ runStatus' = Recomputed(p, view),
         \A r \in Runs : NextLegs(r) \subseteq Legs(r)
  PROVE  /\ OutcomesJustified
         /\ \A r \in Runs : runStatus[r] = "executing" => ClaimStands(r)
  BY DEF Recomputed, OutcomesJustified, ClaimStands, DispatchInv, TypeOK

-----------------------------------------------------------------------------
(* People and the rail *)

\* Booking adds legs to a new run only, and a draft run recorded as paid outside
\* has no legs any more.
LEMMA BookingLegs ==
  ASSUME DispatchInv, DispatchInv', LegInv, Booking
  PROVE  LegInv'
  <1>1. ASSUME UNCHANGED <<procs, stamp, derived>>, runStatus' = runStatus,
               \A r \in Runs : NextLegs(r) \subseteq Legs(r)
        PROVE  LegInv'
    BY <1>1, QuietLegs DEF OutcomesJustified, ClaimStands
  <1>2. CASE (\E S \in SUBSET Invoices : VetInvoices(S)) \/ AbandonRun
    BY <1>1, <1>2 DEF VetInvoices, AbandonRun, Legs, NextLegs
  <1>3. ASSUME NEW r \in Runs, BookRun(r) PROVE LegInv'
    <2>1. /\ \A s \in Runs \ {r} : NextLegs(s) \subseteq Legs(s) /\ runStatus'[s] = runStatus[s]
          /\ runStatus[r] = "unused" /\ runStatus'[r] = "draft"
          /\ UNCHANGED <<procs, stamp, derived>>
      BY <1>3 DEF BookRun, Insert, Legs, NextLegs, DispatchInv, TypeOK
    <2> QED BY <2>1, QuietLegs DEF OutcomesJustified, ClaimStands
  <1>4. ASSUME NEW r \in Runs, CancelRun(r) PROVE LegInv'
    <2>1. /\ \A s \in Runs : NextLegs(s) \subseteq Legs(s)
          /\ \A s \in Runs \ {r} : runStatus'[s] = runStatus[s]
          /\ runStatus[r] = "draft" /\ runStatus'[r] = "cancelled"
          /\ UNCHANGED <<procs, stamp, derived>>
      BY <1>4 DEF CancelRun, RowsIn, Legs, NextLegs, DispatchInv, TypeOK
    <2> QED BY <2>1, QuietLegs DEF OutcomesJustified, ClaimStands
  <1>5. ASSUME NEW r \in Runs, RecordRunOutside(r) PROVE LegInv'
    <2>1. /\ \A s \in Runs : NextLegs(s) \subseteq Legs(s)
          /\ \A s \in Runs \ {r} : runStatus'[s] = runStatus[s]
          /\ runStatus[r] = "draft"
          /\ UNCHANGED <<procs, stamp, derived>>
      BY <1>5 DEF RecordRunOutside, CompleteOutside, RowsIn, Legs, NextLegs, DispatchInv, TypeOK
    <2>2. NextLegs(r) = {}
      BY <1>5 DEF RecordRunOutside, RowsIn, NextLegs, Exists
    <2> QED BY <2>1, <2>2, QuietLegs DEF OutcomesJustified, ClaimStands
  <1>6. ASSUME NEW i \in Invoices, NEW p \in Payments, CreatePayment(i, p) PROVE LegInv'
    <2>1. /\ \A s \in Runs : NextLegs(s) \subseteq Legs(s)
          /\ UNCHANGED <<procs, stamp, derived, runStatus>>
      BY <1>6 DEF CreatePayment, Insert, Legs, NextLegs
    <2> QED BY <1>1, <2>1
  <1>7. ASSUME NEW i \in Invoices, NEW p \in Payments, RecordOutside(i, p) PROVE LegInv'
    <2>1. /\ \A s \in Runs : NextLegs(s) \subseteq Legs(s)
          /\ UNCHANGED <<procs, stamp, derived, runStatus>>
      BY <1>7 DEF RecordOutside, CompleteOutside, Legs, NextLegs, DispatchInv, TypeOK
    <2> QED BY <1>1, <2>1
  <1> QED BY <1>2, <1>3, <1>4, <1>5, <1>6, <1>7 DEF Booking

\* A reviewer, a webhook and the reconciler end rows, and derive outcomes from
\* outcomes.
LEMMA ReviewLegs ==
  ASSUME DispatchInv, DispatchInv', LegInv,
         Review \/ \E p \in Payments : ProcessorDecides(p) \/ Webhook(p) \/ Reconcile(p)
  PROVE  LegInv'
  <1>1. CASE \E p \in Payments : Dismiss(p) \/ Void(p)
    <2>1. PICK p \in Payments : Dismiss(p) \/ Void(p)
      BY <1>1
    <2>2. /\ \A r \in Runs : NextLegs(r) \subseteq Legs(r)
          /\ UNCHANGED <<procs, stamp, derived>> /\ runStatus' = Recomputed(p, status')
      BY <2>1 DEF Dismiss, Void, Legs, NextLegs, DispatchInv, TypeOK
    <2> QED BY <2>2, RecomputedLegs, QuietLegs
  <1>2. CASE \/ \E i \in Invoices : ResolveException(i)
             \/ \E p \in Payments : ProcessorDecides(p) \/ Webhook(p) \/ Reconcile(p)
    <2>1. /\ \A r \in Runs : NextLegs(r) \subseteq Legs(r)
          /\ UNCHANGED <<procs, stamp, derived, runStatus>>
      BY <1>2
         DEF ResolveException, ProcessorDecides, Webhook, Reconcile, Poll, AgeOut,
             Settle, Verdict, Legs, NextLegs, DispatchInv, TypeOK
    <2> QED BY <2>1, QuietLegs DEF OutcomesJustified, ClaimStands
  <1> QED BY <1>1, <1>2 DEF Review

-----------------------------------------------------------------------------
(* The steps of a pass *)

\* A claim, a read and a step of a turn move one pass and no row.  BookRetry is
\* the claim that brings new legs.
LEMMA ClaimLegs ==
  ASSUME DispatchInv, DispatchInv', LegInv, OnePassPerRun, NEW d \in Dispatchers,
         (\E r \in Runs : Execute(d, r) \/ Resume(d, r) \/ VetRetry(d, r)) \/ BookRetry(d)
  PROVE  LegInv'
  <1> USE DEF DispatchInv, TypeOK
  <1>1. CASE \E r \in Runs : Execute(d, r) \/ Resume(d, r) \/ VetRetry(d, r)
    <2>1. PICK r \in Runs : Execute(d, r) \/ Resume(d, r) \/ VetRetry(d, r)
      BY <1>1
    <2>2. /\ \A s \in Runs : NextLegs(s) = Legs(s)
          /\ \A s \in Runs \ {r} : runStatus'[s] = runStatus[s]
          /\ runStatus'[r] = runStatus[r] \/ runStatus'[r] = "executing"
          /\ UNCHANGED <<stamp, derived>>
          /\ \A e \in Dispatchers \ {d} :
                passOf'[e] = passOf[e] /\ pc'[e] = pc[e] /\ todo'[e] = todo[e] /\ cur'[e] = cur[e]
      BY <2>1 DEF Execute, Resume, Claim, VetRetry, NextLegs, Legs
    <2>3. HoldsItsLegs(d)'
      BY <2>1 DEF Execute, Resume, Claim, VetRetry, HoldsItsLegs, AtWork, Turn
    <2>4. ASSUME NEW e \in Dispatchers \ {d} PROVE HoldsItsLegs(e)'
      <3>1. AtWork(e) => passOf[e] \in Runs /\ ClaimStands(passOf[e])
        BY <2>2 DEF AtWork, LegInv, HoldsItsLegs, ClaimStands
      <3> QED BY <2>2, <3>1, PassKept DEF LegInv
    <2>5. OutcomeMeansNoLegs'
      BY <2>2, OutcomesKept DEF LegInv, OutcomesJustified
    <2> QED BY <2>2, <2>3, <2>4, <2>5 DEF LegInv, OutcomesAreDerived
  <1>2. CASE BookRetry(d)
    <2> DEFINE r == passOf[d]
    <2>1. /\ r \in Runs /\ pc'[d] = "claimed"
          /\ \A s \in Runs \ {r} : NextLegs(s) \subseteq Legs(s) /\ runStatus'[s] = runStatus[s]
          /\ runStatus'[r] = "executing"
          /\ UNCHANGED <<passOf, cur, stamp, derived>>
          /\ \A e \in Dispatchers \ {d} : pc'[e] = pc[e] /\ todo'[e] = todo[e]
      BY <1>2 DEF BookRetry, Insert, NextLegs, Legs, PassInv, PassOnItsRun
    <2>2. HoldsItsLegs(d)'
      BY <2>1 DEF HoldsItsLegs, Turn
    <2>3. ASSUME NEW e \in Dispatchers \ {d} PROVE HoldsItsLegs(e)'
      <3>1. AtWork(e) => passOf[e] \in Runs \ {r}
        BY DEF AtWork, OnePassPerRun
      <3>2. AtWork(e) => ClaimStands(passOf[e])
        BY <2>1, <3>1 DEF LegInv, HoldsItsLegs, ClaimStands
      <3> QED BY <2>1, <3>2, PassKept DEF LegInv
    <2>4. OutcomeMeansNoLegs'
      BY <2>1, OutcomesKept DEF LegInv, OutcomesJustified
    <2> QED BY <2>1, <2>2, <2>3, <2>4 DEF LegInv, OutcomesAreDerived
  <1> QED BY <1>1, <1>2

\* The end of a request, and the steps of a pass before and inside a turn.
LEMMA AdvanceLegs ==
  ASSUME DispatchInv, DispatchInv', LegInv, OnePassPerRun, NEW d \in Dispatchers,
         \/ RefuseRetry(d) \/ Crash(d) \/ ReadPending(d) \/ Relock(d) \/ CallProcessor(d)
         \/ LoseConnection(d) \/ \E p \in Payments : Release(d, p) \/ MarkNext(d, p)
  PROVE  LegInv'
  <1> USE DEF DispatchInv, TypeOK
  <1>1. /\ UNCHANGED <<status, runOf, runStatus, derived>>
        /\ \A e \in Dispatchers \ {d} :
              passOf'[e] = passOf[e] /\ pc'[e] = pc[e] /\ todo'[e] = todo[e] /\ cur'[e] = cur[e]
    BY DEF RefuseRetry, Crash, ToIdle, ReadPending, Relock, CallProcessor, LoseConnection,
           Release, MarkNext, Mark
  <1>2. \A r \in Runs : NextLegs(r) = Legs(r)
    BY <1>1 DEF NextLegs, Legs
  <1>3. HoldsItsLegs(d)'
    <2>1. CASE RefuseRetry(d) \/ Crash(d) \/ \E p \in Payments : Release(d, p)
      BY <2>1
         DEF RefuseRetry, Crash, ToIdle, Release, Mark, HoldsItsLegs, AtWork, PassInv,
             PassOnItsRun
    <2>2. CASE ReadPending(d)
      BY <2>2
         DEF ReadPending, RowsIn, Exists, Legs, LegInv, HoldsItsLegs, AtWork, Turn,
             PassInv, PassOnItsRun
    <2>3. CASE Relock(d) \/ CallProcessor(d) \/ LoseConnection(d)
      BY <2>3
         DEF Relock, CallProcessor, LoseConnection, Legs, LegInv, HoldsItsLegs, AtWork,
             Turn
    <2>4. CASE \E p \in Payments : MarkNext(d, p)
      <3>1. PICK p \in Payments : MarkNext(d, p)
        BY <2>4
      <3>2. AtWork(d) => /\ runStatus[passOf[d]] = "executing"
                         /\ Legs(passOf[d]) \subseteq todo[d]
        BY <3>1 DEF MarkNext, LegInv, HoldsItsLegs
      <3>3. /\ cur'[d] = p /\ stamp'[p] = d /\ AtWork(d)
            /\ passOf' = passOf /\ todo' = todo
        BY <3>1 DEF MarkNext, Mark, AtWork, PassInv, PassOnItsRun
      <3> QED BY <1>1, <3>2, <3>3 DEF HoldsItsLegs, Legs
    <2> QED BY <2>1, <2>2, <2>3, <2>4
  <1>4. ASSUME NEW e \in Dispatchers \ {d} PROVE HoldsItsLegs(e)'
    <2>1. AtWork(e) => passOf[e] \in Runs /\ ClaimStands(passOf[e])
      BY <1>1, <1>2 DEF AtWork, LegInv, HoldsItsLegs, ClaimStands
    <2>2. /\ AtWork(e) /\ pc[e] \in Turn /\ status'[cur[e]] = "pending"
          => stamp'[cur[e]] = stamp[cur[e]]
      <3>1. CASE \E p \in Payments : MarkNext(d, p)
        <4>1. PICK p \in Payments : MarkNext(d, p)
          BY <3>1
        <4>2. AtWork(e) /\ pc[e] \in Turn => cur[e] # p
          BY <4>1 DEF MarkNext, AtWork, PassInv, PassOnItsRun, TurnOnARow, OnePassPerRun
        <4> QED BY <4>1, <4>2 DEF MarkNext, Mark
      <3>2. CASE \E p \in Payments : Release(d, p)
        BY <3>2 DEF Release, Mark
      <3>3. CASE UNCHANGED stamp
        BY <3>3
      <3> QED
        BY <3>1, <3>2, <3>3
           DEF RefuseRetry, Crash, ReadPending, Relock, CallProcessor, LoseConnection
    <2> QED BY <1>1, <2>1, <2>2, PassKept DEF LegInv
  <1>5. OutcomeMeansNoLegs'
    BY <1>1, <1>2, OutcomesKept DEF LegInv, OutcomesJustified
  <1> QED BY <1>1, <1>3, <1>4, <1>5 DEF LegInv, OutcomesAreDerived

\* A turn ends with its leg gone from the run: sent, held, failed, or found moved.
LEMMA TurnEndLegs ==
  ASSUME DispatchInv, DispatchInv', LegInv, NEW d \in Dispatchers, NEW p \in Payments, NEW s,
         pc[d] \in {"looping"} \cup Turn, Leave(d, p, s), UNCHANGED <<runOf, derived>>,
         \A q \in Payments \ {p} : status'[q] = status[q] /\ stamp'[q] = stamp[q],
         status'[p] = "pending" =>
             status[p] = "pending" /\ stamp'[p] = stamp[p] /\ passOf[d] = None,
         runStatus' = runStatus \/ runStatus' = Recomputed(p, status')
  PROVE  LegInv'
  <1> USE DEF DispatchInv, TypeOK
  <1>1. \A r \in Runs : NextLegs(r) \subseteq Legs(r)
    BY DEF NextLegs, Legs
  <1>2. OutcomesJustified /\ \A r \in Runs : runStatus[r] = "executing" => ClaimStands(r)
    BY <1>1, RecomputedLegs
  <1>3. HoldsItsLegs(d)'
    <2>1. CASE passOf[d] = None
      BY <2>1 DEF Leave, HoldsItsLegs, AtWork
    <2>2. CASE passOf[d] # None
      <3>1. AtWork(d) /\ passOf[d] \in Runs /\ pc[d] # "claimed"
        BY <2>2 DEF AtWork, Turn
      <3>2. NextLegs(passOf[d]) \subseteq Legs(passOf[d]) \ {p}
        BY <1>1, <2>2, <3>1 DEF NextLegs
      <3>3. Legs(passOf[d])' \subseteq todo'[d]
        BY <3>1, <3>2 DEF Leave, LegInv, HoldsItsLegs, Legs, NextLegs
      <3>4. runStatus'[passOf[d]] = "executing"
        BY <1>2, <3>1 DEF LegInv, HoldsItsLegs, ClaimStands
      <3> QED BY <2>2, <3>3, <3>4 DEF Leave, HoldsItsLegs, Turn
    <2> QED BY <2>1, <2>2
  <1>4. ASSUME NEW e \in Dispatchers \ {d} PROVE HoldsItsLegs(e)'
    <2>1. AtWork(e) => passOf[e] \in Runs /\ ClaimStands(passOf[e])
      BY <1>2 DEF AtWork, LegInv, HoldsItsLegs
    <2>2. pc[e] \in Turn => cur[e] \in Payments
      BY DEF PassInv, TurnOnARow
    <2> QED BY <2>1, <2>2, PassKept DEF LegInv, Leave
  <1>5. OutcomeMeansNoLegs'
    BY <1>2, OutcomesKept DEF LegInv
  <1> QED BY <1>3, <1>4, <1>5 DEF LegInv, OutcomesAreDerived

\* Skipped rows have moved, as the stamp on a leg in its turn is the pass's own.
LEMMA SkipLegs ==
  ASSUME DispatchInv, DispatchInv', LegInv, NEW d \in Dispatchers,
         (\E p \in Payments : SkipMoved(d, p)) \/ SkipClaimed(d)
  PROVE  LegInv'
  <1>1. ASSUME NEW p \in Payments, SkipMoved(d, p) PROVE LegInv'
    BY <1>1, TurnEndLegs DEF SkipMoved
  <1>2. CASE SkipClaimed(d)
    <2>1. pc[d] \in Turn /\ cur[d] \in Payments
      BY <1>2 DEF SkipClaimed, Turn, DispatchInv, PassInv, TurnOnARow
    <2>2. status[cur[d]] = "pending" => passOf[d] = None
      BY <1>2, <2>1 DEF SkipClaimed, Expected, LegInv, HoldsItsLegs, AtWork
    <2> QED BY <1>2, <2>1, <2>2, TurnEndLegs DEF SkipClaimed
  <1> QED BY <1>1, <1>2

\* A recorded outcome is never pending.
LEMMA OutcomeLegs ==
  ASSUME DispatchInv, DispatchInv', LegInv, NEW d \in Dispatchers,
         NEW s \in PaymentStatus \ {"pending"}, NEW why, NEW doubt,
         pc[d] \in Turn, Outcome(d, s, why, doubt)
  PROVE  LegInv'
  <1>1. cur[d] \in Payments
    BY DEF DispatchInv, PassInv, TurnOnARow
  <1>2. /\ \A q \in Payments \ {cur[d]} : status'[q] = status[q] /\ stamp'[q] = stamp[q]
        /\ status'[cur[d]] # "pending" /\ UNCHANGED <<runOf, derived>>
        /\ runStatus' = runStatus \/ runStatus' = Recomputed(cur[d], status')
        /\ Leave(d, cur[d], s)
    BY <1>1 DEF Outcome, DispatchInv, TypeOK
  <1> QED BY <1>1, <1>2, TurnEndLegs

\* Every way an attempt ends keeps the legs in hand.
LEMMA AnswersLegs ==
  ASSUME DispatchInv, DispatchInv', LegInv, NEW d \in Dispatchers, Answers(d)
  PROVE  LegInv'
  <1> USE DEF PaymentStatus, Terminal
  <1>1. pc[d] \in Turn /\ cur[d] \in Payments
    BY DEF Answers, InvoiceLocked, Refuse, Hold, FailBeforeCall, RecordAccepted,
           RecordRefused, FailAfterCall, RecordAborted, Turn, DispatchInv, PassInv,
           TurnOnARow
  <1>2. CASE InvoiceLocked(d) /\ passOf[d] = None
    <2>1. status[cur[d]] # "pending"
      BY <1>2
         DEF InvoiceLocked, DispatchInv, PassInv, HolderOwnsStamp, Holding, Expected
    <2>2. /\ UNCHANGED <<status, runOf, derived, runStatus>>
          /\ \A q \in Payments \ {cur[d]} : stamp'[q] = stamp[q]
          /\ Leave(d, cur[d], "pending_compliance")
      BY <1>2 DEF InvoiceLocked, DispatchInv, TypeOK
    <2> QED BY <1>1, <2>1, <2>2, TurnEndLegs
  <1>3. CASE InvoiceLocked(d) /\ passOf[d] # None
    BY <1>1, <1>3, OutcomeLegs DEF InvoiceLocked
  <1>4. CASE Refuse(d) \/ Hold(d) \/ FailBeforeCall(d)
    BY <1>1, <1>4, OutcomeLegs DEF Refuse, Hold, FailBeforeCall
  <1>5. CASE RecordAccepted(d) \/ RecordRefused(d) \/ FailAfterCall(d)
    BY <1>1, <1>5, OutcomeLegs DEF RecordAccepted, RecordRefused, FailAfterCall
  <1>6. CASE RecordAborted(d) /\ status[cur[d]] = Expected(d)
    BY <1>1, <1>6, OutcomeLegs DEF RecordAborted
  <1>7. CASE RecordAborted(d) /\ status[cur[d]] # Expected(d)
    <2>1. status[cur[d]] = "pending" => passOf[d] = None
      BY <1>7 DEF Expected
    <2> QED BY <1>1, <1>7, <2>1, TurnEndLegs DEF RecordAborted
  <1> QED BY <1>2, <1>3, <1>4, <1>5, <1>6, <1>7 DEF Answers

\* The final rollup is stored when the list is empty, and with it the legs are.
LEMMA FinishLegs ==
  ASSUME DispatchInv, DispatchInv', LegInv, OnePassPerRun, NEW d \in Dispatchers, Finish(d)
  PROVE  LegInv'
  <1> DEFINE r == passOf[d]
  <1>1. /\ \A s \in Runs \ {r} : runStatus'[s] = runStatus[s]
        /\ \A s \in Runs : NextLegs(s) = Legs(s)
        /\ UNCHANGED <<stamp, derived>>
        /\ \A e \in Dispatchers \ {d} :
              passOf'[e] = passOf[e] /\ pc'[e] = pc[e] /\ todo'[e] = todo[e] /\ cur'[e] = cur[e]
    BY DEF Finish, ToIdle, DispatchInv, TypeOK, Legs, NextLegs
  <1>2. r \in Runs /\ Legs(r) = {}
    <2>1. r \in Runs /\ AtWork(d) /\ pc[d] = "looping" /\ todo[d] = {}
      BY DEF Finish, DispatchInv, TypeOK, PassInv, PassOnItsRun, AtWork
    <2> QED BY <2>1 DEF LegInv, HoldsItsLegs
  <1>3. HoldsItsLegs(d)'
    BY DEF Finish, ToIdle, HoldsItsLegs, AtWork, DispatchInv, TypeOK
  <1>4. ASSUME NEW e \in Dispatchers \ {d} PROVE HoldsItsLegs(e)'
    <2>1. AtWork(e) => passOf[e] \in Runs \ {r}
      BY DEF AtWork, OnePassPerRun, DispatchInv, TypeOK
    <2>2. AtWork(e) => ClaimStands(passOf[e])
      BY <1>1, <2>1 DEF LegInv, HoldsItsLegs, ClaimStands
    <2> QED BY <1>1, <2>2, PassKept DEF LegInv
  <1>5. OutcomeMeansNoLegs'
    BY <1>1, <1>2, OutcomesKept DEF LegInv, OutcomesJustified
  <1> QED BY <1>1, <1>3, <1>4, <1>5 DEF LegInv, OutcomesAreDerived

-----------------------------------------------------------------------------
(* Listing the runs *)

\* Rows none of which is pending roll up to an outcome.
LEMMA RollupOutcome ==
  ASSUME NEW R, NEW view, R # {}, \A p \in R : view[p] # "pending"
  PROVE  RollupStatus(R, view) \in RunOutcome
  BY DEF RollupStatus

\* Where no run is claimed again while it is listed, a listing derives an outcome
\* and stores it over an outcome.
LEMMA ListingLegs ==
  ASSUME IInv, DispatchInv', LegInv, NoLateListing, NEW v \in Viewers, Listing(v)
  PROVE  LegInv'
  <1> USE DEF IInv, DispatchInv, TypeOK
  <1>1. UNCHANGED <<rows, books, vetted, procs, world>>
    BY DEF Listing, ListRun, DeriveStatus, PersistDerived
  <1>2. \A r \in Runs : NextLegs(r) = Legs(r)
    BY <1>1 DEF NextLegs, Legs
  <1>3. listing[v] # None => listing[v] \in Runs /\ runStatus[listing[v]] \in RunOutcome
    BY DEF ListedHaveBegun, NoLateListing, Begun
  <1>4. \A r \in Runs : \/ runStatus'[r] = runStatus[r]
                       \/ runStatus[r] \in RunOutcome
    BY <1>3 DEF Listing, ListRun, DeriveStatus, PersistDerived
  <1>5. OutcomesAreDerived'
    <2>1. CASE DeriveStatus(v)
      <3>1. listing[v] \in Runs /\ runStatus[listing[v]] \in RunOutcome
        BY <1>3, <2>1 DEF DeriveStatus
      <3>2. Active(listing[v]) # {}
        BY <3>1 DEF RowInv, RunsHaveRows, Booked, Begun, Active, RowsIn
      <3>3. \A p \in Active(listing[v]) : status[p] # "pending"
        BY <3>1 DEF LegInv, OutcomeMeansNoLegs, Legs, Active, RowsIn
      <3>4. RollupStatus(Active(listing[v]), status) \in RunOutcome
        BY <3>2, <3>3, RollupOutcome
      <3> QED BY <2>1, <3>4 DEF DeriveStatus, LegInv, OutcomesAreDerived
    <2>2. CASE PersistDerived(v) \/ \E r \in Runs : ListRun(v, r)
      BY <2>2 DEF PersistDerived, ListRun, LegInv, OutcomesAreDerived
    <2> QED BY <2>1, <2>2 DEF Listing
  <1>6. OutcomeMeansNoLegs'
    BY <1>2, <1>4, OutcomesKept DEF LegInv, OutcomesJustified
  <1>7. ASSUME NEW e \in Dispatchers PROVE HoldsItsLegs(e)'
    <2>1. AtWork(e) => passOf[e] \in Runs /\ runStatus[passOf[e]] = "executing"
      BY DEF AtWork, LegInv, HoldsItsLegs
    <2>2. AtWork(e) => ClaimStands(passOf[e])
      BY <1>2, <1>4, <2>1 DEF ClaimStands
    <2> QED BY <1>1, <2>2, PassKept DEF LegInv
  <1> QED BY <1>5, <1>6, <1>7 DEF LegInv

\* Every step keeps the legs in hand.
LEMMA NextLegInv ==
  ASSUME IInv, DispatchInv', LegInv, OnePassPerRun, NoLateListing, [Next]_vars
  PROVE  LegInv'
  <1> USE DEF IInv
  <1>1. CASE Booking
    BY <1>1, BookingLegs
  <1>2. ASSUME NEW d \in Dispatchers, Begin(d) \/ Proceed(d) \/ Break(d)
        PROVE  LegInv'
    BY <1>2, ClaimLegs, AdvanceLegs, SkipLegs, AnswersLegs, FinishLegs
       DEF Begin, Proceed, Break, Answers
  <1>3. CASE Review \/ \E p \in Payments : ProcessorDecides(p) \/ Webhook(p) \/ Reconcile(p)
    BY <1>3, ReviewLegs
  <1>4. CASE \E v \in Viewers : Listing(v)
    BY <1>4, ListingLegs
  <1>5. CASE UNCHANGED vars
    BY <1>5, QuietLegs
       DEF vars, OutcomesJustified, ClaimStands, NextLegs, Legs
  <1> QED BY <1>1, <1>2, <1>3, <1>4, <1>5 DEF Next

-----------------------------------------------------------------------------
(* The theorems *)

\* Nobody skips a leg of the run it works on, and a run with an outcome has none left,
\* while nobody resumes a run that a pass is at work on (resume_payment_run) and
\* nobody claims one that is being listed (list_payment_runs).
THEOREM LegsHold == Spec /\ [](OnePassPerRun /\ NoLateListing) => []LegInv
  <1>1. Init => LegInv
    BY InitLegs
  <1>2. IInv /\ LegInv /\ OnePassPerRun /\ NoLateListing /\ [Next]_vars => LegInv'
    BY NextInv, NextLegInv
  <1> QED BY <1>1, <1>2, Invariance, PTL DEF Spec

\* No leg of a run that was started is ever left behind by crashes, lost
\* connections, retries, releases and reviews, whatever their number: only a run
\* resumed while a pass is at work on it (resume_payment_run), or a listing that
\* stores its outcome over a new claim (list_payment_runs), can strand one.
THEOREM LegsStayReachable ==
  Spec /\ [](OnePassPerRun /\ NoLateListing) => []PendingIsReachable
  <1>1. IInv /\ LegInv => PendingIsReachable
    <2> SUFFICES ASSUME IInv, LegInv, NEW p \in Payments, status[p] = "pending",
                        runOf[p] # None
                 PROVE  runStatus[runOf[p]] \in {"draft", "executing"}
      BY DEF PendingIsReachable
    <2>1. runOf[p] \in Runs /\ runStatus[runOf[p]] \in Booked
      BY DEF IInv, DispatchInv, TypeOK, RowInv, RowsWellFormed, Exists
    <2>2. runStatus[runOf[p]] \notin RunOutcome
      BY <2>1 DEF LegInv, OutcomeMeansNoLegs, Legs
    <2> QED BY <2>1, <2>2 DEF Booked, Begun
  <1> QED BY <1>1, Invariance, LegsHold, PTL

\* Of two requests that are between the stamp and the processor's answer, each has a
\* payment of its own invoice: the stamp taken under the row lock, and
\* uq_payments_one_live_per_invoice, keep any other away (_execute_single_payment).
OneRequestPerInvoice ==
  \A d \in Dispatchers : \A e \in Dispatchers \ {d} :
    pc[d] \in Holding /\ pc[e] \in Holding => invoiceOf[cur[d]] # invoiceOf[cur[e]]

THEOREM OneRequestAtTheRail == Spec => []OneRequestPerInvoice
  <1>1. IInv => OneRequestPerInvoice
    <2> SUFFICES ASSUME IInv, NEW d \in Dispatchers, NEW e \in Dispatchers \ {d},
                        pc[d] \in Holding, pc[e] \in Holding,
                        invoiceOf[cur[d]] = invoiceOf[cur[e]]
                 PROVE  FALSE
      BY DEF OneRequestPerInvoice
    <2>1. /\ cur[d] \in Payments /\ status[cur[d]] \in Waiting /\ stamp[cur[d]] = d
          /\ cur[e] \in Payments /\ status[cur[e]] \in Waiting /\ stamp[cur[e]] = e
      BY DEF IInv, DispatchInv, PassInv, HolderOwnsStamp, TurnOnARow, Turn, Holding,
             Expected, Waiting
    <2>2. Live(cur[d]) /\ Live(cur[e])
      BY <2>1 DEF Live, Waiting, Terminal
    <2>3. cur[d] = cur[e]
      BY <2>1, <2>2 DEF IInv, DispatchInv, RowInv, OneLiveRow
    <2> QED BY <2>1, <2>3
  <1> QED BY <1>1, Invariance, PTL

\* recompute_run_status, the listing and every handler but the end of the pass
\* leave a claimed run executing, if no run is claimed while it is being listed.
THEOREM ClaimsStand == Spec /\ []NoLateListing => ClaimStays
  <1>1. IInv /\ NoLateListing /\ [Next]_vars =>
          [\A r \in Runs :
             runStatus[r] = "executing" /\ runStatus'[r] # "executing"
               => \E d \in Dispatchers : passOf[d] = r /\ passOf'[d] # r]_vars
    <2> SUFFICES ASSUME IInv, NoLateListing, Next, NEW r \in Runs,
                        runStatus[r] = "executing", runStatus'[r] # "executing"
                 PROVE  \E d \in Dispatchers : passOf[d] = r /\ passOf'[d] # r
      OBVIOUS
    <2> USE DEF IInv, DispatchInv, TypeOK
    <2>1. ~Booking
      <3>1. Booking => \/ runStatus' = runStatus
                       \/ \E s \in Runs : /\ runStatus[s] \in {"unused", "draft"}
                                          /\ \E x : runStatus' = [runStatus EXCEPT ![s] = x]
        BY DEF Booking, VetInvoices, AbandonRun, BookRun, CancelRun, RecordRunOutside,
               CreatePayment, RecordOutside
      <3> QED BY <3>1
    <2>2. ~Review
      BY DEF Review, Dismiss, Void, ResolveException, Recomputed
    <2>3. ~\E v \in Viewers : Listing(v)
      BY DEF Listing, ListRun, DeriveStatus, PersistDerived, NoLateListing
    <2>4. ~\E p \in Payments : ProcessorDecides(p) \/ Webhook(p) \/ Reconcile(p)
      BY DEF ProcessorDecides, Webhook, Reconcile, Poll, AgeOut
    <2>5. PICK d \in Dispatchers : Begin(d) \/ Proceed(d) \/ Break(d)
      BY <2>1, <2>2, <2>3, <2>4 DEF Next
    <2>6. ~Answers(d)
      BY DEF Answers, InvoiceLocked, Refuse, Hold, FailBeforeCall, RecordAccepted,
             RecordRefused, FailAfterCall, RecordAborted, Outcome, Recomputed
    <2>7. Finish(d)
      BY <2>5, <2>6
         DEF Begin, Proceed, Break, Answers, Execute, Resume, Claim, VetRetry, Release,
             MarkNext, Mark, BookRetry, RefuseRetry, ReadPending, SkipMoved, Relock,
             SkipClaimed, CallProcessor, LoseConnection, Crash
    <2> QED BY <2>7 DEF Finish, ToIdle
  <1> QED BY <1>1, Invariance, PTL DEF Spec, ClaimStays

\* An adapter's own failure reply is the whole story.
AdaptersAreBelieved == \A p \in Payments : TakenAsDeclined(p) => order[p] \notin LiveOrder

\* Where adapters return a failure only for orders that will not pay, no two rows
\* of an invoice ever have money out: the failure reply that
\* _execute_single_payment believes is the only way to pay an invoice twice.
THEOREM HonestAdaptersPayOnce == Spec /\ []AdaptersAreBelieved => []NoDoublePayment
  <1>1. NoUnansweredDoublePayment /\ AdaptersAreBelieved => NoDoublePayment
    BY DEF NoUnansweredDoublePayment, AdaptersAreBelieved, NoDoublePayment, Unanswered,
           MoneyOut
  <1> QED BY <1>1, NeverPaidTwice, PTL
=============================================================================
