------------------ MODULE PaymentDispatchRefinement_proofs ------------------
(***************************************************************************)
(* PaymentDispatch implements MoneyOut, for any sets of invoices, payment  *)
(* rows, runs and dispatchers.                                             *)
(*                                                                         *)
(* A step of the abstract specification is about Unanswered rows, so each  *)
(* step of the code is put into one of three kinds: no row starts or stops *)
(* being unanswered (a stutter), some rows that were never sent start      *)
(* (RowStarts), one row is answered for (RowEnds).                         *)
(***************************************************************************)
EXTENDS PaymentDispatch_proofs

\* The tuples of variables are abbreviations, and None is known to be no value.
USE DEF rows, books, procs, lists, world
USE NoneIsNoValue

\* A waiting row has no failed order, and what a person looked up has failed.
OverForGood ==
    /\ \A p \in Payments : order[p] = "failed" => status[p] \notin Waiting
    /\ \A p \in reconciled : status[p] = "failed"

\* Both facts are preserved.
LEMMA OverStays ==
  /\ Init => OverForGood
  /\ IInv /\ OverForGood /\ [Next]_vars => OverForGood'
  <1>1. Init => OverForGood
    BY DEF Init, OverForGood
  <1>2. ASSUME IInv, OverForGood, UNCHANGED vars
        PROVE  OverForGood'
    BY <1>2 DEF vars, OverForGood
  <1>3. ASSUME IInv, OverForGood, Next
        PROVE  OverForGood'
    <2> USE <1>3 DEF IInv
    <2>1. \A p \in Payments : ~Exists(p) => order[p] = "none"
      BY <1>3 DEF DispatchInv, RowInv, RowsWellFormed
    <2>2. reconciled' \subseteq Payments
      BY NextInv DEF DispatchInv, TypeOK
    <2> QED
      BY <1>3, <2>1, <2>2, StepOfRow
         DEF OverForGood, Exists, RowStep, RowKept, RowAnswered, RowOutside,
             RowVoided, RowBooked, Waiting
  <1> QED BY <1>1, <1>2, <1>3

\* The rows of invoice i with money out, and the rows whose money is answered for.
OutOf(i) == {p \in Payments : invoiceOf[p] = i /\ Unanswered(p)}
Over     == {p \in Payments : order[p] # "none" /\ ~Unanswered(p)}

Untouched(q) ==
    /\ UNCHANGED <<status[q], invoiceOf[q], reason[q], stamp[q], order[q]>>
    /\ q \in reconciled' <=> q \in reconciled

\* An untouched row means the same to the promise.
LEMMA UntouchedSame ==
  ASSUME NEW q \in Payments, Untouched(q)
  PROVE  (Unanswered(q)' <=> Unanswered(q)) /\ invoiceOf'[q] = invoiceOf[q] /\ order'[q] = order[q]
  BY DEF Untouched, Unanswered, MoneyOut, Answered, TakenAsDeclined

\* A step after which the same rows have money out is a stutter of the promise.
LEMMA SameBooks ==
  ASSUME \A q \in Payments : /\ Unanswered(q)' <=> Unanswered(q)
                             /\ Unanswered(q) => invoiceOf'[q] = invoiceOf[q]
                             /\ order'[q] # "none" <=> order[q] # "none"
  PROVE  UNCHANGED Once!vars
  <1>1. \A i : OutOf(i)' = OutOf(i)
    BY DEF OutOf
  <1>2. Over' = Over
    BY DEF Over
  <1> QED BY <1>1, <1>2 DEF Once!vars, OutOf, Over

\* Rows that were never sent go out, no two of one invoice: the promise's Starts.
LEMMA RowStarts ==
  ASSUME DispatchInv, DispatchInv', NEW S \in SUBSET Payments,
         \A p \in S : order[p] = "none" /\ Unanswered(p)',
         \A q \in Payments \ S : /\ Unanswered(q)' <=> Unanswered(q)
                                 /\ Unanswered(q) => invoiceOf'[q] = invoiceOf[q]
                                 /\ order'[q] # "none" <=> order[q] # "none"
  PROVE  Once!Next
  <1>1. Over' = Over
    BY DEF Over, Unanswered, MoneyOut, LiveOrder
  <1>2. \A p, q \in Payments : Unanswered(p)' /\ Unanswered(q)' /\ invoiceOf'[p] = invoiceOf'[q] => p = q
    BY DEF DispatchInv, NoUnansweredDoublePayment, SameInvoice
  <1>3. \A p \in S : ~Unanswered(p)
    BY DEF Unanswered, MoneyOut, LiveOrder
  <1>4. ASSUME NEW i \in Invoices
        PROVE  OutOf(i)' = OutOf(i) \/ \E p \in S : OutOf(i) = {} /\ p \notin Over /\ OutOf(i)' = {p}
    <2>1. CASE \E p \in S : invoiceOf'[p] = i
      <3>1. PICK p \in S : invoiceOf'[p] = i
        BY <2>1
      <3>2. OutOf(i)' = {p}
        BY <1>2, <3>1 DEF OutOf
      <3>3. OutOf(i) = {}
        BY <1>2, <1>3, <3>1 DEF OutOf
      <3>4. p \notin Over
        BY DEF Over
      <3> QED BY <3>2, <3>3, <3>4
    <2>2. CASE \A p \in S : invoiceOf'[p] # i
      BY <1>3, <2>2 DEF OutOf
    <2> QED BY <2>1, <2>2
  <1>5. [i \in Invoices |-> OutOf(i)]' \in [Invoices -> SUBSET Payments]
    BY DEF OutOf
  <1> QED
    BY <1>1, <1>4, <1>5 DEF Once!Next, Once!Starts, OutOf, Over

\* One row is answered for: the promise's Ends.
LEMMA RowEnds ==
  ASSUME DispatchInv, NEW p \in Payments, Unanswered(p), ~Unanswered(p)', order'[p] # "none",
         \A q \in Payments \ {p} : /\ Unanswered(q)' <=> Unanswered(q)
                                   /\ Unanswered(q) => invoiceOf'[q] = invoiceOf[q]
                                   /\ order'[q] # "none" <=> order[q] # "none"
  PROVE  Once!Next
  <1>1. PICK i \in Invoices : i = invoiceOf[p]
    BY DEF DispatchInv, RowInv, RowsWellFormed, Unanswered, MoneyOut, LiveOrder
  <1>2. OutOf(i) = {p}
    BY <1>1 DEF OutOf, DispatchInv, NoUnansweredDoublePayment, SameInvoice
  <1>3. OutOf(i)' = {}
    BY <1>2 DEF OutOf
  <1>4. \A j \in Invoices \ {i} : OutOf(j)' = OutOf(j)
    BY <1>1 DEF OutOf
  <1>5. Over' = Over \cup {p}
    BY DEF Over
  <1>6. [j \in Invoices |-> OutOf(j)]' \in [Invoices -> SUBSET Payments]
    BY DEF OutOf
  <1> QED
    BY <1>1, <1>2, <1>3, <1>4, <1>5, <1>6 DEF Once!Next, Once!Ends, OutOf, Over

\* A step that changes one row, and takes no answer back, implements the promise.
LEMMA OneRowMoves ==
  ASSUME DispatchInv, DispatchInv', NEW p \in Payments,
         \A q \in Payments \ {p} : Untouched(q),
         Unanswered(p) => invoiceOf'[p] = invoiceOf[p] /\ order'[p] # "none",
         \/ order'[p] = order[p] /\ (Unanswered(p)' => Unanswered(p))
         \/ order[p] = "none" /\ Unanswered(p)'
         \/ order[p] # "none" /\ order'[p] # "none" /\ (Unanswered(p)' => Unanswered(p))
  PROVE  [Once!Next]_Once!vars
  <1>1. \A q \in Payments \ {p} : /\ Unanswered(q)' <=> Unanswered(q)
                                  /\ Unanswered(q) => invoiceOf'[q] = invoiceOf[q]
                                  /\ order'[q] # "none" <=> order[q] # "none"
    BY UntouchedSame
  <1>2. CASE Unanswered(p) /\ ~Unanswered(p)'
    BY <1>1, <1>2, RowEnds
  <1>3. CASE order[p] = "none" /\ Unanswered(p)'
    <2>1. \A x \in {p} : order[x] = "none" /\ Unanswered(x)'
      BY <1>3
    <2> HIDE <1>3
    <2> QED BY <1>1, <2>1, RowStarts
  <1>4. CASE (Unanswered(p)' <=> Unanswered(p)) /\ ~(order[p] = "none" /\ Unanswered(p)')
    <2>1. order'[p] # "none" <=> order[p] # "none"
      BY <1>4
    <2> QED BY <1>1, <1>4, <2>1, SameBooks
  <1> QED BY <1>2, <1>3, <1>4

\* A step that changes no row is a stutter of the promise.
LEMMA AllUntouched ==
  ASSUME UNCHANGED <<rows, order, reconciled>>
  PROVE  UNCHANGED Once!vars
  <1>1. \A q \in Payments : Untouched(q)
    BY DEF Untouched
  <1> QED BY <1>1, UntouchedSame, SameBooks

\* Booking, cancelling and recording outside implement the promise.
LEMMA BookingOnce ==
  ASSUME DispatchInv, DispatchInv', OverForGood, Booking
  PROVE  [Once!Next]_Once!vars
  <1>1. CASE (\E S \in SUBSET Invoices : VetInvoices(S)) \/ AbandonRun
    BY <1>1, AllUntouched DEF VetInvoices, AbandonRun
  <1>2. CASE (\E r \in Runs : BookRun(r) \/ CancelRun(r)) \/ (\E i \in Invoices, p \in Payments : CreatePayment(i, p))
    <2>1. \A q \in Payments : \/ Untouched(q)
                              \/ order[q] = "none" /\ order'[q] = "none"
      BY <1>2
         DEF BookRun, CancelRun, CreatePayment, Insert, Unused, Untouched, RowsIn,
             DispatchInv, RowInv, RowsWellFormed, DraftRowsUntouched, SentInv,
             UnstampedUnsent, Waiting
    <2>2. \A q \in Payments : /\ Unanswered(q)' <=> Unanswered(q)
                              /\ Unanswered(q) => invoiceOf'[q] = invoiceOf[q]
                              /\ order'[q] # "none" <=> order[q] # "none"
      BY <2>1, UntouchedSame DEF Unanswered, MoneyOut, LiveOrder
    <2> QED BY <2>2, SameBooks
  <1>3. CASE \E r \in Runs : RecordRunOutside(r)
    <2>1. PICK r \in Runs : RecordRunOutside(r)
      BY <1>3
    <2>2. \A p \in RowsIn(r) : order[p] = "none" /\ status[p] = "pending" /\ p \in Payments
      BY <2>1
         DEF RecordRunOutside, RowsIn, DispatchInv, RowInv, DraftRowsUntouched, SentInv,
             UnstampedUnsent, Waiting
    <2>3. \A p \in RowsIn(r) : Unanswered(p)'
      BY <2>1, <2>2
         DEF OverForGood, RecordRunOutside, CompleteOutside, Unanswered, MoneyOut,
             Answered, TakenAsDeclined, LiveOrder
    <2>4. \A q \in Payments \ RowsIn(r) : Untouched(q)
      BY <2>1 DEF RecordRunOutside, CompleteOutside, Untouched
    <2> QED BY <2>2, <2>3, <2>4, UntouchedSame, RowStarts
  <1>4. CASE \E i \in Invoices, p \in Payments : RecordOutside(i, p)
    <2>1. PICK i \in Invoices, p \in Payments : RecordOutside(i, p)
      BY <1>4
    <2>2. \A q \in Payments \ {p} : Untouched(q)
      BY <2>1 DEF RecordOutside, CompleteOutside, Untouched, DispatchInv, TypeOK
    <2>3. status[p] \in {"pending", "unused"} /\ status'[p] = "completed" /\ order'[p] = "outside"
          /\ reconciled' = reconciled
      BY <2>1 DEF RecordOutside, CompleteOutside, Unused, Exists, DispatchInv, TypeOK
    <2>4. Exists(p) => invoiceOf'[p] = invoiceOf[p]
      BY <2>1 DEF RecordOutside, Unused
    <2>5. order[p] = "none" => ~Unanswered(p)
      BY DEF Unanswered, MoneyOut, LiveOrder
    <2>6. Unanswered(p)'
      BY <2>3
         DEF OverForGood, Unanswered, MoneyOut, Answered, TakenAsDeclined, LiveOrder
    <2>7. order[p] # "none" => Unanswered(p) /\ Exists(p)
      BY <2>3
         DEF OverForGood, DispatchInv, TypeOK, RowInv, RowsWellFormed, Exists, Unanswered,
             MoneyOut, Answered, TakenAsDeclined, LiveOrder, OrderStatus, Waiting
    <2> QED BY <2>2, <2>3, <2>4, <2>5, <2>6, <2>7, OneRowMoves
  <1> QED BY <1>1, <1>2, <1>3, <1>4 DEF Booking

\* Recording an outcome ends at most the money of its own row.
LEMMA OutcomeOnce ==
  ASSUME DispatchInv, DispatchInv', NEW d \in Dispatchers, NEW s, NEW why, NEW doubt,
         Outcome(d, s, why, doubt), UNCHANGED order, s # "voided",
         status[cur[d]] \in Waiting, cur[d] \in Payments
  PROVE  [Once!Next]_Once!vars
  <1>1. \A q \in Payments \ {cur[d]} : Untouched(q)
    BY DEF Outcome, Untouched, DispatchInv, TypeOK
  <1>2. PICK p \in Payments : p = cur[d]
    OBVIOUS
  <1>3. Unanswered(p)' => Unanswered(p)
    BY <1>2
       DEF Outcome, Unanswered, MoneyOut, Answered, TakenAsDeclined, Waiting, DispatchInv,
           TypeOK
  <1>4. Unanswered(p) => order[p] # "none"
    BY DEF Unanswered, MoneyOut, LiveOrder
  <1> QED BY <1>1, <1>2, <1>3, <1>4, OneRowMoves DEF Outcome

\* Every way an attempt ends implements the promise.
LEMMA AnswersOnce ==
  ASSUME DispatchInv, DispatchInv', NEW d \in Dispatchers, Answers(d)
  PROVE  [Once!Next]_Once!vars
  <1>1. /\ pc[d] \in Holding \cup {"lost"} /\ order' = order
        /\ pc[d] \in Turn /\ cur[d] \in Payments
    BY DEF Answers, InvoiceLocked, Refuse, Hold, FailBeforeCall, RecordAccepted,
           RecordRefused, FailAfterCall, RecordAborted, Holding, Turn, DispatchInv,
           PassInv, TurnOnARow
  <1>2. pc[d] \in Holding \/ status[cur[d]] = Expected(d) => status[cur[d]] \in Waiting
    BY DEF DispatchInv, PassInv, HolderOwnsStamp, Expected, Waiting
  <1>3. CASE InvoiceLocked(d) /\ passOf[d] = None
    <2>1. PICK p \in Payments : p = cur[d]
      BY <1>1
    <2>2. /\ \A q \in Payments \ {p} : Untouched(q)
          /\ status' = status /\ invoiceOf' = invoiceOf /\ order' = order /\ reconciled' = reconciled
          /\ status[p] \in Waiting
      BY <1>2, <1>3, <2>1 DEF InvoiceLocked, Untouched, DispatchInv, TypeOK, Holding
    <2>3. Unanswered(p)' => Unanswered(p)
      BY <2>2 DEF Unanswered, MoneyOut, Answered, TakenAsDeclined, Waiting
    <2>4. Unanswered(p) => order[p] # "none"
      BY DEF Unanswered, MoneyOut, LiveOrder
    <2> QED BY <2>2, <2>3, <2>4, OneRowMoves
  <1>4. CASE RecordAborted(d) /\ status[cur[d]] # Expected(d)
    <2>1. UNCHANGED <<rows, order, reconciled>>
      BY <1>1, <1>4 DEF RecordAborted
    <2> QED BY <2>1, AllUntouched
  <1>5. CASE /\ ~(InvoiceLocked(d) /\ passOf[d] = None)
             /\ ~(RecordAborted(d) /\ status[cur[d]] # Expected(d))
    <2>1. \E s \in {"failed", "submitted", "completed", "pending_compliance"}, why \in Reason, doubt \in BOOLEAN :
             Outcome(d, s, why, doubt)
      BY <1>5
         DEF Answers, InvoiceLocked, Refuse, Hold, FailBeforeCall, RecordAccepted,
             RecordRefused, FailAfterCall, RecordAborted, Reason
    <2>2. status[cur[d]] \in Waiting
      BY <1>2, <1>5
         DEF Answers, InvoiceLocked, Refuse, Hold, FailBeforeCall, RecordAccepted,
             RecordRefused, FailAfterCall, RecordAborted, Holding
    <2> QED BY <1>1, <2>1, <2>2, OutcomeOnce
  <1> QED BY <1>3, <1>4, <1>5

\* Only the processor call sends money out.
LEMMA CallOnce ==
  ASSUME DispatchInv, DispatchInv', OverForGood, NEW d \in Dispatchers, CallProcessor(d)
  PROVE  [Once!Next]_Once!vars
  <1>1. PICK p \in Payments : p = cur[d]
    BY DEF CallProcessor, DispatchInv, PassInv, TurnOnARow, Turn
  <1>2. /\ \A q \in Payments \ {p} : Untouched(q)
        /\ UNCHANGED <<rows, reconciled>>
        /\ order'[p] \in {order[p], "open", "settled"}
        /\ order[p] # "none" => order'[p] = order[p]
    BY <1>1 DEF CallProcessor, Untouched, DispatchInv, TypeOK
  <1>3. status[p] \in Waiting
    BY <1>1
       DEF CallProcessor, DispatchInv, PassInv, HolderOwnsStamp, Holding, Expected, Waiting
  <1>4. order'[p] # order[p] => Unanswered(p)'
    BY <1>2, <1>3
       DEF OverForGood, Unanswered, MoneyOut, Answered, TakenAsDeclined, LiveOrder,
           Waiting
  <1>5. order'[p] = order[p] => (Unanswered(p)' <=> Unanswered(p))
    BY <1>2 DEF Unanswered, MoneyOut, Answered, TakenAsDeclined
  <1>6. Unanswered(p) => order[p] # "none"
    BY DEF Unanswered, MoneyOut, LiveOrder
  <1> QED BY <1>2, <1>4, <1>5, <1>6, OneRowMoves

\* The stamp sends nothing.
LEMMA MarkOnce ==
  ASSUME DispatchInv, DispatchInv', NEW d \in Dispatchers, NEW p \in Payments, Mark(d, p), status[p] \in Waiting
  PROVE  [Once!Next]_Once!vars
  <1>1. /\ \A q \in Payments \ {p} : Untouched(q)
        /\ UNCHANGED <<status, invoiceOf, reason, order, reconciled>>
    BY DEF Mark, Untouched, DispatchInv, TypeOK
  <1>2. Unanswered(p)' => Unanswered(p)
    BY <1>1 DEF Unanswered, MoneyOut, Answered, TakenAsDeclined, Waiting
  <1>3. Unanswered(p) => order[p] # "none"
    BY DEF Unanswered, MoneyOut, LiveOrder
  <1> QED BY <1>1, <1>2, <1>3, OneRowMoves

\* Booking a retry sends nothing.
LEMMA BookRetryOnce ==
  ASSUME DispatchInv, NEW d \in Dispatchers, BookRetry(d)
  PROVE  UNCHANGED Once!vars
  <1>1. \A q \in Payments : Untouched(q) \/ (order[q] = "none" /\ order'[q] = "none")
    <2>1. PICK Q \in SUBSET Unused : \E who : Insert(Q, who, passOf[d])
      BY DEF BookRetry
    <2>2. \A q \in Q : order[q] = "none" /\ order'[q] = "none"
      BY DEF BookRetry, Unused, DispatchInv, RowInv, RowsWellFormed
    <2>3. PICK who : Insert(Q, who, passOf[d])
      BY <2>1
    <2>4. UNCHANGED world
      BY DEF BookRetry
    <2>5. ASSUME NEW q \in Payments \ Q
          PROVE  Untouched(q)
      <3>1. status'[q] = status[q] /\ invoiceOf'[q] = invoiceOf[q] /\ reason' = reason /\ stamp' = stamp
        BY <2>3 DEF Insert
      <3>2. order' = order /\ reconciled' = reconciled
        BY <2>4
      <3> QED BY <3>1, <3>2 DEF Untouched
    <2> QED BY <2>2, <2>5
  <1>2. \A q \in Payments : /\ Unanswered(q)' <=> Unanswered(q)
                            /\ Unanswered(q) => invoiceOf'[q] = invoiceOf[q]
                            /\ order'[q] # "none" <=> order[q] # "none"
    BY <1>1, UntouchedSame DEF Unanswered, MoneyOut, LiveOrder
  <1> QED BY <1>2, SameBooks

\* Every step of a request implements the promise.
LEMMA DispatcherOnce ==
  ASSUME DispatchInv, DispatchInv', OverForGood, NEW d \in Dispatchers, Begin(d) \/ Proceed(d) \/ Break(d)
  PROVE  [Once!Next]_Once!vars
  <1>1. CASE \E p \in Payments : MarkNext(d, p) \/ Release(d, p)
    BY <1>1, MarkOnce DEF MarkNext, Release, Waiting
  <1>2. CASE BookRetry(d)
    BY <1>2, BookRetryOnce
  <1>3. CASE CallProcessor(d)
    BY <1>3, CallOnce
  <1>4. CASE Answers(d)
    BY <1>4, AnswersOnce
  <1>5. CASE \/ \E r \in Runs : Execute(d, r) \/ Resume(d, r) \/ VetRetry(d, r)
             \/ RefuseRetry(d) \/ ReadPending(d) \/ \E p \in Payments : SkipMoved(d, p)
             \/ Relock(d) \/ SkipClaimed(d) \/ Finish(d) \/ Break(d)
    <2>1. UNCHANGED <<rows, order, reconciled>>
      BY <1>5
         DEF Execute, Resume, VetRetry, RefuseRetry, ReadPending, SkipMoved, Relock,
             SkipClaimed, Finish, Break, LoseConnection, Crash
    <2> QED BY <2>1, AllUntouched
  <1> QED BY <1>1, <1>2, <1>3, <1>4, <1>5 DEF Begin, Proceed, Answers

\* A review ends the money of at most one row of the invoice.
LEMMA ReviewOnce ==
  ASSUME DispatchInv, DispatchInv', Review
  PROVE  [Once!Next]_Once!vars
  <1>1. ASSUME NEW p \in Payments, Dismiss(p) \/ Void(p)
        PROVE  [Once!Next]_Once!vars
    <2>1. /\ \A q \in Payments \ {p} : Untouched(q)
          /\ UNCHANGED <<invoiceOf, stamp, order, reconciled>>
      BY <1>1 DEF Dismiss, Void, Untouched, DispatchInv, TypeOK
    <2>2. Unanswered(p)' => Unanswered(p)
      BY <1>1
         DEF Dismiss, Void, Unanswered, MoneyOut, Answered, TakenAsDeclined, DispatchInv,
             TypeOK
    <2>3. Unanswered(p) => order[p] # "none"
      BY DEF Unanswered, MoneyOut, LiveOrder
    <2> QED BY <2>1, <2>2, <2>3, OneRowMoves
  <1>2. ASSUME NEW i \in Invoices, ResolveException(i)
        PROVE  [Once!Next]_Once!vars
    <2>1. UNCHANGED <<rows, order>> /\ reconciled' = reconciled \cup {p \in RowsOf(i) : status[p] = "failed"}
      BY <1>2 DEF ResolveException
    <2>2. \A p \in Payments : Unanswered(p)' => Unanswered(p)
      BY <2>1 DEF Unanswered, MoneyOut, Answered, TakenAsDeclined
    <2>3. \A p, q \in Payments : Unanswered(p) /\ ~Unanswered(p)' /\ Unanswered(q) /\ ~Unanswered(q)' => p = q
      BY <2>1
         DEF DispatchInv, NoUnansweredDoublePayment, SameInvoice, Unanswered, MoneyOut,
             Answered, TakenAsDeclined, RowsOf
    <2>4. \A p \in Payments : order[p] = "none" => ~Unanswered(p)
      BY DEF Unanswered, MoneyOut, LiveOrder
    <2>5. CASE \E p \in Payments : Unanswered(p) /\ ~Unanswered(p)'
      <3>1. PICK p \in Payments : Unanswered(p) /\ ~Unanswered(p)'
        BY <2>5
      <3>2. \A q \in Payments \ {p} : Unanswered(q)' <=> Unanswered(q)
        BY <2>2, <2>3, <3>1
      <3> QED BY <2>1, <2>4, <3>1, <3>2, RowEnds
    <2>6. CASE \A p \in Payments : Unanswered(p) => Unanswered(p)'
      BY <2>1, <2>2, <2>6, SameBooks
    <2> QED BY <2>5, <2>6
  <1> QED BY <1>1, <1>2 DEF Review

\* Webhooks, polls and verdicts implement the promise.
LEMMA RailOnce ==
  ASSUME DispatchInv, DispatchInv', NEW p \in Payments, ProcessorDecides(p) \/ Webhook(p) \/ Reconcile(p)
  PROVE  [Once!Next]_Once!vars
  <1>1. /\ \A q \in Payments \ {p} : Untouched(q)
        /\ UNCHANGED <<invoiceOf, stamp, reconciled>>
        /\ order'[p] = order[p] \/ (order[p] = "open" /\ order'[p] # "none" /\ status'[p] = "submitted")
        /\ status[p] = "submitted"
    <2>1. CASE ProcessorDecides(p)
      BY <2>1 DEF ProcessorDecides, Untouched, DispatchInv, TypeOK
    <2>2. CASE Webhook(p) \/ Poll(p)
      <3>1. /\ status[p] = "submitted" /\ order' = order /\ reconciled' = reconciled
            /\ UNCHANGED <<invoiceOf, stamp>>
            /\ \A q \in Payments \ {p} : status'[q] = status[q] /\ reason'[q] = reason[q]
        BY <2>2 DEF Webhook, Poll, Settle, DispatchInv, TypeOK
      <3> QED BY <3>1 DEF Untouched
    <2>3. CASE AgeOut(p)
      <3>1. /\ status[p] = "submitted" /\ order' = order /\ reconciled' = reconciled
            /\ UNCHANGED <<invoiceOf, stamp>>
            /\ \A q \in Payments \ {p} : status'[q] = status[q] /\ reason'[q] = reason[q]
        BY <2>3 DEF AgeOut, DispatchInv, TypeOK
      <3> QED BY <3>1 DEF Untouched
    <2> QED BY <2>1, <2>2, <2>3 DEF Reconcile
  <1>2. Unanswered(p)' => Unanswered(p)
    BY <1>1 DEF Unanswered, MoneyOut, Answered, TakenAsDeclined, LiveOrder
  <1>3. Unanswered(p) => order[p] # "none"
    BY DEF Unanswered, MoneyOut, LiveOrder
  <1> QED BY <1>1, <1>2, <1>3, OneRowMoves

\* Every step implements the promise.
LEMMA NextOnce ==
  ASSUME DispatchInv, DispatchInv', OverForGood, [Next]_vars
  PROVE  [Once!Next]_Once!vars
  <1>1. CASE UNCHANGED vars
    BY <1>1, AllUntouched DEF vars
  <1>2. CASE Booking
    BY <1>2, BookingOnce
  <1>3. CASE \E d \in Dispatchers : Begin(d) \/ Proceed(d) \/ Break(d)
    BY <1>3, DispatcherOnce
  <1>4. CASE Review
    BY <1>4, ReviewOnce
  <1>5. CASE \E p \in Payments : ProcessorDecides(p) \/ Webhook(p) \/ Reconcile(p)
    BY <1>5, RailOnce
  <1>6. CASE \E v \in Viewers : Listing(v)
    BY <1>6, AllUntouched DEF Listing, ListRun, DeriveStatus, PersistDerived
  <1> QED BY <1>1, <1>2, <1>3, <1>4, <1>5, <1>6 DEF Next

\* The payment code implements the promise of MoneyOut: for one invoice at most one
\* payment is out at a time, and one that is over never starts again.
THEOREM PaysOnce == Spec => MoneyOutOnce
  <1>1. Init => Once!Init
    BY DEF Init, Once!Init, Unanswered, MoneyOut, LiveOrder
  <1>2. DispatchInv /\ DispatchInv' /\ OverForGood /\ [Next]_vars => [Once!Next]_Once!vars
    BY NextOnce
  <1> QED
    BY <1>1, <1>2, Invariance, DispatchInvariance, OverStays, PTL DEF Spec, MoneyOutOnce, Once!Spec

\* Money once answered for, by the rail's verdict, an adapter's failure or a person, is
\* never out again under the same payment: no late webhook, retry or review re-opens it
\* (payment_webhook, retry_failed_payments, void_payment).
THEOREM AnswersStand ==
  Spec => [][\A p \in Payments : order[p] # "none" /\ ~Unanswered(p) => ~Unanswered(p)']_vars
  <1>1. ASSUME [Once!Next]_Once!vars, NEW p \in Over
        PROVE  p \in Over'
    <2>1. CASE UNCHANGED Once!vars
      BY <1>1, <2>1 DEF Once!vars, Over
    <2>2. CASE Once!Next
      BY <1>1, <2>2 DEF Once!Next, Once!Ends, Over
    <2> QED BY <1>1, <2>1, <2>2
  <1>2. DispatchInv /\ DispatchInv' /\ OverForGood /\ [Next]_vars =>
          [\A p \in Payments : order[p] # "none" /\ ~Unanswered(p) => ~Unanswered(p)']_vars
    BY <1>1, NextOnce DEF Over
  <1> QED BY <1>2, Invariance, DispatchInvariance, OverStays, PTL DEF Spec

\* The row of a payment whose money is out and unanswered is never deleted, nor given
\* to another invoice, by a draft's cancellation, a record made outside or a retry: the
\* processor's order is found under it (cancel_payment_run, retry_failed_payments).
THEOREM MoneyKeepsItsRow ==
  Spec => [][\A p \in Payments :
               Unanswered(p) => /\ Exists(p)'
                                /\ Unanswered(p)' => invoiceOf'[p] = invoiceOf[p]]_vars
  <1>1. ASSUME DispatchInv, [Once!Next]_Once!vars, NEW i \in Invoices, NEW p \in OutOf(i)
        PROVE  p \in OutOf(i)' \/ p \in Over'
    <2>1. CASE UNCHANGED Once!vars
      BY <1>1, <2>1 DEF Once!vars, OutOf
    <2>2. CASE Once!Next
      BY <1>1, <2>2 DEF Once!Next, Once!Starts, Once!Ends, OutOf, Over
    <2> QED BY <1>1, <2>1, <2>2
  <1>2. ASSUME DispatchInv, DispatchInv', [Once!Next]_Once!vars,
               NEW p \in Payments, Unanswered(p)
        PROVE  Exists(p)' /\ (Unanswered(p)' => invoiceOf'[p] = invoiceOf[p])
    <2>1. order[p] # "none"
      BY <1>2 DEF Unanswered, MoneyOut, LiveOrder
    <2>2. PICK i \in Invoices : i = invoiceOf[p]
      BY <1>2, <2>1 DEF DispatchInv, RowInv, RowsWellFormed
    <2>3. p \in OutOf(i)' \/ p \in Over'
      BY <1>1, <1>2, <2>2 DEF OutOf
    <2>4. order'[p] # "none"
      BY <2>3 DEF OutOf, Over, Unanswered, MoneyOut, LiveOrder
    <2>5. Exists(p)'
      BY <1>2, <2>4 DEF DispatchInv, RowInv, RowsWellFormed
    <2> QED BY <2>2, <2>3, <2>5 DEF OutOf, Over
  <1>3. DispatchInv /\ DispatchInv' /\ OverForGood /\ [Next]_vars =>
          [\A p \in Payments :
             Unanswered(p) => /\ Exists(p)'
                              /\ Unanswered(p)' => invoiceOf'[p] = invoiceOf[p]]_vars
    BY <1>2, NextOnce
  <1> QED BY <1>3, Invariance, DispatchInvariance, OverStays, PTL DEF Spec
=============================================================================
