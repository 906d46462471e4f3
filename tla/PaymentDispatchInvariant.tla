---------------------- MODULE PaymentDispatchInvariant ----------------------
(***************************************************************************)
(* Why no invoice is paid twice: the invariant behind the safety           *)
(* properties of PaymentDispatch, strong enough to be preserved by every   *)
(* step whatever state the step starts in.                                 *)
(***************************************************************************)
EXTENDS PaymentDispatch

\* A run that holds rows and may be dispatched.
Begun  == {"executing"} \cup RunOutcome
Booked == {"draft"} \cup Begun

\* Rows not sent yet, or held.
Waiting == {"pending", "pending_compliance"}

\* The steps of a turn, from the stamp to the recorded outcome.
Turn    == {"marked", "attempt", "called", "lost"}
Holding == {"attempt", "called"}

\* A row belongs to an invoice and a booked run; an identity not in use has
\* no run, no stamp and no order.
RowsWellFormed ==
    \A p \in Payments :
        IF Exists(p)
        THEN /\ invoiceOf[p] \in Invoices
             /\ runOf[p] # None => runStatus[runOf[p]] \in Booked
        ELSE runOf[p] = None /\ stamp[p] = None /\ order[p] = "none"

\* The partial unique index: two live rows of one invoice are one row.
OneLiveRow ==
    \A p, q \in Payments : Live(p) /\ Live(q) /\ invoiceOf[p] = invoiceOf[q] => p = q

\* What a retry replaced has failed, for good.
RetriedHaveFailed == \A p \in retried : status[p] = "failed"

\* Nobody has touched the rows of a draft run.
DraftRowsUntouched ==
    \A p \in Payments :
        Exists(p) /\ runOf[p] # None /\ runStatus[runOf[p]] = "draft"
            => status[p] = "pending" /\ stamp[p] = None

\* A booked run has an active row, so its rollup never reads draft again.
RunsHaveRows ==
    \A r \in Runs : runStatus[r] \in Booked =>
        \E p \in Payments : Exists(p) /\ runOf[p] = r /\ p \notin retried

\* A waiting row without a stamp was never sent.
UnstampedUnsent ==
    \A p \in Payments : status[p] \in Waiting /\ stamp[p] = None => order[p] = "none"

\* A pass works on rows of its own run, which has begun.
PassOnItsRun ==
    \A d \in Dispatchers :
        /\ pc[d] = "idle" => passOf[d] = None
        /\ pc[d] \in {"retrying", "claimed", "looping"} => passOf[d] # None
        /\ passOf[d] # None => runStatus[passOf[d]] \in Begun
        /\ \A p \in todo[d] :
              /\ Exists(p) /\ passOf[d] # None /\ runOf[p] = passOf[d]
              /\ pc[d] = "retrying" => status[p] = "failed"

\* The row of a turn exists and is in no draft run; between turns there is none.
TurnOnARow ==
    \A d \in Dispatchers :
        IF pc[d] \in Turn
        THEN /\ cur[d] \in Payments /\ Exists(cur[d])
             /\ passOf[d] # None => runOf[cur[d]] = passOf[d]
             /\ runOf[cur[d]] # None => runStatus[runOf[cur[d]]] \in Begun
        ELSE cur[d] = None

\* Who holds a row lock past the stamp wrote the stamp that is on the row.
HolderOwnsStamp ==
    \A d \in Dispatchers :
        pc[d] \in Holding => status[cur[d]] = Expected(d) /\ stamp[cur[d]] = d

\* A first attempt has not called the processor yet, nor has anyone before it.
FirstAttemptUnsent ==
    \A d \in Dispatchers :
        /\ pc[d] \in {"marked", "attempt"} /\ ~remarked[d]
        /\ status[cur[d]] \in Waiting /\ stamp[cur[d]] = d
        => order[cur[d]] = "none"

RowInv  == RowsWellFormed /\ OneLiveRow /\ RetriedHaveFailed /\ DraftRowsUntouched /\ RunsHaveRows
PassInv == PassOnItsRun /\ TurnOnARow /\ HolderOwnsStamp
SentInv == UnstampedUnsent /\ FirstAttemptUnsent

\* What a dispatch, a booking or a review needs: together with the two properties
\* that it is for.
DispatchInv ==
    /\ TypeOK
    /\ RowInv
    /\ PassInv
    /\ SentInv
    /\ InDoubtIsBlocked
    /\ NoUnansweredDoublePayment

\* A run that is being listed has begun, and what is derived for it does too.
ListedHaveBegun ==
    \A v \in Viewers :
        /\ listing[v] # None => runStatus[listing[v]] \in Begun
        /\ derived[v] \in Begun \cup {"unused"}

\* The inductive invariant.
IInv == DispatchInv /\ ListedHaveBegun

(***************************************************************************)
(* Two things people do to a run at the wrong moment strand its pending    *)
(* rows: resuming it while a pass is still at work on it, and following up *)
(* a listing that was opened before the run was claimed again.  Where      *)
(* neither happens, no run leg is ever left behind.                        *)
(***************************************************************************)

\* Nobody resumes a run that a pass is still at work on.
OnePassPerRun ==
    \A d, e \in Dispatchers : passOf[d] # None /\ passOf[d] = passOf[e] => d = e

\* Nobody claims a run again while someone is following up its listing.
NoLateListing ==
    \A v \in Viewers : listing[v] # None => runStatus[listing[v]] # "executing"

\* The rows of a run still to be sent.
Legs(r) == {p \in Payments : status[p] = "pending" /\ runOf[p] = r}

\* A pass that has claimed its run.
AtWork(d) == passOf[d] # None /\ pc[d] \in {"claimed", "looping"} \cup Turn

\* A pass works under the claim, has every leg of the run on its list, and its
\* stamp on the leg whose turn it is, so that no leg is skipped.
HoldsItsLegs(d) ==
    AtWork(d) =>
        /\ runStatus[passOf[d]] = "executing"
        /\ pc[d] # "claimed" => Legs(passOf[d]) \subseteq todo[d]
        /\ pc[d] \in Turn /\ status[cur[d]] = "pending" => stamp[cur[d]] = d

\* An outcome is what a run without legs has ...
OutcomeMeansNoLegs == \A r \in Runs : runStatus[r] \in RunOutcome => Legs(r) = {}

\* ... and is all that anyone derives.
OutcomesAreDerived == \A v \in Viewers : derived[v] \in RunOutcome \cup {"unused"}

\* Inductive together with IInv, along steps between states where nobody has
\* resumed or listed a run at the wrong moment.
LegInv ==
    /\ \A d \in Dispatchers : HoldsItsLegs(d)
    /\ OutcomeMeansNoLegs
    /\ OutcomesAreDerived
=============================================================================
