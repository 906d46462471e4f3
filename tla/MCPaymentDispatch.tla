-------------------------- MODULE MCPaymentDispatch --------------------------
(* PaymentDispatch on small sets of model values. *)
EXTENDS PaymentDispatchInvariant, TLC

\* Invoices, payment rows, runs and dispatchers carry no identity of their own.
Symmetry ==
    Permutations(Invoices) \cup Permutations(Payments)
        \cup Permutations(Runs) \cup Permutations(Dispatchers)
        \cup Permutations(Viewers)

\* Bound: the identities of rows are few.  Where every row has ended nothing can be
\* booked again, which no tenant ever meets: such a state is checked, not left.
RowsRemain == \E p \in Payments : status[p] \notin Terminal
=============================================================================
