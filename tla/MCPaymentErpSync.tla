-------------------------- MODULE MCPaymentErpSync --------------------------
(* PaymentErpSync on small sets of model values. *)
EXTENDS PaymentErpSyncInvariant, TLC

\* Payment rows, tasks and readers carry no identity of their own.
Symmetry == Permutations(Payments) \cup Permutations(Workers) \cup Permutations(Readers)

\* Bound: the identities of rows are few.  Where every row has ended nothing can be
\* booked again, which no tenant ever meets: such a state is checked, not left.
RowsRemain == \E p \in Payments : status[p] \notin Terminal
=============================================================================
