----------------------------- MODULE MCErpPush -----------------------------
(* ErpPush on a small set of model values. *)
EXTENDS ErpPushInvariant, TLC

\* Send tasks carry no identity of their own.
Symmetry == Permutations(Tasks)
=============================================================================
