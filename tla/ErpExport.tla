------------------------------ MODULE ErpExport ------------------------------
(***************************************************************************)
(* What sending an invoice to the ERP promises: it is being pushed or      *)
(* being paid, never both, and passes from one to the other only when it   *)
(* is nobody's; the ERP is asked for a bill only while nobody pays the     *)
(* invoice, and only once it is noted that the bill may exist; that note   *)
(* goes only when there is no bill and no request for one left.            *)
(*                                                                         *)
(* Nothing is promised any more once two sends of the invoice overlapped.  *)
(***************************************************************************)
VARIABLES
    holders,  \* who has the invoice: "push", "payment"
    noted,    \* FeohLedger knows that the ERP may hold a bill of it
    there,    \* the ERP holds one, or a request for one is under way
    broken    \* two sends overlapped

vars == <<holders, noted, there, broken>>

Init == holders = {} /\ noted = FALSE /\ there = FALSE /\ broken = FALSE

Take ==
    /\ holders = {}
    /\ holders' \in {{"push"}, {"payment"}}
    /\ UNCHANGED <<noted, there>>

Leave ==
    /\ holders' = {}
    /\ UNCHANGED <<noted, there>>

Ask ==
    /\ "payment" \notin holders
    /\ noted' = TRUE /\ there' = TRUE
    /\ UNCHANGED holders

\* The bill is voided, or the request refused: there is nothing left to find.
Settle ==
    /\ there' = FALSE
    /\ noted' => noted
    /\ UNCHANGED holders

Next == (broken => broken') /\ (broken' \/ Take \/ Leave \/ Ask \/ Settle)

Spec == Init /\ [][Next]_vars
=============================================================================
