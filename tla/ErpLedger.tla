------------------------------ MODULE ErpLedger ------------------------------
(***************************************************************************)
(* What FeohLedger's books and the ERP's owe each other for one payment:   *)
(* it is written to the ERP at most once, on the strength of a payment     *)
(* that stands; a payment taken back is owed to the ERP until it is off    *)
(* the ERP's books; and what is off them does not come back.               *)
(*                                                                         *)
(* A payment written after it was taken back is the ledger's one breach,   *)
(* and is named in `late'.                                                 *)
(***************************************************************************)
CONSTANT Payments

VARIABLES
    books,  \* [Payments -> {"none", "paid", "void"}]: here
    there,  \* [Payments -> {"none", "live", "voided"}]: the same payment in the ERP
    owed,   \* payments whose void the ERP is still to be told
    late    \* payments written to the ERP after they were taken back

vars == <<books, there, owed, late>>

Init ==
    /\ books = [p \in Payments |-> "none"]
    /\ there = [p \in Payments |-> "none"]
    /\ owed = {} /\ late = {}

Complete(p) ==
    /\ books[p] = "none"
    /\ books' = [books EXCEPT ![p] = "paid"]
    /\ UNCHANGED <<there, owed, late>>

\* Before it completed, or after: then the ERP is owed the void, unless the ERP
\* made the payment and there is nothing of ours to void.
TakeBack(p) ==
    /\ books[p] # "void"
    /\ books' = [books EXCEPT ![p] = "void"]
    /\ owed' = owed \cup {p} \/ (owed' = owed /\ there[p] = "none")
    /\ UNCHANGED <<there, late>>

Write(p) ==
    /\ books[p] # "none" /\ there[p] = "none"
    /\ there' = [there EXCEPT ![p] = "live"]
    /\ late' = IF books[p] = "paid" THEN late ELSE late \cup {p}
    /\ UNCHANGED <<books, owed>>

\* By our void, or by a person in the ERP.
TakeOff(p) ==
    /\ there[p] = "live"
    /\ there' = [there EXCEPT ![p] = "voided"]
    /\ UNCHANGED <<books, owed, late>>

\* The void is answered for: nothing of the payment stands, unless it came late.
Discharge(p) ==
    /\ p \in owed /\ (there[p] # "live" \/ p \in late)
    /\ owed' = owed \ {p}
    /\ UNCHANGED <<books, there, late>>

Next == \E p \in Payments :
    Complete(p) \/ TakeBack(p) \/ Write(p) \/ TakeOff(p) \/ Discharge(p)

Spec == Init /\ [][Next]_vars
=============================================================================
