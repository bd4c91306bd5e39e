------------------------------ MODULE Booking -------------------------------
(***************************************************************************)
(* What the booking service promises the customer for one reservation: it  *)
(* is held or given up, a hold is ordered or given up, and neither of the  *)
(* two is ever taken back.  Only what is paid and not refunded is ordered, *)
(* and an order is not refunded.  When things go wrong on the way nothing  *)
(* is promised but that no money is returned that was not paid.            *)
(***************************************************************************)
VARIABLES fate,      \* "asked", "held", "ordered", "given up" or "unknown"
          paid,
          refunded

vars == <<fate, paid, refunded>>

Init == fate \in {"asked", "unknown"} /\ paid = FALSE /\ refunded = FALSE

Hold == /\ fate = "asked"
        /\ fate' = "held"
        /\ UNCHANGED <<paid, refunded>>

Order == /\ fate = "held" /\ paid /\ ~ refunded
         /\ fate' = "ordered"
         /\ UNCHANGED <<paid, refunded>>

GiveUp == /\ fate \in {"asked", "held"}
          /\ fate' = "given up"
          /\ UNCHANGED <<paid, refunded>>

GoWrong == /\ fate' = "unknown"
           /\ UNCHANGED <<paid, refunded>>

Pay == /\ ~ paid /\ paid' = TRUE
       /\ UNCHANGED <<fate, refunded>>

Refund == /\ fate \notin {"asked", "ordered"} /\ paid
          /\ refunded' = TRUE
          /\ UNCHANGED <<fate, paid>>

Next == Hold \/ Order \/ GiveUp \/ GoWrong \/ Pay \/ Refund

Spec == Init /\ [][Next]_vars
=============================================================================
