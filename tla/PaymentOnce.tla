---------------------------- MODULE PaymentOnce -----------------------------
(***************************************************************************)
(* What the payment service promises of each payment intent and refund:    *)
(* it is opened, gets one final status that never changes, is announced    *)
(* with that status only, and a refund is recorded as done exactly if the  *)
(* provider was made to pay back.                                          *)
(***************************************************************************)
CONSTANTS Intents, Refunds

VARIABLES status,  \* of every intent and refund, "none" before it exists
          paid,    \* refunds the provider has paid back
          told     \* pairs of an id and the final status announced for it

vars == <<status, paid, told>>

Ids == Intents \cup Refunds
Final == {"SUCCEEDED", "FAILED", "CANCELED", "EXPIRED"}

Init == /\ status = [x \in Ids |-> "none"]
        /\ paid = {}
        /\ told = {}

Open(x) == /\ status[x] = "none"
           /\ status' = [status EXCEPT ![x] = "PENDING"]
           /\ UNCHANGED <<paid, told>>

Settle(x, s) == /\ status[x] = "PENDING"
                /\ x \in Refunds /\ s = "SUCCEEDED" => x \in paid
                /\ x \in Refunds /\ s = "FAILED" => x \notin paid
                /\ status' = [status EXCEPT ![x] = s]
                /\ UNCHANGED <<paid, told>>

PayBack(f) == /\ status[f] = "PENDING"
              /\ paid' = paid \cup {f}
              /\ UNCHANGED <<status, told>>

Announce(x) == /\ status[x] \in Final
               /\ told' = told \cup {<<x, status[x]>>}
               /\ UNCHANGED <<status, paid>>

Next == \/ \E x \in Ids : \/ Open(x)
                          \/ Announce(x)
                          \/ \E s \in Final : Settle(x, s)
        \/ \E f \in Refunds : PayBack(f)

Spec == Init /\ [][Next]_vars
=============================================================================
