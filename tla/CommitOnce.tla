----------------------------- MODULE CommitOnce -----------------------------
(***************************************************************************)
(* What the order service promises for one reservation: however often the  *)
(* commit is attempted, the order and all its tickets appear at once, one  *)
(* attempt is told it committed, and every other finished one is told that *)
(* the order already existed.                                              *)
(***************************************************************************)
CONSTANTS Attempts, Tickets

VARIABLES issued,   \* the tickets a buyer may rely on
          answer    \* what each attempt was told

vars == <<issued, answer>>

Init == /\ issued = {}
        /\ answer = [a \in Attempts |-> "none"]

Commit(a) == /\ issued = {}
             /\ answer[a] = "none"
             /\ issued' = Tickets
             /\ answer' = [answer EXCEPT ![a] = "committed"]

Repeat(a) == /\ issued = Tickets
             /\ answer[a] = "none"
             /\ answer' = [answer EXCEPT ![a] = "already"]
             /\ UNCHANGED issued

Next == \E a \in Attempts : Commit(a) \/ Repeat(a)

Spec == Init /\ [][Next]_vars
=============================================================================
