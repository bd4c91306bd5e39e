---------------------------- MODULE StockCounter ----------------------------
(***************************************************************************)
(* What the inventory of one ticket type promises the booking service: a   *)
(* counter from which units are taken and to which they are given back.    *)
(* Units may be lost (Redis keys expire); none is ever made up, so the     *)
(* units on sale and the units handed out never exceed the capacity.       *)
(***************************************************************************)
EXTENDS Integers

CONSTANT Capacity

VARIABLES stock,   \* units that can still be reserved
          out      \* units handed out and not given back

vars == <<stock, out>>

Init == stock = 0 /\ out = 0

Open == /\ stock = 0 /\ out = 0
        /\ stock' \in 0 .. Capacity
        /\ UNCHANGED out

Take == \E q \in 1 .. stock : stock' = stock - q /\ out' = out + q

Give == \E q \in 1 .. out : stock' = stock + q /\ out' = out - q

Lose == stock' \in 0 .. stock /\ UNCHANGED out

Next == Open \/ Take \/ Give \/ Lose

Spec == Init /\ [][Next]_vars
=============================================================================
