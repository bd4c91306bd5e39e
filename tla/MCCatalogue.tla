---------------------------- MODULE MCCatalogue -----------------------------
(***************************************************************************)
(* For TLC: Catalogue, and Delivery by itself with a handler that may fail *)
(* as it likes.  part says which one runs.                                 *)
(***************************************************************************)
EXTENDS Catalogue, TLC

VARIABLE part

Alone == part = "delivery"

MCMessages == Announcement
Letters == {m \in Messages : m.op = "update" /\ m.v <= 2 /\ ~m.zero}

MCInit == /\ Init
          /\ part \in {"catalogue", "delivery"}
          /\ Alone => ~answers

NextAlone ==
  /\ \/ HandleOk \/ HandleFail \/ Deliver
     \/ \E m \in Letters \ Sent : Send(m)
  /\ UNCHANGED <<answers, records>>

MCNext == /\ UNCHANGED part
          /\ \/ ~Alone /\ Next
             \/ Alone /\ NextAlone

MCSpec == MCInit /\ [][MCNext]_<<vars, part>> /\ DeliveryFairness
-----------------------------------------------------------------------------
\* The cached list is followed until the first message is handled, snapshots
\* until there is a reason for them to differ.
BoundList == list # "none" \/ fill # "none" => Len(topic) <= 1 /\ next = 1 /\ step = "idle"
BoundReasons ==
  /\ ~past.kept
  /\ past.raced \cup past.unsent \cup past.overtaken \cup past.free = {}
  /\ dead \cup missed = {}
\* A request and the consumer meet in the topic only: while the consumer is at
\* a message, requests are about to send theirs or idle.
BoundRequests == step # "idle" => \A r \in Busy : At(r, "send")
Bound == Alone \/ (BoundList /\ BoundReasons /\ BoundRequests)
=============================================================================
