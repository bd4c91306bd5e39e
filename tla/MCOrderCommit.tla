--------------------------- MODULE MCOrderCommit ----------------------------
(***************************************************************************)
(* OrderCommit for TLC: three attempts to commit six tickets of two types *)
(* in chunks of two.                                                       *)
(***************************************************************************)
EXTENDS OrderCommit, SequencesExt

\* _expandTicketPlan: qty tickets per line, numbered from 1 within the line.
ExpandTicketPlan(lines) ==
  FlattenSeq([l \in 1 .. Len(lines) |->
    [i \in 1 .. lines[l].qty |-> <<lines[l].ttId, i>>]])

MCPlan == ExpandTicketPlan(<<[ttId |-> "vip", qty |-> 2],
                             [ttId |-> "standard", qty |-> 4]>>)
=============================================================================
