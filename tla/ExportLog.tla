------------------------------ MODULE ExportLog ------------------------------
(* What the export of log records promises (kaziquery_relay.ts): records   *)
(* that are admitted form a log, numbered without a gap, and the receiver  *)
(* holds a prefix of it: nothing twice, nothing out of order.              *)
EXTENDS Naturals, Sequences

CONSTANT Records

VARIABLES
  log,    \* the records admitted, with their sequence numbers
  stored  \* what the receiver holds

Init == log = <<>> /\ stored = <<>>

Admit(r) ==
  /\ \A k \in DOMAIN log : log[k].record # r
  /\ log' = Append(log, [record |-> r, sequence |-> Len(log)])
  /\ UNCHANGED stored

Deliver ==
  /\ stored' \in {SubSeq(log, 1, n) : n \in Len(stored)..Len(log)}
  /\ UNCHANGED log

Next == Deliver \/ \E r \in Records : Admit(r)

Spec == Init /\ [][Next]_<<log, stored>>
=============================================================================
