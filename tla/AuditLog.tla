------------------------------ MODULE AuditLog ------------------------------
(***************************************************************************)
(* What the ledger promises its callers: an audit trail to which entries   *)
(* are added one at a time, at the end, and from which an entry whose       *)
(* Append has returned success never disappears.  A crash may forget a      *)
(* suffix of entries whose callers were never told they succeeded.          *)
(*                                                                         *)
(* Ledger.tla, the detailed specification, implements this one.             *)
(***************************************************************************)
EXTENDS Naturals, Sequences

CONSTANT MaxOps     \* how many entries are ever offered to the log

VARIABLES log,      \* the ids of the entries, in the order they were added
          acked     \* the ids whose Append has returned success

vars == <<log, acked>>

Logged(l) == {l[i] : i \in DOMAIN l}

TypeOK == log \in Seq(1..MaxOps) /\ acked \subseteq 1..MaxOps

Init == log = <<>> /\ acked = {}

\* An entry that was never in the log is added at its end.
Add == /\ \E id \in (1..MaxOps) \ Logged(log) : log' = Append(log, id)
       /\ UNCHANGED acked

\* The caller of an entry that is in the log learns that it succeeded.
Acknowledge == /\ \E id \in Logged(log) \ acked : acked' = acked \cup {id}
               /\ UNCHANGED log

\* A crash keeps a prefix that holds every acknowledged entry.
Forget == /\ \E n \in 0..Len(log) : log' = SubSeq(log, 1, n)
          /\ acked \subseteq Logged(log')
          /\ UNCHANGED acked

Next == Add \/ Acknowledge \/ Forget

Spec == Init /\ [][Next]_vars
=============================================================================
