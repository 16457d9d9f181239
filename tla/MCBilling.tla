---------------------------- MODULE MCBilling ------------------------------
(* Instances of Billing for TLC. *)
EXTENDS Billing

\* One price that is configured and one that no plan has.
MCPlanOf == [p \in {"solo_price"} |-> "solo"]

MCSizes == {
  \* a subscription is canceled and another one bought
  [checkouts |-> 2, events |-> 5, restarts |-> 0, replans |-> 0, moves |-> {"canceled"}, prices |-> {"solo_price"}],
  \* one subscription and all that can happen to it
  [checkouts |-> 1, events |-> 4, restarts |-> 1, replans |-> 1, moves |-> {"active", "unpaid", "canceled"},
   prices |-> {"solo_price", "old_price"}]}
=============================================================================
