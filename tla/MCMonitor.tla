----------------------------- MODULE MCMonitor ------------------------------
(* Instances of Monitor for TLC. *)
EXTENDS Monitor

CONSTANTS h1, h2, k1, k2, r1, r2, a, b, c   \* hosts, keys, requests, archives

\* One proof, healthy in the first generation and not in the next.
Pushed(h, key, gen, good, bad) == [host |-> h, key |-> key, gen |-> gen, good |-> good, bad |-> bad]
MCArchives == [x \in {a, b, c} |->
  CASE x = a -> Pushed(h1, k1, 0, {"p"}, {})
    [] x = b -> Pushed(h1, k1, 1, {}, {"p"})
    [] x = c -> Pushed(h2, k1, 0, {"p"}, {})]
=============================================================================
