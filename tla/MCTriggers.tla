----------------------------- MODULE MCTriggers -----------------------------
(* Instances of Triggers small enough for TLC.                             *)
EXTENDS Triggers

CONSTANTS push, ping

\* Two deliveries to the repository that takes webhooks, of which the daemon
\* does not act on one.
AllDeliveries == {push, ping}
ToFirst == [d \in AllDeliveries |-> 1]
=============================================================================
