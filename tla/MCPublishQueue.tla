--------------------------- MODULE MCPublishQueue ---------------------------
(* Instances of PublishQueue small enough for TLC.  The daemon has every    *)
(* target registered; a command-line process may have none.                *)
EXTENDS PublishQueue, TLC

CONSTANTS daemon, other, p1, p2

\* One daemon, or a daemon and a second process.
OneDaemon == {daemon}
TwoProcesses == {daemon, other}

JustTheDaemon == {daemon}

OneAction == {1}
TwoActions == {1, 2}

OneGroup == [a \in Actions |-> 1]

OnePayload == {p1}
TwoPayloads == {p1, p2}

\* Both processes know every target.
RoutesAll == [p \in Passes |-> Actions]
\* The target of the second action is not configured.
RoutesFirst == [p \in Passes |-> {1}]

\* Action 1's target searches before it writes; action 2's does not.
SearchFirst == {1}
NeverSearch == {}

\* Payloads are only compared for equality.
Symmetry == Permutations(Payloads)
=============================================================================
