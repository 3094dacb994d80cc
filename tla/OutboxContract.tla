--------------------------- MODULE OutboxContract ---------------------------
(***************************************************************************)
(* What the publish queue promises of one daemon: an action accepted is    *)
(* delivered at least once and takes effect exactly once, unless it waits  *)
(* for a person, is turned down, or is given up on -- and what was given   *)
(* up on can be revived.  Attempts, backoff, passes, payloads and crashes  *)
(* are nowhere to be seen.  (SPEC 11.6; publish/src/queue.rs, enqueue.)    *)
(***************************************************************************)
EXTENDS Naturals

CONSTANTS Actions, Idempotent   \* Idempotent: effects that can be looked up

VARIABLES phase, effect
vars == <<phase, effect>>

\* A phase is "new", "waiting", "declined", "queued", "done" or "abandoned".

\* How often an effect may exist: an idempotent one once.
May(a) == IF a \in Idempotent THEN 1 ELSE 2

Init ==
  /\ phase = [a \in Actions |-> "new"]
  /\ effect = [a \in Actions |-> 0]

Step(a, from, to) ==
  /\ phase[a] = from
  /\ phase' = [phase EXCEPT ![a] = to]
  /\ UNCHANGED effect

Accept(a)  == \E to \in {"queued", "waiting", "declined"} : Step(a, "new", to)
Release(a) == Step(a, "waiting", "queued")
Decline(a) == Step(a, "waiting", "declined")
Abandon(a) == Step(a, "queued", "abandoned")
Confirm(a) == effect[a] > 0 /\ Step(a, "queued", "done")

\* The effect comes about while the action is queued, and only then.
Land(a) ==
  /\ phase[a] = "queued"
  /\ effect[a] < May(a)
  /\ effect' = [effect EXCEPT ![a] = @ + 1]
  /\ UNCHANGED phase

\* A person puts some abandoned actions back, all at once.
Revive(A) ==
  /\ \A a \in A : phase[a] = "abandoned"
  /\ phase' = [a \in Actions |-> IF a \in A THEN "queued" ELSE phase[a]]
  /\ UNCHANGED effect

Next ==
  \/ \E a \in Actions :
       Accept(a) \/ Release(a) \/ Decline(a) \/ Abandon(a) \/ Confirm(a) \/ Land(a)
  \/ \E A \in SUBSET Actions : Revive(A)

Spec == Init /\ [][Next]_vars
=============================================================================
