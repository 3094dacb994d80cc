---------------------------- MODULE PublishQueue ----------------------------
(***************************************************************************)
(* The publish queue: the `publish_action` table (revlocal-store), the     *)
(* dispatch and replay passes over it (revlocal-publish), and the people   *)
(* who approve, edit, reject and retry rows (revlocal-cli, the desktop).   *)
(*                                                                         *)
(* A row is what the table holds of one action.  A pass is one call of     *)
(* `dispatch_pending` or `replay` in some process: it lists the due rows,  *)
(* reads them one by one, checks the approval digest, hands each to its    *)
(* target concurrently, and records the outcomes one at a time.  Between   *)
(* two of those awaits any other process may write the same rows.          *)
(*                                                                         *)
(* Abstracted: payloads are values compared for equality (a digest of a    *)
(* payload is that payload), `next_attempt_at` is the flag "a retry is     *)
(* scheduled and its time has not come", and the concurrency permits and   *)
(* the rate limiter only delay a send, which the interleaving allows.      *)
(***************************************************************************)
EXTENDS Naturals

CONSTANTS
  Actions,             \* ids of publish_action rows; ids are handed out in order
  Passes,              \* processes that run passes
  Daemons,             \* those that dispatch what is pending; the others replay
  Payloads,            \* payloads an action may carry
  NoPayload,           \* SQL NULL
  GroupOf,             \* the (run, target) an action belongs to
  Routes,              \* the actions whose target a process has registered
  Searchable,          \* actions whose target looks for its own effect first
  MaxAttempts,         \* retry.rs MAX_ATTEMPTS
  MaxMishaps,          \* bound: crashes and target panics
  MaxReplays,          \* bound: times a person puts failed rows back
  ApprovedIsRequeued   \* whether something moves approved rows to pending

ASSUME ActionsAssumption == Actions \subseteq Nat
ASSUME DaemonsAssumption == Daemons \subseteq Passes
ASSUME PayloadsAssumption == NoPayload \notin Payloads
ASSUME SearchableAssumption == Searchable \subseteq Actions
ASSUME RoutesAssumption == Routes \in [Passes -> SUBSET Actions]
ASSUME BoundsAssumption ==
  /\ MaxAttempts \in Nat \ {0}
  /\ MaxMishaps \in Nat
  /\ MaxReplays \in Nat
ASSUME RequeuedAssumption == ApprovedIsRequeued \in BOOLEAN

VARIABLES
  row,        \* the publish_action table
  task,       \* what each pass is doing with each action
  replaying,  \* the group a pass has just put back and not yet listed
  seen,       \* the payload a person is looking at in the inbox
  paused,     \* the kill switch setting
  filed,      \* at the target: how many times the effect was created
  delivered,  \* at the target: the payloads that reached it
  tries,      \* history: answers from the target in this delivery cycle
  cooling,    \* history: failed with a retry due later, and it is not later yet
  mishaps,    \* crashes and panics so far
  replays     \* resets so far

vars == <<row, task, replaying, seen, paused, filed, delivered, tries, cooling,
          mishaps, replays>>
remote == <<filed, delivered>>
bounds == <<mishaps, replays>>

-----------------------------------------------------------------------------
(* The rows.                                                               *)

\* Statuses in which a row must not reach its target.
Held == {"awaiting_approval", "approved", "rejected", "skipped_dry_run"}

\* "absent" is a row not inserted yet.
Statuses == Held \cup {"absent", "pending", "sent", "failed"}

Absent == [status |-> "absent", attempts |-> 0, payload |-> NoPayload,
           digest |-> NoPayload, backoff |-> FALSE]

\* The attempt counter, saturating one past the cap: `next_delay` compares it
\* with the cap and nothing else.
Bump(n) == IF n > MaxAttempts THEN n ELSE n + 1

\* The store writes whatever outcome it is handed, whatever the row says now,
\* and counts an attempt.
RecordOutcome(a, status) ==
  [row EXCEPT ![a].status = status, ![a].attempts = Bump(@)]

\* `pending`, and no retry scheduled for later.
DueAnyStatus(a) == row[a].status \in {"pending", "approved"} /\ ~row[a].backoff
Due(a) == row[a].status = "pending" /\ ~row[a].backoff

\* No further attempt after this many.
ExhaustedOffByOne(attempts) == attempts > MaxAttempts
ExhaustedEarly(attempts) == attempts + 1 >= MaxAttempts
Exhausted(attempts) == attempts >= MaxAttempts

\* A failed row put back: a fresh cycle, but the approval digest stays.
Requeued(r) == [status |-> "pending", attempts |-> 0, payload |-> r.payload,
                digest |-> r.digest, backoff |-> FALSE]

Reset(A) ==
  /\ row' = [a \in Actions |-> IF a \in A THEN Requeued(row[a]) ELSE row[a]]
  /\ tries' = [a \in Actions |-> IF a \in A THEN 0 ELSE tries[a]]
  /\ cooling' = cooling \ A
  /\ replays < MaxReplays
  /\ replays' = replays + 1

-----------------------------------------------------------------------------
(* The tasks of a pass.  "none" is an action the pass is not handling.     *)

Running == {"spawned", "found", "missing"}
Answers == {"ok", "retryable", "terminal"}
Outcomes == Answers \cup {"stale", "unroutable"}
Stages == {"none", "selected", "fetched", "scheduling"} \cup Running \cup Outcomes

NoTask == [stage |-> "none", payload |-> NoPayload, attempts |-> 0]

At(p, a, stages) == task[p][a].stage \in stages
Idle(p) == replaying[p] = {} /\ \A a \in Actions : At(p, a, {"none"})

\* Rows are read, and then spawned, in id order.
First(p, a, stage) ==
  At(p, a, {stage}) /\ \A b \in Actions : At(p, b, {stage}) => a <= b

Move(p, a, stage) == task' = [task EXCEPT ![p][a].stage = stage]
Finish(p, a) == task' = [task EXCEPT ![p][a] = NoTask]

\* The join loop starts once every row was spawned, and takes one outcome at a
\* time: a retry being scheduled holds up the next.
Joining(p) == \A a \in Actions : ~At(p, a, {"selected", "fetched", "scheduling"})

-----------------------------------------------------------------------------
Init ==
  /\ row = [a \in Actions |-> Absent]
  /\ task = [p \in Passes |-> [a \in Actions |-> NoTask]]
  /\ replaying = [p \in Passes |-> {}]
  /\ seen = [a \in Actions |-> NoPayload]
  /\ paused = FALSE
  /\ filed = [a \in Actions |-> 0]
  /\ delivered = [a \in Actions |-> {}]
  /\ tries = [a \in Actions |-> 0]
  /\ cooling = {}
  /\ mishaps = 0
  /\ replays = 0

-----------------------------------------------------------------------------
(* Rows come in, and people decide about them.                             *)

\* The statuses a new row is gated into.
InitialStatuses == {"pending", "awaiting_approval", "skipped_dry_run"}

\* Inserting the same (target, key) again hands back the row that is there,
\* which changes nothing.
Enqueue(a, status, payload) ==
  /\ row[a].status = "absent"
  /\ row' = [row EXCEPT ![a].status = status, ![a].payload = payload]
  /\ UNCHANGED <<task, replaying, seen, paused, remote, tries, cooling, bounds>>

\* A person (or the CLI on their behalf) reads the inbox.
View(a) ==
  /\ row[a].status = "awaiting_approval"
  /\ seen' = [seen EXCEPT ![a] = row[a].payload]
  /\ UNCHANGED <<row, task, replaying, paused, remote, tries, cooling, bounds>>

\* The digest is of the payload that was read; the row may have moved on.
Approve(a) ==
  /\ seen[a] # NoPayload
  /\ seen' = [seen EXCEPT ![a] = NoPayload]
  /\ row' = IF row[a].status = "awaiting_approval"
            THEN [row EXCEPT ![a].status = "approved", ![a].digest = seen[a]]
            ELSE row
  /\ UNCHANGED <<task, replaying, paused, remote, tries, cooling, bounds>>

Edit(a, payload) ==
  /\ row[a].status = "awaiting_approval"
  /\ row' = [row EXCEPT ![a].payload = payload]
  /\ UNCHANGED <<task, replaying, seen, paused, remote, tries, cooling, bounds>>

RejectAnyRow(a) ==
  /\ row[a].status \in {"awaiting_approval", "pending"}
  /\ row' = [row EXCEPT ![a].status = "rejected"]
  /\ UNCHANGED <<task, replaying, seen, paused, remote, tries, cooling, bounds>>
Reject(a) ==
  /\ row[a].status = "awaiting_approval"
  /\ row' = [row EXCEPT ![a].status = "rejected"]
  /\ UNCHANGED <<task, replaying, seen, paused, remote, tries, cooling, bounds>>

\* What the approval tests do to get an approved row delivered.  No code under
\* src/crates/*/src does it.
RequeueApproved(a) ==
  /\ ApprovedIsRequeued
  /\ row[a].status = "approved"
  /\ row' = RecordOutcome(a, "pending")
  /\ UNCHANGED <<task, replaying, seen, paused, remote, tries, cooling, bounds>>

\* `revlocal publish retry`: one failed row goes back.
RetryAction(a) ==
  /\ row[a].status = "failed"
  /\ Reset({a})
  /\ UNCHANGED <<task, replaying, seen, paused, remote, mishaps>>

SetPaused ==
  /\ paused' = ~paused
  /\ UNCHANGED <<row, task, replaying, seen, remote, tries, cooling, bounds>>

\* The stored `next_attempt_at` comes round.
BackoffElapses(a) ==
  /\ row[a].backoff \/ a \in cooling
  /\ row' = [row EXCEPT ![a].backoff = FALSE]
  /\ cooling' = cooling \ {a}
  /\ UNCHANGED <<task, replaying, seen, paused, remote, tries, bounds>>

-----------------------------------------------------------------------------
(* A pass.                                                                 *)

\* The listing: the ids of the due rows within the scope.
Select(p, scope) ==
  task' = [task EXCEPT ![p] =
             [a \in Actions |-> IF a \in scope /\ Due(a)
                                THEN [NoTask EXCEPT !.stage = "selected"]
                                ELSE NoTask]]

\* The daemon asks the kill switch, then dispatches everything due.
DispatchPending(p) ==
  /\ p \in Daemons
  /\ Idle(p)
  /\ ~paused
  /\ Select(p, Actions)
  /\ UNCHANGED <<row, replaying, seen, paused, remote, tries, cooling, bounds>>

\* A replay puts one target's failed rows of one run back ...
Replay(p, a) ==
  /\ Idle(p)
  /\ LET group == {b \in Actions : GroupOf[b] = GroupOf[a]} IN
       /\ Reset({b \in group : row[b].status = "failed"})
       /\ replaying' = [replaying EXCEPT ![p] = group]
  /\ UNCHANGED <<task, seen, paused, remote, mishaps>>

\* ... and then dispatches what is due among them.
ReplayDispatch(p) ==
  /\ replaying[p] # {}
  /\ Select(p, replaying[p])
  /\ replaying' = [replaying EXCEPT ![p] = {}]
  /\ UNCHANGED <<row, seen, paused, remote, tries, cooling, bounds>>

\* The listing reads its rows after it selected their ids.
Fetch(p, a) ==
  /\ First(p, a, "selected")
  /\ task' = [task EXCEPT ![p][a] = [stage |-> "fetched",
                                     payload |-> row[a].payload,
                                     attempts |-> row[a].attempts]]
  /\ UNCHANGED <<row, replaying, seen, paused, remote, tries, cooling, bounds>>

\* The digest is read fresh and compared with the payload that was listed.
IsStaleNever(a, payload) == FALSE
IsStale(a, payload) ==
  row[a].digest # NoPayload /\ row[a].digest # payload

Spawn(p, a) ==
  /\ \A b \in Actions : ~At(p, b, {"selected"})
  /\ First(p, a, "fetched")
  /\ Move(p, a, IF IsStale(a, task[p][a].payload) THEN "stale"
                ELSE IF a \notin Routes[p] THEN "unroutable"
                ELSE "spawned")
  /\ UNCHANGED <<row, replaying, seen, paused, remote, tries, cooling, bounds>>

\* The target looks for an effect it already has, when it can.
SearchForgets(p, a) ==
  /\ At(p, a, {"spawned"})
  /\ a \in Searchable
  /\ Move(p, a, "missing")
  /\ UNCHANGED <<row, replaying, seen, paused, remote, tries, cooling, bounds>>
Search(p, a) ==
  /\ At(p, a, {"spawned"})
  /\ a \in Searchable
  /\ Move(p, a, IF filed[a] > 0 THEN "found" ELSE "missing")
  /\ UNCHANGED <<row, replaying, seen, paused, remote, tries, cooling, bounds>>

ReadyToWrite(p, a) ==
  At(p, a, IF a \in Searchable THEN {"found", "missing"} ELSE {"spawned"})

\* The write lands.  The answer may still be lost on the way back, and a target
\* that writes twice without searching may be refused the second time.
Deliver(p, a, answer) ==
  /\ ReadyToWrite(p, a)
  /\ answer \in {"ok", "retryable"} \cup (IF a \in Searchable THEN {} ELSE {"terminal"})
  /\ filed' = [filed EXCEPT ![a] =
                 IF At(p, a, {"found"}) \/ @ = 2 THEN @ ELSE @ + 1]
  /\ delivered' = [delivered EXCEPT ![a] = @ \cup {task[p][a].payload}]
  /\ tries' = [tries EXCEPT ![a] = @ + 1]
  /\ Move(p, a, answer)
  /\ UNCHANGED <<row, replaying, seen, paused, cooling, bounds>>

\* The target could not be reached, or said no, before anything landed.
Refuse(p, a, answer) ==
  /\ At(p, a, Running)
  /\ answer \in {"retryable", "terminal"}
  /\ tries' = [tries EXCEPT ![a] = @ + 1]
  /\ Move(p, a, answer)
  /\ UNCHANGED <<row, replaying, seen, paused, remote, cooling, bounds>>

\* A panicking target's task is dropped: the row stays as it is.
Panic(p, a) ==
  /\ At(p, a, Running)
  /\ mishaps < MaxMishaps
  /\ mishaps' = mishaps + 1
  /\ Finish(p, a)
  /\ UNCHANGED <<row, replaying, seen, paused, remote, tries, cooling, replays>>

RecordSent(p, a) ==
  /\ Joining(p)
  /\ At(p, a, {"ok"})
  /\ row' = RecordOutcome(a, "sent")
  /\ Finish(p, a)
  /\ UNCHANGED <<replaying, seen, paused, remote, tries, cooling, bounds>>

\* Whether to try again is decided from the count the pass read, not from the
\* count the row has now.
RecordRetryable(p, a) ==
  /\ Joining(p)
  /\ At(p, a, {"retryable"})
  /\ IF Exhausted(Bump(task[p][a].attempts))
     THEN /\ row' = RecordOutcome(a, "failed")
          /\ Finish(p, a)
          /\ UNCHANGED cooling
     ELSE /\ row' = RecordOutcome(a, "pending")
          /\ Move(p, a, "scheduling")
          /\ cooling' = cooling \cup {a}
  /\ UNCHANGED <<replaying, seen, paused, remote, tries, bounds>>

\* A second write, after the outcome: the time of the next attempt.
ScheduleRetry(p, a) ==
  /\ At(p, a, {"scheduling"})
  /\ row' = [row EXCEPT ![a].backoff = TRUE]
  /\ Finish(p, a)
  /\ UNCHANGED <<replaying, seen, paused, remote, tries, cooling, bounds>>

RecordFailedOrListedAgain(p, a) ==
  /\ Joining(p)
  /\ At(p, a, {"terminal", "stale"})
  /\ row' = RecordOutcome(a, IF At(p, a, {"stale"}) THEN "pending" ELSE "failed")
  /\ Finish(p, a)
  /\ UNCHANGED <<replaying, seen, paused, remote, tries, cooling, bounds>>
RecordFailed(p, a) ==
  /\ Joining(p)
  /\ At(p, a, {"terminal", "stale"})
  /\ row' = RecordOutcome(a, "failed")
  /\ Finish(p, a)
  /\ UNCHANGED <<replaying, seen, paused, remote, tries, cooling, bounds>>

RecordUnroutable(p, a) ==
  /\ Joining(p)
  /\ At(p, a, {"unroutable"})
  /\ row' = RecordOutcome(a, "pending")
  /\ Finish(p, a)
  /\ UNCHANGED <<replaying, seen, paused, remote, tries, cooling, bounds>>

\* The process dies, or a store error returns from the pass and aborts its
\* tasks: whatever was not recorded is forgotten.
Crash(p) ==
  /\ ~Idle(p)
  /\ mishaps < MaxMishaps
  /\ mishaps' = mishaps + 1
  /\ task' = [task EXCEPT ![p] = [a \in Actions |-> NoTask]]
  /\ replaying' = [replaying EXCEPT ![p] = {}]
  /\ UNCHANGED <<row, seen, paused, remote, tries, cooling, replays>>

-----------------------------------------------------------------------------
Decide(a) ==
  \/ \E status \in InitialStatuses, payload \in Payloads : Enqueue(a, status, payload)
  \/ View(a) \/ Approve(a) \/ Reject(a)
  \/ \E payload \in Payloads : Edit(a, payload)
  \/ RequeueApproved(a) \/ RetryAction(a)
  \/ BackoffElapses(a)

\* What a pass does once it has started.
Advance(p) ==
  \/ ReplayDispatch(p)
  \/ \E a \in Actions :
       \/ Fetch(p, a) \/ Spawn(p, a) \/ Search(p, a)
       \/ \E answer \in Answers : Deliver(p, a, answer) \/ Refuse(p, a, answer)
       \/ RecordSent(p, a) \/ RecordRetryable(p, a) \/ ScheduleRetry(p, a)
       \/ RecordFailed(p, a) \/ RecordUnroutable(p, a)

Next ==
  \/ \E a \in Actions : Decide(a)
  \/ SetPaused
  \/ \E p \in Passes :
       \/ DispatchPending(p)
       \/ \E a \in Actions : Replay(p, a)
       \/ Advance(p)
       \/ \E a \in Actions : Panic(p, a)
       \/ Crash(p)

Spec == Init /\ [][Next]_vars

\* A pass that was started is driven to its end by the runtime.  Nothing is assumed of
\* who starts one, of people, or of when a retry falls due.
Fairness == \A p \in Passes : WF_vars(Advance(p))

FairSpec == Spec /\ Fairness

\* Somebody who dispatches again and again, as the tests of the queue do.  No code under
\* src/crates/*/src calls dispatch_pending.
ServedSpec == FairSpec /\ \A p \in Passes : WF_vars(DispatchPending(p))

-----------------------------------------------------------------------------
(* Properties.                                                             *)

Rows == [status : Statuses, attempts : 0..(MaxAttempts + 1),
         payload : Payloads \cup {NoPayload}, digest : Payloads \cup {NoPayload},
         backoff : BOOLEAN]
Tasks == [stage : Stages, payload : Payloads \cup {NoPayload},
          attempts : 0..(MaxAttempts + 1)]

\* Every variable has its type; in particular a row only ever has a status of
\* PublishActionStatus.
TypeOK ==
  /\ row \in [Actions -> Rows]
  /\ task \in [Passes -> [Actions -> Tasks]]
  /\ replaying \in [Passes -> SUBSET Actions]
  /\ seen \in [Actions -> Payloads \cup {NoPayload}]
  /\ paused \in BOOLEAN
  /\ filed \in [Actions -> 0..2]
  /\ delivered \in [Actions -> SUBSET (Payloads \cup {NoPayload})]
  /\ tries \in [Actions -> Nat]
  /\ cooling \subseteq Actions
  /\ mishaps \in 0..MaxMishaps
  /\ replays \in 0..MaxReplays

\* Nothing of an action that waits for a person, was turned down, or is a dry
\* run has ever reached a target, and no pass in any process holds a copy it
\* could still send.  The gate is `status = 'pending'` in list_pending.
HeldUntouched ==
  \A a \in Actions : row[a].status \in Held =>
    delivered[a] = {} /\ \A p \in Passes : At(p, a, {"none"})

\* Once a person approved a payload, that payload is the only one the target
\* ever receives for the action, across edits, retries, replays, crashes and
\* any number of passes at once.  The digest check in dispatch.
SentAsApproved ==
  \A a \in Actions : row[a].digest # NoPayload => delivered[a] \subseteq {row[a].digest}

\* A row reads `sent` only after the effect exists at the target, whichever
\* pass recorded it and whatever the others did meanwhile.
SentMeansDelivered ==
  \A a \in Actions : row[a].status = "sent" => filed[a] > 0

\* The inductive form of the three above: what a pass carries is not held and,
\* once checked, is what was approved; a task that found the effect, or was told
\* it landed, is right.
QueueInv ==
  /\ \A a \in Actions : row[a].status \in Held \cup {"absent"} =>
       delivered[a] = {} /\ \A p \in Passes : At(p, a, {"none"})
  /\ SentAsApproved
  /\ \A p \in Passes, a \in Actions :
       At(p, a, Running) => row[a].digest \in {NoPayload, task[p][a].payload}
  /\ \A p \in Passes, a \in Actions : At(p, a, {"found", "ok"}) => filed[a] > 0
  /\ SentMeansDelivered

\* While one pass runs at a time, a target that looks for its own effect before
\* writing ends up with one, though answers are lost, targets panic, the process
\* dies between the write and its record, and people replay.
FiledOnce ==
  \A a \in Searchable : filed[a] <= 1

\* In one delivery cycle a target is asked at most MaxAttempts times, and once
\* more for each answer that a crash or a panic threw away.
RetryBudget ==
  \A a \in Actions : tries[a] <= MaxAttempts + mishaps

\* A row that failed with its next attempt scheduled is in no pass until that
\* time has come, as long as no process died between the two writes.
BackoffHonoured ==
  \A a \in cooling : mishaps = 0 => \A p \in Passes : At(p, a, {"none", "scheduling"})

\* Retries are paced: neither too many in a cycle nor before their time
\* (retry.rs; queue.rs, dispatch).
RetriesPaced == RetryBudget /\ BackoffHonoured

\* An action whose target answered "try again" is given up on only after the
\* target was asked MaxAttempts times in this cycle.  Approved rows are left
\* out: moving them to pending counts as an attempt.
FullBudgetFirst ==
  [][\A p \in Passes, a \in Actions :
       /\ At(p, a, {"retryable"})
       /\ row[a].digest = NoPayload
       /\ row'[a].status = "failed" /\ row[a].status # "failed"
       => tries[a] >= MaxAttempts]_vars

\* Retrying a run's failed actions leaves the others of the run alone: a replay
\* puts back failed rows only, and keeps what the approver agreed to.
ReplayKeepsTheRest ==
  [][\A a \in Actions : tries'[a] < tries[a] =>
       /\ row[a].status = "failed" /\ row'[a].status = "pending"
       /\ row'[a].digest = row[a].digest /\ row'[a].payload = row[a].payload]_vars

\* Attempts are neither cut short nor given back: an action is given up on after its
\* whole budget, and only one that was given up on gets another (queue.rs, dispatch;
\* store/publish.rs, reset_for_replay).
BudgetsKept == FullBudgetFirst /\ ReplayKeepsTheRest

\* The contract's phase of a row.
Phase(a) ==
  CASE row[a].status = "absent" -> "new"
    [] row[a].status \in {"awaiting_approval", "approved"} -> "waiting"
    [] row[a].status \in {"rejected", "skipped_dry_run"} -> "declined"
    [] row[a].status = "pending" -> "queued"
    [] row[a].status = "sent" -> "done"
    [] row[a].status = "failed" -> "abandoned"

Contract == INSTANCE OutboxContract WITH
  Idempotent <- Searchable,
  phase <- [a \in Actions |-> Phase(a)],
  effect <- filed

\* One daemon's queue, with its attempts, crashes, lost answers, edits and
\* replays, does nothing the contract does not allow: effects come about only
\* while the action is queued, a delivery is confirmed only after its effect,
\* and nothing leaves `sent` or comes back from `rejected`.
ImplementsContract == Contract!Spec

\* No action is tried for ever: a pass that has it ends, and passes, however many are
\* started, are in the end done with it, whatever the target answers, whatever became of
\* its approval, and whenever its retries fall due (queue.rs, dispatch; retry.rs,
\* next_delay).  Three things are tried again without end and are bounded or left out
\* here: what a crash or a panic cut short counts no attempt (MaxMishaps), a person may
\* put failed rows back (MaxReplays), and a row whose target a pass does not know stays
\* pending.
RetriesEnd ==
  \A a \in Actions :
    (\A p \in Passes : a \in Routes[p]) => <>[](\A p \in Passes : At(p, a, {"none"}))

\* An approved action is awaiting dispatch, and is dispatched (enums.rs, the
\* approval tests): it ends up delivered or given up on, at least where passes are
\* started again and again (ServedSpec).
ApprovedSettles ==
  <>[]~paused =>
    \A a \in Actions : row[a].status = "approved" ~> row[a].status \in {"sent", "failed"}
=============================================================================
