------------------------- MODULE PublishQueueProofs -------------------------
(***************************************************************************)
(* Theorems of PublishQueue, for any number of processes, actions and      *)
(* payloads and any attempt cap.  First what each write of the table and   *)
(* of a pass does to the fields, then type correctness, then QueueInv, the *)
(* inductive invariant behind the safety properties that hold whoever else *)
(* is dispatching.                                                         *)
(***************************************************************************)
EXTENDS PublishQueue, TLAPS

-----------------------------------------------------------------------------
(* Writes of the table.                                                    *)

\* An attempt count stays within its saturating range.
LEMMA BumpType ==
  ASSUME NEW n \in 0..(MaxAttempts + 1)
  PROVE  Bump(n) \in 0..(MaxAttempts + 1)
BY BoundsAssumption DEF Bump

\* Replacing one column by a value of its type leaves a row.
LEMMA RowUpdate ==
  ASSUME NEW r \in Rows
  PROVE  /\ \A s \in Statuses : [r EXCEPT !.status = s] \in Rows
         /\ \A x \in Payloads \cup {NoPayload} :
              [r EXCEPT !.payload = x] \in Rows /\ [r EXCEPT !.digest = x] \in Rows
         /\ \A n \in 0..(MaxAttempts + 1) : [r EXCEPT !.attempts = n] \in Rows
         /\ \A b \in BOOLEAN : [r EXCEPT !.backoff = b] \in Rows
BY DEF Rows

\* record_outcome writes the status and the count of one row, nothing else.
LEMMA RecordOutcomeType ==
  ASSUME row \in [Actions -> Rows], NEW a \in Actions, NEW s \in Statuses,
         row' = RecordOutcome(a, s)
  PROVE  /\ row' \in [Actions -> Rows]
         /\ \A b \in Actions :
              /\ row'[b].payload = row[b].payload
              /\ row'[b].digest = row[b].digest
              /\ row'[b].status = IF b = a THEN s ELSE row[b].status
<1>1. row[a].attempts \in 0..(MaxAttempts + 1)
  BY DEF Rows
<1>2. row' \in [Actions -> Rows]
  BY <1>1, BumpType, RowUpdate DEF RecordOutcome
<1>3. \A b \in Actions :
        /\ row'[b].payload = row[b].payload
        /\ row'[b].digest = row[b].digest
        /\ row'[b].status = IF b = a THEN s ELSE row[b].status
  BY DEF RecordOutcome, Rows
<1>4. QED
  BY <1>2, <1>3

\* A reset touches the rows it is given, and neither payload nor digest.
LEMMA ResetType ==
  ASSUME TypeOK, NEW A \in SUBSET Actions, Reset(A)
  PROVE  /\ row' \in [Actions -> Rows]
         /\ \A a \in Actions :
              /\ row'[a].payload = row[a].payload
              /\ row'[a].digest = row[a].digest
              /\ row'[a].status = IF a \in A THEN "pending" ELSE row[a].status
         /\ tries' \in [Actions -> Nat]
         /\ cooling' \subseteq Actions
         /\ replays' \in 0..MaxReplays
<1>1. \A a \in Actions : Requeued(row[a]) \in Rows
  <2>1. ASSUME NEW r \in Rows PROVE Requeued(r) \in Rows
    <3>1. 0 \in 0..(MaxAttempts + 1)
      BY BoundsAssumption
    <3>2. QED
      BY <3>1 DEF Rows, Requeued, Statuses
  <2>2. QED
    BY <2>1 DEF TypeOK
<1>2. /\ row' = [a \in Actions |-> IF a \in A THEN Requeued(row[a]) ELSE row[a]]
      /\ tries' = [a \in Actions |-> IF a \in A THEN 0 ELSE tries[a]]
      /\ cooling' = cooling \ A
      /\ replays < MaxReplays
      /\ replays' = replays + 1
  BY DEF Reset
<1>3. row' \in [Actions -> Rows]
  BY <1>1, <1>2 DEF TypeOK
<1>4. \A a \in Actions :
        /\ row'[a].payload = row[a].payload
        /\ row'[a].digest = row[a].digest
        /\ row'[a].status = IF a \in A THEN "pending" ELSE row[a].status
  BY <1>2 DEF Requeued
<1>5. tries' \in [Actions -> Nat]
  BY <1>2 DEF TypeOK
<1>6. cooling' \subseteq Actions
  BY <1>2 DEF TypeOK
<1>7. replays' \in 0..MaxReplays
  BY <1>2, BoundsAssumption DEF TypeOK
<1>8. QED
  BY <1>3, <1>4, <1>5, <1>6, <1>7
-----------------------------------------------------------------------------
(* Steps of a pass.                                                        *)

\* Moving a task changes its stage and no other task.
LEMMA MoveType ==
  ASSUME task \in [Passes -> [Actions -> Tasks]],
         NEW p \in Passes, NEW a \in Actions, NEW stage \in Stages, Move(p, a, stage)
  PROVE  /\ task' \in [Passes -> [Actions -> Tasks]]
         /\ \A q \in Passes, b \in Actions :
              /\ task'[q][b].payload = task[q][b].payload
              /\ task'[q][b].stage = IF q = p /\ b = a THEN stage ELSE task[q][b].stage
              /\ ~(q = p /\ b = a) => task'[q][b] = task[q][b]
BY DEF Tasks, Move

\* Finishing a task forgets it, and no other task.
LEMMA FinishType ==
  ASSUME TypeOK, NEW p \in Passes, NEW a \in Actions, Finish(p, a)
  PROVE  /\ task' \in [Passes -> [Actions -> Tasks]]
         /\ \A q \in Passes, b \in Actions :
              IF q = p /\ b = a THEN task'[q][b].stage = "none"
                                ELSE task'[q][b] = task[q][b]
<1>1. NoTask \in Tasks /\ NoTask.stage = "none"
  BY BoundsAssumption DEF NoTask, Tasks, Stages
<1>2. task' = [task EXCEPT ![p][a] = NoTask]
  BY DEF Finish
<1>3. task \in [Passes -> [Actions -> Tasks]]
  BY DEF TypeOK
<1>4. QED
  BY <1>1, <1>2, <1>3

\* A listing replaces one pass's tasks by the due rows of its scope.
LEMMA SelectType ==
  ASSUME TypeOK, NEW p \in Passes, NEW scope, Select(p, scope)
  PROVE  /\ task' \in [Passes -> [Actions -> Tasks]]
         /\ \A q \in Passes, b \in Actions :
              IF q = p
              THEN \/ task'[q][b].stage = "none"
                   \/ task'[q][b].stage = "selected" /\ row[b].status = "pending"
              ELSE task'[q][b] = task[q][b]
<1> DEFINE chosen == [NoTask EXCEPT !.stage = "selected"]
<1>1. NoTask \in Tasks /\ NoTask.stage = "none"
  BY BoundsAssumption DEF NoTask, Tasks, Stages
<1>2. chosen \in Tasks /\ chosen.stage = "selected"
  BY <1>1 DEF Tasks, Stages
<1>3. task' = [task EXCEPT ![p] =
                 [a \in Actions |-> IF a \in scope /\ Due(a) THEN chosen ELSE NoTask]]
  BY DEF Select
<1>4. task \in [Passes -> [Actions -> Tasks]]
  BY DEF TypeOK
<1> HIDE DEF chosen
<1>5. QED
  BY <1>1, <1>2, <1>3, <1>4 DEF Due

-----------------------------------------------------------------------------
(* Type correctness.                                                       *)

\* Every step keeps every variable in its type.
LEMMA TypeInductive == TypeOK /\ [Next]_vars => TypeOK'
<1> SUFFICES ASSUME TypeOK, [Next]_vars PROVE TypeOK'
  OBVIOUS
<1> USE DEF remote, bounds
<1>1. ASSUME NEW a \in Actions, NEW status \in InitialStatuses,
             NEW payload \in Payloads, Enqueue(a, status, payload)
      PROVE  TypeOK'
  <2>1. row' \in [Actions -> Rows]
    BY <1>1, RowUpdate DEF TypeOK, Enqueue, InitialStatuses, Statuses, Held
  <2>2. QED
    BY <1>1, <2>1 DEF TypeOK, Enqueue
<1>2. ASSUME NEW a \in Actions, View(a) PROVE TypeOK'
  <2>1. row[a].payload \in Payloads \cup {NoPayload}
    BY DEF TypeOK, Rows
  <2>2. QED
    BY <1>2, <2>1 DEF TypeOK, View
<1>3. ASSUME NEW a \in Actions, Approve(a) PROVE TypeOK'
  <2>1. seen[a] \in Payloads \cup {NoPayload}
    BY DEF TypeOK
  <2>2. row' \in [Actions -> Rows]
    BY <1>3, <2>1, RowUpdate DEF TypeOK, Approve, Statuses, Held
  <2>3. seen' \in [Actions -> Payloads \cup {NoPayload}]
    BY <1>3 DEF TypeOK, Approve
  <2>4. QED
    BY <1>3, <2>2, <2>3 DEF TypeOK, Approve
<1>4. ASSUME NEW a \in Actions, NEW payload \in Payloads, Edit(a, payload)
      PROVE  TypeOK'
  <2>1. row' \in [Actions -> Rows]
    BY <1>4, RowUpdate DEF TypeOK, Edit
  <2>2. QED
    BY <1>4, <2>1 DEF TypeOK, Edit
<1>5. ASSUME NEW a \in Actions, Reject(a) PROVE TypeOK'
  <2>1. row' \in [Actions -> Rows]
    BY <1>5, RowUpdate DEF TypeOK, Reject, Statuses, Held
  <2>2. QED
    BY <1>5, <2>1 DEF TypeOK, Reject
<1>6. ASSUME NEW a \in Actions, RequeueApproved(a) PROVE TypeOK'
  BY <1>6, RecordOutcomeType DEF TypeOK, RequeueApproved, Statuses
<1>7. ASSUME NEW a \in Actions, RetryAction(a) PROVE TypeOK'
  <2>1. Reset({a})
    BY <1>7 DEF RetryAction
  <2>2. QED
    BY <1>7, <2>1, ResetType DEF TypeOK, RetryAction
<1>8. ASSUME NEW a \in Actions, BackoffElapses(a) PROVE TypeOK'
  <2>1. row' \in [Actions -> Rows]
    BY <1>8, RowUpdate DEF TypeOK, BackoffElapses
  <2>2. QED
    BY <1>8, <2>1 DEF TypeOK, BackoffElapses
<1>9. CASE SetPaused
  BY <1>9 DEF TypeOK, SetPaused
<1>10. ASSUME NEW p \in Passes, DispatchPending(p) PROVE TypeOK'
  BY <1>10, SelectType DEF TypeOK, DispatchPending
<1>11. ASSUME NEW p \in Passes, NEW a \in Actions, Replay(p, a) PROVE TypeOK'
  <2> DEFINE group == {b \in Actions : GroupOf[b] = GroupOf[a]}
             put == {b \in group : row[b].status = "failed"}
  <2>1. /\ Reset(put)
        /\ put \in SUBSET Actions
        /\ replaying' = [replaying EXCEPT ![p] = group]
        /\ group \subseteq Actions
        /\ UNCHANGED <<task, seen, paused, remote, mishaps>>
    BY <1>11 DEF Replay
  <2> HIDE DEF put, group
  <2>2. QED
    BY <2>1, ResetType DEF TypeOK
<1>12. ASSUME NEW p \in Passes, ReplayDispatch(p) PROVE TypeOK'
  BY <1>12, SelectType DEF TypeOK, ReplayDispatch
<1>13. ASSUME NEW p \in Passes, NEW a \in Actions, Fetch(p, a) PROVE TypeOK'
  <2>1. [stage |-> "fetched", payload |-> row[a].payload, attempts |-> row[a].attempts]
          \in Tasks
    BY DEF TypeOK, Rows, Tasks, Stages
  <2>2. QED
    BY <1>13, <2>1 DEF TypeOK, Fetch
<1>14. ASSUME NEW p \in Passes, NEW a \in Actions, Spawn(p, a) PROVE TypeOK'
  <2>1. PICK stage \in Stages : Move(p, a, stage)
    BY <1>14 DEF Spawn, Stages, Running, Outcomes
  <2>2. QED
    BY <1>14, <2>1, MoveType DEF TypeOK, Spawn
<1>15. ASSUME NEW p \in Passes, NEW a \in Actions, Search(p, a) PROVE TypeOK'
  <2>1. PICK stage \in Stages : Move(p, a, stage)
    BY <1>15 DEF Search, Stages, Running
  <2>2. QED
    BY <1>15, <2>1, MoveType DEF TypeOK, Search
<1>16. ASSUME NEW p \in Passes, NEW a \in Actions, NEW answer \in Answers,
              Deliver(p, a, answer)
       PROVE  TypeOK'
  <2>1. task' \in [Passes -> [Actions -> Tasks]]
    BY <1>16, MoveType DEF TypeOK, Deliver, Stages, Outcomes
  <2>2. filed' \in [Actions -> 0..2]
    BY <1>16 DEF TypeOK, Deliver
  <2>3. task[p][a].payload \in Payloads \cup {NoPayload}
    BY DEF TypeOK, Tasks
  <2>4. delivered' \in [Actions -> SUBSET (Payloads \cup {NoPayload})]
    BY <1>16, <2>3 DEF TypeOK, Deliver
  <2>5. tries' \in [Actions -> Nat]
    BY <1>16 DEF TypeOK, Deliver
  <2>6. QED
    BY <1>16, <2>1, <2>2, <2>4, <2>5 DEF TypeOK, Deliver
<1>17. ASSUME NEW p \in Passes, NEW a \in Actions, NEW answer \in Answers,
              Refuse(p, a, answer)
       PROVE  TypeOK'
  <2>1. task' \in [Passes -> [Actions -> Tasks]]
    BY <1>17, MoveType DEF TypeOK, Refuse, Stages, Outcomes
  <2>2. tries' \in [Actions -> Nat]
    BY <1>17 DEF TypeOK, Refuse
  <2>3. QED
    BY <1>17, <2>1, <2>2 DEF TypeOK, Refuse
<1>18. ASSUME NEW p \in Passes, NEW a \in Actions, Panic(p, a) PROVE TypeOK'
  <2>1. mishaps' \in 0..MaxMishaps
    BY <1>18, BoundsAssumption DEF TypeOK, Panic
  <2>2. QED
    BY <1>18, <2>1, FinishType DEF TypeOK, Panic
<1>19. ASSUME NEW p \in Passes, NEW a \in Actions, RecordSent(p, a) PROVE TypeOK'
  BY <1>19, RecordOutcomeType, FinishType DEF TypeOK, RecordSent, Statuses
<1>20. ASSUME NEW p \in Passes, NEW a \in Actions, RecordRetryable(p, a) PROVE TypeOK'
  <2>1. task' \in [Passes -> [Actions -> Tasks]]
    BY <1>20, FinishType, MoveType DEF TypeOK, RecordRetryable, Stages
  <2>2. PICK status \in {"failed", "pending"} : row' = RecordOutcome(a, status)
    BY <1>20 DEF RecordRetryable
  <2>3. cooling' \subseteq Actions
    BY <1>20 DEF TypeOK, RecordRetryable
  <2>4. QED
    BY <1>20, <2>1, <2>2, <2>3, RecordOutcomeType DEF TypeOK, RecordRetryable, Statuses
<1>21. ASSUME NEW p \in Passes, NEW a \in Actions, ScheduleRetry(p, a) PROVE TypeOK'
  <2>1. row' \in [Actions -> Rows]
    BY <1>21, RowUpdate DEF TypeOK, ScheduleRetry
  <2>2. QED
    BY <1>21, <2>1, FinishType DEF TypeOK, ScheduleRetry
<1>22. ASSUME NEW p \in Passes, NEW a \in Actions, RecordFailed(p, a) PROVE TypeOK'
  BY <1>22, RecordOutcomeType, FinishType DEF TypeOK, RecordFailed, Statuses
<1>23. ASSUME NEW p \in Passes, NEW a \in Actions, RecordUnroutable(p, a) PROVE TypeOK'
  BY <1>23, RecordOutcomeType, FinishType DEF TypeOK, RecordUnroutable, Statuses
<1>24. ASSUME NEW p \in Passes, Crash(p) PROVE TypeOK'
  <2>1. NoTask \in Tasks
    BY BoundsAssumption DEF NoTask, Tasks, Stages
  <2>2. mishaps' \in 0..MaxMishaps
    BY <1>24, BoundsAssumption DEF TypeOK, Crash
  <2>3. QED
    BY <1>24, <2>1, <2>2 DEF TypeOK, Crash
<1>25. CASE UNCHANGED vars
  BY <1>25 DEF TypeOK, vars
<1>26. QED
  BY <1>1, <1>2, <1>3, <1>4, <1>5, <1>6, <1>7, <1>8, <1>9, <1>10, <1>11, <1>12,
     <1>13, <1>14, <1>15, <1>16, <1>17, <1>18, <1>19, <1>20, <1>21, <1>22, <1>23,
     <1>24, <1>25 DEF Next, Decide, Advance

\* Type correctness: the table, the passes and the history keep their shape.
THEOREM TypeCorrect == Spec => []TypeOK
<1>1. Init => TypeOK
  <2>1. Absent \in Rows /\ NoTask \in Tasks /\ Absent.status = "absent"
    BY BoundsAssumption DEF Absent, NoTask, Rows, Tasks, Statuses, Stages
  <2>2. 0 \in 0..MaxMishaps /\ 0 \in 0..MaxReplays
    BY BoundsAssumption
  <2>3. Init => row \in [Actions -> Rows] /\ task \in [Passes -> [Actions -> Tasks]]
    BY <2>1 DEF Init
  <2>4. Init => /\ delivered \in [Actions -> SUBSET (Payloads \cup {NoPayload})]
                /\ replaying \in [Passes -> SUBSET Actions]
                /\ filed \in [Actions -> 0..2] /\ tries \in [Actions -> Nat]
    BY DEF Init
  <2>5. Init => mishaps \in 0..MaxMishaps /\ replays \in 0..MaxReplays
    BY <2>2 DEF Init
  <2>6. Init => /\ seen \in [Actions -> Payloads \cup {NoPayload}]
                /\ paused \in BOOLEAN /\ cooling \subseteq Actions
    BY DEF Init
  <2>7. QED
    BY <2>3, <2>4, <2>5, <2>6 DEF TypeOK
<1>2. QED
  BY <1>1, TypeInductive, PTL DEF Spec

-----------------------------------------------------------------------------
(* The safety of deliveries.                                               *)

\* Recording an outcome keeps QueueInv when the row is in play, `sent` is only
\* recorded of an effect that exists, and the task comes to rest.
LEMMA RecordKeepsQueueInv ==
  ASSUME TypeOK, QueueInv, NEW a \in Actions, NEW s \in {"pending", "sent", "failed"},
         row[a].status \in {"pending", "sent", "failed", "approved"},
         row' = RecordOutcome(a, s), s = "sent" => filed[a] > 0,
         UNCHANGED <<filed, delivered>>,
         \A q \in Passes, b \in Actions :
           \/ task'[q][b] = task[q][b]
           \/ b = a /\ task'[q][b].stage \in {"none", "scheduling"}
              /\ row[b].status # "approved",
         row[a].status = "approved" => s = "pending"
  PROVE  QueueInv'
<1>1. \A b \in Actions :
        /\ row'[b].digest = row[b].digest
        /\ row'[b].status = IF b = a THEN s ELSE row[b].status
  BY RecordOutcomeType DEF TypeOK, Statuses
<1>2. QED
  BY <1>1 DEF QueueInv, SentAsApproved, SentMeansDelivered, At, Running, Held

\* QueueInv is preserved by every step.
LEMMA QueueInductive == TypeOK /\ QueueInv /\ [Next]_vars => QueueInv'
<1> SUFFICES ASSUME TypeOK, QueueInv, [Next]_vars PROVE QueueInv'
  OBVIOUS
<1> USE DEF QueueInv, SentAsApproved, SentMeansDelivered, At, remote, bounds
<1>1. ASSUME NEW a \in Actions, NEW status \in InitialStatuses,
             NEW payload \in Payloads, Enqueue(a, status, payload)
      PROVE  QueueInv'
  <2>1. /\ row'[a].status = status /\ row'[a].digest = row[a].digest
        /\ \A b \in Actions \ {a} : row'[b] = row[b]
    BY <1>1 DEF TypeOK, Enqueue, Rows
  <2>2. status # "sent" /\ row[a].status = "absent"
    BY <1>1 DEF Enqueue, InitialStatuses
  <2>3. UNCHANGED <<task, filed, delivered>>
    BY <1>1 DEF Enqueue
  <2>4. QED
    BY <2>1, <2>2, <2>3
<1>2. ASSUME NEW a \in Actions, View(a) PROVE QueueInv'
  BY <1>2 DEF View
<1>3. ASSUME NEW a \in Actions, Approve(a) PROVE QueueInv'
  <2>1. UNCHANGED <<task, filed, delivered>>
    BY <1>3 DEF Approve
  <2>2. CASE row[a].status = "awaiting_approval"
    <3>1. /\ row'[a].status = "approved"
          /\ \A b \in Actions \ {a} : row'[b] = row[b]
      BY <1>3, <2>2 DEF TypeOK, Approve, Rows
    <3>2. delivered[a] = {} /\ \A p \in Passes : task[p][a].stage = "none"
      BY <2>2 DEF Held
    <3>3. QED
      BY <2>1, <3>1, <3>2 DEF Running
  <2>3. CASE row[a].status # "awaiting_approval"
    BY <1>3, <2>1, <2>3 DEF Approve
  <2>4. QED
    BY <2>2, <2>3
<1>4. ASSUME NEW a \in Actions, NEW payload \in Payloads, Edit(a, payload)
      PROVE  QueueInv'
  <2>1. /\ \A b \in Actions :
             row'[b].status = row[b].status /\ row'[b].digest = row[b].digest
        /\ UNCHANGED <<task, filed, delivered>>
    BY <1>4 DEF TypeOK, Edit, Rows
  <2>2. QED
    BY <2>1
<1>5. ASSUME NEW a \in Actions, Reject(a) PROVE QueueInv'
  <2>1. /\ row'[a].status = "rejected" /\ row'[a].digest = row[a].digest
        /\ \A b \in Actions \ {a} : row'[b] = row[b]
        /\ row[a].status = "awaiting_approval"
        /\ UNCHANGED <<task, filed, delivered>>
    BY <1>5 DEF TypeOK, Reject, Rows
  <2>2. QED
    BY <2>1 DEF Held
<1>6. ASSUME NEW a \in Actions, RequeueApproved(a) PROVE QueueInv'
  <2>1. /\ row' = RecordOutcome(a, "pending") /\ row[a].status = "approved"
        /\ UNCHANGED <<task, filed, delivered>>
    BY <1>6 DEF RequeueApproved
  <2>2. QED
    BY <2>1, RecordKeepsQueueInv
<1>7. ASSUME NEW a \in Actions, RetryAction(a) PROVE QueueInv'
  <2>1. Reset({a}) /\ row[a].status = "failed" /\ UNCHANGED <<task, filed, delivered>>
    BY <1>7 DEF RetryAction
  <2>2. QED
    BY <2>1, ResetType DEF Held
<1>8. ASSUME NEW a \in Actions, BackoffElapses(a) PROVE QueueInv'
  <2>1. /\ \A b \in Actions :
             row'[b].status = row[b].status /\ row'[b].digest = row[b].digest
        /\ UNCHANGED <<task, filed, delivered>>
    BY <1>8 DEF TypeOK, BackoffElapses, Rows
  <2>2. QED
    BY <2>1
<1>9. CASE SetPaused
  BY <1>9 DEF SetPaused
<1>10. ASSUME NEW p \in Passes, DispatchPending(p) PROVE QueueInv'
  <2>1. Select(p, Actions) /\ UNCHANGED <<row, filed, delivered>>
    BY <1>10 DEF DispatchPending
  <2>2. QED
    BY <2>1, SelectType DEF Held, Running
<1>11. ASSUME NEW p \in Passes, NEW a \in Actions, Replay(p, a) PROVE QueueInv'
  <2>1. PICK A \in SUBSET Actions :
          Reset(A) /\ \A b \in A : row[b].status = "failed"
    BY <1>11 DEF Replay
  <2>2. UNCHANGED <<task, filed, delivered>>
    BY <1>11 DEF Replay
  <2>3. QED
    BY <2>1, <2>2, ResetType DEF Held
<1>12. ASSUME NEW p \in Passes, ReplayDispatch(p) PROVE QueueInv'
  <2>1. Select(p, replaying[p]) /\ UNCHANGED <<row, filed, delivered>>
    BY <1>12 DEF ReplayDispatch
  <2>2. QED
    BY <2>1, SelectType DEF Held, Running
<1>13. ASSUME NEW p \in Passes, NEW a \in Actions, Fetch(p, a) PROVE QueueInv'
  <2>1. /\ task[p][a].stage = "selected" /\ task'[p][a].stage = "fetched"
        /\ \A q \in Passes, b \in Actions :
             ~(q = p /\ b = a) => task'[q][b] = task[q][b]
        /\ UNCHANGED <<row, filed, delivered>>
    BY <1>13 DEF TypeOK, Fetch, First
  <2>2. QED
    BY <2>1 DEF Running
<1>14. ASSUME NEW p \in Passes, NEW a \in Actions, Spawn(p, a) PROVE QueueInv'
  <2>1. PICK stage \in {"stale", "unroutable", "spawned"} :
          /\ Move(p, a, stage)
          /\ stage = "spawned" => ~IsStale(a, task[p][a].payload)
    BY <1>14 DEF Spawn
  <2>2. task[p][a].stage = "fetched" /\ UNCHANGED <<row, filed, delivered>>
    BY <1>14 DEF Spawn, First
  <2>3. /\ task'[p][a].stage = stage /\ task'[p][a].payload = task[p][a].payload
        /\ \A q \in Passes, b \in Actions :
             ~(q = p /\ b = a) => /\ task'[q][b].stage = task[q][b].stage
                                 /\ task'[q][b].payload = task[q][b].payload
    BY <2>1, MoveType DEF TypeOK, Stages, Running, Outcomes
  <2>4. stage = "spawned" => row[a].digest \in {NoPayload, task[p][a].payload}
    BY <2>1 DEF IsStale
  <2>5. QED
    BY <2>2, <2>3, <2>4 DEF Running
<1>15. ASSUME NEW p \in Passes, NEW a \in Actions, Search(p, a) PROVE QueueInv'
  <2>1. PICK stage \in {"found", "missing"} :
          Move(p, a, stage) /\ (stage = "found" => filed[a] > 0)
    BY <1>15 DEF Search
  <2>2. task[p][a].stage = "spawned" /\ UNCHANGED <<row, filed, delivered>>
    BY <1>15 DEF Search
  <2>3. /\ task'[p][a].stage = stage /\ task'[p][a].payload = task[p][a].payload
        /\ \A q \in Passes, b \in Actions :
             ~(q = p /\ b = a) => /\ task'[q][b].stage = task[q][b].stage
                                 /\ task'[q][b].payload = task[q][b].payload
    BY <2>1, MoveType DEF TypeOK, Stages, Running
  <2>4. QED
    BY <2>1, <2>2, <2>3 DEF Running
<1>16. ASSUME NEW p \in Passes, NEW a \in Actions, NEW answer \in Answers,
              Deliver(p, a, answer)
       PROVE  QueueInv'
  <2>1. Move(p, a, answer) /\ task[p][a].stage \in Running /\ UNCHANGED row
    BY <1>16 DEF Deliver, ReadyToWrite, Running
  <2>2. filed'[a] > 0 /\ \A b \in Actions \ {a} : filed'[b] = filed[b]
    BY <1>16, <2>1 DEF TypeOK, Deliver
  <2>3. /\ delivered'[a] = delivered[a] \cup {task[p][a].payload}
        /\ \A b \in Actions \ {a} : delivered'[b] = delivered[b]
    BY <1>16 DEF TypeOK, Deliver
  <2>4. row[a].status \notin Held \cup {"absent"}
    BY <2>1 DEF Running
  <2>5. /\ task'[p][a].stage = answer
        /\ \A q \in Passes, b \in Actions :
             ~(q = p /\ b = a) => /\ task'[q][b].stage = task[q][b].stage
                                 /\ task'[q][b].payload = task[q][b].payload
    BY <2>1, MoveType DEF TypeOK, Stages, Answers, Outcomes
  <2>6. row[a].digest \in {NoPayload, task[p][a].payload}
    BY <2>1
  <2>7. QED
    BY <2>1, <2>2, <2>3, <2>4, <2>5, <2>6 DEF Answers, Running
<1>17. ASSUME NEW p \in Passes, NEW a \in Actions, NEW answer \in Answers,
              Refuse(p, a, answer)
       PROVE  QueueInv'
  <2>1. /\ Move(p, a, answer) /\ task[p][a].stage \in Running
        /\ answer \in {"retryable", "terminal"} /\ UNCHANGED <<row, filed, delivered>>
    BY <1>17 DEF Refuse
  <2>2. /\ task'[p][a].stage = answer
        /\ \A q \in Passes, b \in Actions :
             ~(q = p /\ b = a) => /\ task'[q][b].stage = task[q][b].stage
                                 /\ task'[q][b].payload = task[q][b].payload
    BY <2>1, MoveType DEF TypeOK, Stages, Answers, Outcomes
  <2>3. QED
    BY <2>1, <2>2 DEF Running
<1>18. ASSUME NEW p \in Passes, NEW a \in Actions, Panic(p, a) PROVE QueueInv'
  <2>1. Finish(p, a) /\ UNCHANGED <<row, filed, delivered>>
    BY <1>18 DEF Panic
  <2>2. QED
    BY <2>1, FinishType DEF Running
<1>19. ASSUME NEW p \in Passes, NEW a \in Actions, RecordSent(p, a) PROVE QueueInv'
  <2>1. /\ Finish(p, a) /\ task[p][a].stage = "ok" /\ row' = RecordOutcome(a, "sent")
        /\ UNCHANGED <<filed, delivered>>
    BY <1>19 DEF RecordSent
  <2>2. row[a].status \in {"pending", "sent", "failed"}
    BY <2>1 DEF TypeOK, Rows, Statuses
  <2>3. QED
    BY <2>1, <2>2, FinishType, RecordKeepsQueueInv
<1>20. ASSUME NEW p \in Passes, NEW a \in Actions, RecordRetryable(p, a) PROVE QueueInv'
  <2>1. PICK status \in {"failed", "pending"} : row' = RecordOutcome(a, status)
    BY <1>20 DEF RecordRetryable
  <2>2. /\ Finish(p, a) \/ Move(p, a, "scheduling")
        /\ task[p][a].stage = "retryable" /\ UNCHANGED <<filed, delivered>>
    BY <1>20 DEF RecordRetryable
  <2>3. row[a].status \in {"pending", "sent", "failed"}
    BY <2>2 DEF TypeOK, Rows, Statuses
  <2>4. \A q \in Passes, b \in Actions :
          \/ task'[q][b] = task[q][b]
          \/ b = a /\ task'[q][b].stage \in {"none", "scheduling"}
    BY <2>2, FinishType, MoveType DEF TypeOK, Stages
  <2>5. QED
    BY <2>1, <2>2, <2>3, <2>4, RecordKeepsQueueInv
<1>21. ASSUME NEW p \in Passes, NEW a \in Actions, ScheduleRetry(p, a) PROVE QueueInv'
  <2>1. /\ \A b \in Actions :
             row'[b].status = row[b].status /\ row'[b].digest = row[b].digest
        /\ Finish(p, a) /\ UNCHANGED <<filed, delivered>>
    BY <1>21 DEF TypeOK, ScheduleRetry, Rows
  <2>2. \A q \in Passes, b \in Actions :
          task'[q][b].stage = "none" \/ task'[q][b] = task[q][b]
    BY <2>1, FinishType
  <2>3. QED
    BY <2>1, <2>2 DEF Running
<1>22. ASSUME NEW p \in Passes, NEW a \in Actions, RecordFailed(p, a) PROVE QueueInv'
  <2>1. /\ Finish(p, a) /\ task[p][a].stage \in {"terminal", "stale"}
        /\ row' = RecordOutcome(a, "failed") /\ UNCHANGED <<filed, delivered>>
    BY <1>22 DEF RecordFailed
  <2>2. row[a].status \in {"pending", "sent", "failed"}
    BY <2>1 DEF TypeOK, Rows, Statuses
  <2>3. QED
    BY <2>1, <2>2, FinishType, RecordKeepsQueueInv
<1>23. ASSUME NEW p \in Passes, NEW a \in Actions, RecordUnroutable(p, a) PROVE QueueInv'
  <2>1. /\ Finish(p, a) /\ task[p][a].stage = "unroutable"
        /\ row' = RecordOutcome(a, "pending") /\ UNCHANGED <<filed, delivered>>
    BY <1>23 DEF RecordUnroutable
  <2>2. row[a].status \in {"pending", "sent", "failed"}
    BY <2>1 DEF TypeOK, Rows, Statuses
  <2>3. QED
    BY <2>1, <2>2, FinishType, RecordKeepsQueueInv
<1>24. ASSUME NEW p \in Passes, Crash(p) PROVE QueueInv'
  <2>1. /\ \A q \in Passes, b \in Actions :
             IF q = p THEN task'[q][b].stage = "none" ELSE task'[q][b] = task[q][b]
        /\ UNCHANGED <<row, filed, delivered>>
    BY <1>24 DEF TypeOK, Crash, NoTask
  <2>2. QED
    BY <2>1 DEF Running
<1>25. CASE UNCHANGED vars
  BY <1>25 DEF vars
<1>26. QED
  BY <1>1, <1>2, <1>3, <1>4, <1>5, <1>6, <1>7, <1>8, <1>9, <1>10, <1>11, <1>12,
     <1>13, <1>14, <1>15, <1>16, <1>17, <1>18, <1>19, <1>20, <1>21, <1>22, <1>23,
     <1>24, <1>25 DEF Next, Decide, Advance

\* The inductive invariant holds in every reachable state.
LEMMA QueueInvariant == Spec => []QueueInv
<1>1. Init => QueueInv
  BY DEF Init, QueueInv, SentAsApproved, SentMeansDelivered, At, Absent, NoTask, Running
<1>2. QED
  BY <1>1, TypeCorrect, QueueInductive, PTL DEF Spec

\* Nothing that waits for a person, was turned down or is a dry run has reached
\* a target or is about to: the `status = 'pending'` of list_pending is enough,
\* however many processes dispatch.
THEOREM HeldIsUntouched == Spec => []HeldUntouched
<1>1. QueueInv => HeldUntouched
  BY DEF QueueInv, HeldUntouched
<1>2. QED
  BY <1>1, QueueInvariant, PTL

\* The target receives the approved payload of an approved action and no other:
\* the digest check of dispatch, made on the copy that is then sent.
THEOREM DeliveredAsApproved == Spec => []SentAsApproved
<1>1. QueueInv => SentAsApproved
  BY DEF QueueInv
<1>2. QED
  BY <1>1, QueueInvariant, PTL

\* A row is `sent` only if its effect exists at the target.
THEOREM SentIsTrue == Spec => []SentMeansDelivered
<1>1. QueueInv => SentMeansDelivered
  BY DEF QueueInv
<1>2. QED
  BY <1>1, QueueInvariant, PTL

-----------------------------------------------------------------------------
(* One dispatcher.  What the queue promises beyond the above it promises   *)
(* while passes do not overlap: the attempts a pass read are then those of *)
(* the row, and every answer is counted once.                              *)

\* One process runs passes, one at a time.
OnePass == \E p \in Passes : Passes = {p}

\* A task that has read its row and not yet come to rest.
InHand == {"fetched"} \cup Running \cup Outcomes

\* An answer that is not yet recorded.
Unrecorded(p, a) == IF At(p, a, Answers) THEN 1 ELSE 0

\* What a pass works on is pending, as it was read, and goes where it can.
InPlay(p, a) ==
  /\ ~At(p, a, {"none"}) => row[a].status = "pending" /\ replaying[p] = {}
  /\ At(p, a, InHand) => task[p][a].attempts = row[a].attempts
  /\ At(p, a, Running \cup Answers \cup {"scheduling"}) => a \in Routes[p]
  /\ At(p, a, {"unroutable"}) => a \notin Routes[p]
  /\ At(p, a, {"stale"}) => row[a].digest # NoPayload

\* Until a row is due nothing was tried, and an approved one has its digest.
Unstarted(p, a) ==
  /\ row[a].status \in Held \cup {"absent"} => row[a].attempts = 0 /\ tries[a] = 0 /\ a \notin cooling
  /\ row[a].status = "approved" => row[a].digest # NoPayload
  /\ tries[a] > 0 => a \in Routes[p]

\* The row counts every answer but those that a mishap threw away, and nothing else
\* unless a person approved it.
Counted(p, a) ==
  /\ tries[a] <= row[a].attempts + mishaps + Unrecorded(p, a)
  /\ row[a].digest = NoPayload /\ a \in Routes[p] => tries[a] >= row[a].attempts + Unrecorded(p, a)
  /\ row[a].status = "pending" /\ a \in Routes[p] =>
       row[a].attempts < MaxAttempts \/ tries[a] <= mishaps + Unrecorded(p, a)
  /\ tries[a] <= MaxAttempts + mishaps

\* A row that cools has its next time, or a task that is about to write it.
Cooled(p, a) ==
  a \in cooling /\ mishaps = 0 =>
    /\ row[a].backoff \/ At(p, a, {"scheduling"})
    /\ At(p, a, {"none", "scheduling"})

Solo(p, a) == InPlay(p, a) /\ Unstarted(p, a) /\ Counted(p, a) /\ Cooled(p, a)
SoloInv == \A p \in Passes, a \in Actions : Solo(p, a)

\* A step that leaves an action alone keeps what is said of it, mishaps or not.
LEMMA Elsewhere ==
  ASSUME TypeOK, NEW p \in Passes, NEW a \in Actions, Solo(p, a),
         row'[a] = row[a], task'[p][a] = task[p][a], tries'[a] = tries[a],
         a \in cooling' => a \in cooling, mishaps' \in Nat, mishaps <= mishaps',
         replaying'[p] \in {replaying[p], {}} \/ At(p, a, {"none"})
  PROVE  Solo(p, a)'
<1>1. row[a].attempts \in Nat /\ tries[a] \in Nat /\ mishaps \in Nat /\ MaxAttempts \in Nat
  BY BoundsAssumption DEF TypeOK, Rows
<1>2. Unrecorded(p, a)' = Unrecorded(p, a) /\ Unrecorded(p, a) \in Nat
  BY DEF Unrecorded, At
<1>3. InPlay(p, a)' /\ Unstarted(p, a)'
  BY DEF Solo, InPlay, Unstarted, At
<1>4. Counted(p, a)'
  BY <1>1, <1>2 DEF Solo, Counted
<1>5. Cooled(p, a)'
  BY <1>1 DEF Solo, Cooled, At
<1> QED
  BY <1>3, <1>4, <1>5 DEF Solo

\* The numbers behind it.
LEMMA SoloNumbers ==
  ASSUME TypeOK, NEW p \in Passes, NEW a \in Actions
  PROVE  /\ row[a].attempts \in 0..(MaxAttempts + 1) /\ tries[a] \in Nat /\ mishaps \in Nat
         /\ MaxAttempts \in Nat \ {0} /\ task[p][a].attempts \in 0..(MaxAttempts + 1)
         /\ Unrecorded(p, a) \in {0, 1}
  BY BoundsAssumption DEF TypeOK, Rows, Tasks, Unrecorded

\* Rows put back start a cycle of their own.
LEMMA SoloReset ==
  ASSUME TypeOK, NEW p \in Passes, NEW c \in Actions, Solo(p, c),
         NEW A \in SUBSET Actions, Reset(A), \A a \in A : row[a].status = "failed",
         UNCHANGED <<task, mishaps>>, At(p, c, {"none"}) \/ replaying'[p] = replaying[p]
  PROVE  Solo(p, c)'
<1>1. /\ row' = [a \in Actions |-> IF a \in A THEN Requeued(row[a]) ELSE row[a]]
      /\ tries' = [a \in Actions |-> IF a \in A THEN 0 ELSE tries[a]]
      /\ cooling' = cooling \ A
  BY DEF Reset
<1>2. CASE c \in A
  <2>1. /\ row'[c].status = "pending" /\ row'[c].attempts = 0 /\ row'[c].digest = row[c].digest
        /\ tries'[c] = 0 /\ c \notin cooling'
    BY <1>1, <1>2 DEF Requeued
  <2>2. At(p, c, {"none"}) /\ At(p, c, {"none"})' /\ Unrecorded(p, c)' = 0
    BY <1>2 DEF Solo, InPlay, At, Unrecorded, Answers
  <2>3. InPlay(p, c)'
    BY <2>2 DEF InPlay, At, InHand, Running, Outcomes, Answers
  <2>4. Unstarted(p, c)' /\ Counted(p, c)' /\ Cooled(p, c)'
    BY <2>1, <2>2, SoloNumbers DEF Unstarted, Counted, Cooled, Held
  <2> QED
    BY <2>3, <2>4 DEF Solo
<1>3. CASE c \notin A
  <2>1. row'[c] = row[c] /\ tries'[c] = tries[c] /\ (c \in cooling' => c \in cooling)
    BY <1>1, <1>3
  <2> QED
    BY <2>1, SoloNumbers, Elsewhere
<1> QED
  BY <1>2, <1>3

\* A listing takes what is due, and what cools is not.
LEMMA SoloSelect ==
  ASSUME TypeOK, NEW p \in Passes, NEW c \in Actions, Solo(p, c), At(p, c, {"none"}),
         NEW scope, Select(p, scope), UNCHANGED <<row, tries, cooling, mishaps>>, replaying'[p] = {}
  PROVE  Solo(p, c)'
<1>1. \/ task'[p][c].stage = "none"
      \/ task'[p][c].stage = "selected" /\ row[c].status = "pending" /\ ~row[c].backoff
  BY DEF Select, Due, NoTask, TypeOK
<1>2. Unrecorded(p, c)' = 0 /\ Unrecorded(p, c) = 0
  BY <1>1 DEF At, Unrecorded, Answers
<1>3. InPlay(p, c)'
  BY <1>1 DEF InPlay, At, InHand, Running, Outcomes, Answers
<1>4. Unstarted(p, c)' /\ Counted(p, c)'
  BY <1>2, SoloNumbers DEF Solo, Unstarted, Counted
<1>5. Cooled(p, c)'
  BY <1>1 DEF Solo, Cooled, At
<1> QED
  BY <1>3, <1>4, <1>5 DEF Solo

\* A task that goes on without an answer changes nothing that is counted.
LEMMA SoloMove ==
  ASSUME TypeOK, NEW p \in Passes, NEW c \in Actions, Solo(p, c),
         UNCHANGED <<row, tries, cooling, mishaps>>,
         ~At(p, c, {"none", "scheduling"} \cup Answers), ~At(p, c, Answers)', InPlay(p, c)'
  PROVE  Solo(p, c)'
<1>1. Unrecorded(p, c)' = 0 /\ Unrecorded(p, c) = 0
  BY DEF At, Unrecorded
<1>2. Unstarted(p, c)' /\ Counted(p, c)'
  BY <1>1, SoloNumbers DEF Solo, Unstarted, Counted
<1>3. Cooled(p, c)'
  BY DEF Solo, Cooled, At
<1> QED
  BY <1>2, <1>3 DEF Solo

\* The target answers: one more try, not yet recorded.
LEMMA SoloAnswer ==
  ASSUME TypeOK, NEW p \in Passes, NEW c \in Actions, Solo(p, c), At(p, c, Running),
         UNCHANGED <<row, cooling, mishaps, replaying>>, tries'[c] = tries[c] + 1,
         At(p, c, Answers)', task'[p][c].attempts = task[p][c].attempts
  PROVE  Solo(p, c)'
<1>1. Unrecorded(p, c)' = 1 /\ Unrecorded(p, c) = 0
  BY DEF At, Unrecorded, Running, Answers
<1>2. row[c].status = "pending" /\ c \in Routes[p]
  BY DEF Solo, InPlay, At, Running
<1>3. InPlay(p, c)'
  BY DEF Solo, InPlay, At, InHand, Running, Outcomes, Answers
<1>4. Unstarted(p, c)' /\ Counted(p, c)'
  BY <1>1, <1>2, SoloNumbers DEF Solo, Unstarted, Counted, Held
<1>5. Cooled(p, c)'
  BY DEF Solo, Cooled, At, Running
<1> QED
  BY <1>3, <1>4, <1>5 DEF Solo

\* An outcome is recorded: the row counts the answer, and is left pending only when
\* attempts remain or there is nowhere to send it.
LEMMA SoloRecord ==
  ASSUME TypeOK, NEW p \in Passes, NEW c \in Actions, Solo(p, c), At(p, c, Outcomes),
         NEW s \in {"sent", "failed", "pending"}, row' = RecordOutcome(c, s),
         UNCHANGED <<tries, mishaps, replaying>>,
         \/ At(p, c, {"none"})' /\ cooling' = cooling
         \/ At(p, c, {"retryable"}) /\ At(p, c, {"scheduling"})' /\ s = "pending" /\ cooling' = cooling \cup {c},
         s = "pending" => c \notin Routes[p] \/ Bump(row[c].attempts) < MaxAttempts
  PROVE  Solo(p, c)'
<1>1. /\ row'[c].status = s /\ row'[c].attempts = Bump(row[c].attempts)
      /\ row'[c].digest = row[c].digest /\ row'[c].backoff = row[c].backoff
  BY DEF RecordOutcome, TypeOK, Rows
<1>2. Unrecorded(p, c)' = 0 /\ row[c].status = "pending" /\ (row[c].digest # NoPayload \/ Unrecorded(p, c) = 1 \/ c \notin Routes[p])
  BY DEF At, Unrecorded, Answers, Outcomes, Solo, InPlay
<1>3. InPlay(p, c)'
  BY <1>1 DEF Solo, InPlay, At, InHand, Running, Outcomes, Answers
<1>4. Unstarted(p, c)'
  BY <1>1 DEF Solo, Unstarted, Held
<1>5. Counted(p, c)'
  <2>1. tries[c] > 0 => c \in Routes[p]
    BY DEF Solo, Unstarted
  <2> QED
    BY <1>1, <1>2, <2>1, SoloNumbers DEF Solo, Counted, Bump
<1>6. Cooled(p, c)'
  BY DEF Solo, Cooled, At, Outcomes, Answers
<1> QED
  BY <1>3, <1>4, <1>5, <1>6 DEF Solo

\* A mishap throws away a task, and with it at most one answer.
LEMMA SoloMishap ==
  ASSUME TypeOK, NEW p \in Passes, NEW c \in Actions, Solo(p, c),
         UNCHANGED <<row, tries, cooling>>, mishaps' = mishaps + 1, At(p, c, {"none"})'
  PROVE  Solo(p, c)'
<1>1. Unrecorded(p, c)' = 0
  BY DEF At, Unrecorded, Answers
<1>2. InPlay(p, c)' /\ Unstarted(p, c)'
  BY DEF Solo, InPlay, Unstarted, At, InHand, Running, Outcomes, Answers
<1>3. Counted(p, c)' /\ Cooled(p, c)'
  BY <1>1, SoloNumbers DEF Solo, Counted, Cooled
<1> QED
  BY <1>2, <1>3 DEF Solo

\* Every step of a queue with one dispatcher keeps the invariant.
LEMMA SoloInductive ==
  ASSUME OnePass, TypeOK, QueueInv, SoloInv, [Next]_vars
  PROVE  SoloInv'
<1> SUFFICES ASSUME NEW p \in Passes, NEW c \in Actions PROVE Solo(p, c)'
  BY DEF SoloInv
<1> USE DEF remote, bounds
<1>0. Solo(p, c) /\ \A q \in Passes : q = p
  BY DEF SoloInv, OnePass
<1>n. /\ row[c].attempts \in 0..(MaxAttempts + 1) /\ tries[c] \in Nat /\ mishaps \in Nat
      /\ MaxAttempts \in Nat \ {0} /\ task[p][c].attempts \in 0..(MaxAttempts + 1)
  BY SoloNumbers
<1>1. ASSUME NEW a \in Actions, NEW status \in InitialStatuses,
             NEW payload \in Payloads, Enqueue(a, status, payload)
      PROVE  Solo(p, c)'
  <2>1. UNCHANGED <<task, replaying, tries, cooling, mishaps>> /\ row[a].status = "absent"
    BY <1>1 DEF Enqueue
  <2>2. /\ row'[a].status = status /\ row'[a].attempts = row[a].attempts
        /\ row'[a].digest = row[a].digest /\ row'[a].backoff = row[a].backoff
        /\ \A b \in Actions \ {a} : row'[b] = row[b]
    BY <1>1 DEF TypeOK, Enqueue, Rows
  <2>3. CASE c # a
    BY <1>0, <1>n, <2>1, <2>2, <2>3, Elsewhere
  <2>4. CASE c = a
    <3>1. At(p, c, {"none"}) /\ row[c].attempts = 0 /\ tries[c] = 0 /\ c \notin cooling
      BY <1>0, <2>1, <2>4 DEF Solo, InPlay, Unstarted
    <3>2. Unrecorded(p, c)' = 0 /\ At(p, c, {"none"})'
      BY <2>1, <3>1 DEF At, Unrecorded, Answers
    <3>3. InPlay(p, c)'
      BY <3>2 DEF InPlay, At, InHand, Running, Outcomes, Answers
    <3>4. Unstarted(p, c)' /\ Counted(p, c)' /\ Cooled(p, c)'
      BY <1>n, <2>1, <2>2, <2>4, <3>1, <3>2 DEF Unstarted, Counted, Cooled, InitialStatuses
    <3> QED
      BY <3>3, <3>4 DEF Solo
  <2> QED
    BY <2>3, <2>4
<1>2. ASSUME NEW a \in Actions, View(a) \/ Approve(a) \/ Reject(a) \/ \E payload \in Payloads : Edit(a, payload)
      PROVE  Solo(p, c)'
  <2>1. UNCHANGED <<task, replaying, tries, cooling, mishaps>>
    BY <1>2 DEF View, Approve, Reject, Edit
  <2>2. \A b \in Actions \ {a} : row'[b] = row[b]
    BY <1>2 DEF TypeOK, View, Approve, Reject, Edit
  <2>3. \/ row' = row
        \/ /\ row[a].status = "awaiting_approval"
           /\ row'[a].attempts = row[a].attempts /\ row'[a].backoff = row[a].backoff
           /\ row'[a].status \in {"awaiting_approval", "approved", "rejected"}
           /\ row'[a].status = "approved" => row'[a].digest # NoPayload
    <3>1. View(a) => row' = row
      BY DEF View
    <3>2. Approve(a) /\ row[a].status # "awaiting_approval" => row' = row
      BY DEF Approve
    <3>3. Approve(a) /\ row[a].status = "awaiting_approval" =>
             /\ row'[a].attempts = row[a].attempts /\ row'[a].backoff = row[a].backoff
             /\ row'[a].status = "approved" /\ row'[a].digest # NoPayload
      BY DEF Approve, TypeOK, Rows
    <3>4. ASSUME Reject(a) \/ \E payload \in Payloads : Edit(a, payload)
          PROVE  /\ row'[a].attempts = row[a].attempts /\ row'[a].backoff = row[a].backoff
                 /\ row'[a].status \in {"awaiting_approval", "rejected"} /\ row[a].status = "awaiting_approval"
      BY <3>4 DEF Reject, Edit, TypeOK, Rows
    <3> QED
      BY <1>2, <3>1, <3>2, <3>3, <3>4
  <2>4. CASE c # a \/ row' = row
    BY <1>0, <1>n, <2>1, <2>2, <2>4, Elsewhere
  <2>5. CASE c = a /\ row' # row
    <3>1. At(p, c, {"none"}) /\ row[c].attempts = 0 /\ tries[c] = 0 /\ c \notin cooling
      BY <1>0, <2>3, <2>5 DEF Solo, InPlay, Unstarted, Held
    <3>2. Unrecorded(p, c)' = 0 /\ At(p, c, {"none"})'
      BY <2>1, <3>1 DEF At, Unrecorded, Answers
    <3>3. InPlay(p, c)'
      BY <3>2 DEF InPlay, At, InHand, Running, Outcomes, Answers
    <3>4. Unstarted(p, c)' /\ Counted(p, c)' /\ Cooled(p, c)'
      BY <1>n, <2>1, <2>3, <2>5, <3>1, <3>2 DEF Unstarted, Counted, Cooled
    <3> QED
      BY <3>3, <3>4 DEF Solo
  <2> QED
    BY <2>4, <2>5
<1>3. ASSUME NEW a \in Actions, RequeueApproved(a) PROVE Solo(p, c)'
  <2>1. UNCHANGED <<task, replaying, tries, cooling, mishaps>> /\ row[a].status = "approved"
    BY <1>3 DEF RequeueApproved
  <2>2. /\ row'[a].status = "pending" /\ row'[a].attempts = Bump(row[a].attempts)
        /\ row'[a].digest = row[a].digest /\ row'[a].backoff = row[a].backoff
        /\ \A b \in Actions \ {a} : row'[b] = row[b]
    BY <1>3 DEF TypeOK, RequeueApproved, RecordOutcome, Rows
  <2>3. CASE c # a
    BY <1>0, <1>n, <2>1, <2>2, <2>3, Elsewhere
  <2>4. CASE c = a
    <3>1. /\ At(p, c, {"none"}) /\ row[c].attempts = 0 /\ tries[c] = 0 /\ c \notin cooling
          /\ row[c].digest # NoPayload
      BY <1>0, <2>1, <2>4 DEF Solo, InPlay, Unstarted, Held
    <3>2. Unrecorded(p, c)' = 0 /\ At(p, c, {"none"})'
      BY <2>1, <3>1 DEF At, Unrecorded, Answers
    <3>3. InPlay(p, c)'
      BY <3>2 DEF InPlay, At, InHand, Running, Outcomes, Answers
    <3>4. row'[c].attempts = 1
      BY <1>n, <2>2, <2>4, <3>1 DEF Bump
    <3>5. Unstarted(p, c)' /\ Counted(p, c)' /\ Cooled(p, c)'
      BY <1>n, <2>1, <2>2, <2>4, <3>1, <3>2, <3>4 DEF Unstarted, Counted, Cooled, Held
    <3> QED
      BY <3>3, <3>5 DEF Solo
  <2> QED
    BY <2>3, <2>4
<1>4. ASSUME NEW a \in Actions, RetryAction(a) PROVE Solo(p, c)'
  <2>1. Reset({a}) /\ row[a].status = "failed" /\ UNCHANGED <<task, mishaps, replaying>>
    BY <1>4 DEF RetryAction
  <2> QED
    BY <1>0, <2>1, SoloReset
<1>5. ASSUME NEW a \in Actions, BackoffElapses(a) PROVE Solo(p, c)'
  <2>1. UNCHANGED <<task, replaying, tries, mishaps>> /\ cooling' = cooling \ {a}
    BY <1>5 DEF BackoffElapses
  <2>2. /\ row'[a].status = row[a].status /\ row'[a].attempts = row[a].attempts
        /\ row'[a].digest = row[a].digest
        /\ \A b \in Actions \ {a} : row'[b] = row[b]
    BY <1>5 DEF TypeOK, BackoffElapses, Rows
  <2>3. CASE c # a
    BY <1>0, <1>n, <2>1, <2>2, <2>3, Elsewhere
  <2>4. CASE c = a
    <3>1. Unrecorded(p, c)' = Unrecorded(p, c)
      BY <2>1 DEF Unrecorded, At
    <3>2. InPlay(p, c)' /\ Unstarted(p, c)' /\ Cooled(p, c)'
      BY <1>0, <2>1, <2>2, <2>4 DEF Solo, InPlay, Unstarted, Cooled, At
    <3>3. Counted(p, c)'
      BY <1>0, <2>1, <2>2, <2>4, <3>1 DEF Solo, Counted
    <3> QED
      BY <3>2, <3>3 DEF Solo
  <2> QED
    BY <2>3, <2>4
<1>6. CASE SetPaused
  BY <1>0, <1>n, <1>6, Elsewhere DEF SetPaused
<1>7. ASSUME NEW q \in Passes, DispatchPending(q) PROVE Solo(p, c)'
  <2>1. /\ Select(p, Actions) /\ At(p, c, {"none"}) /\ replaying[p] = {}
        /\ UNCHANGED <<row, replaying, tries, cooling, mishaps>>
    BY <1>0, <1>7 DEF DispatchPending, Idle
  <2> QED
    BY <1>0, <2>1, SoloSelect
<1>8. ASSUME NEW q \in Passes, NEW a \in Actions, Replay(q, a) PROVE Solo(p, c)'
  <2>1. PICK A \in SUBSET Actions : Reset(A) /\ \A b \in A : row[b].status = "failed"
    BY <1>8 DEF Replay
  <2>2. UNCHANGED <<task, mishaps>> /\ At(p, c, {"none"})
    BY <1>0, <1>8 DEF Replay, Idle
  <2> QED
    BY <1>0, <2>1, <2>2, SoloReset
<1>9. ASSUME NEW q \in Passes, ReplayDispatch(q) PROVE Solo(p, c)'
  <2>1. /\ Select(p, replaying[p]) /\ replaying[p] # {} /\ replaying'[p] = {}
        /\ UNCHANGED <<row, tries, cooling, mishaps>>
    BY <1>0, <1>9 DEF ReplayDispatch, TypeOK
  <2>2. At(p, c, {"none"})
    BY <1>0, <2>1 DEF Solo, InPlay
  <2> QED
    BY <1>0, <2>1, <2>2, SoloSelect
<1>10. ASSUME NEW q \in Passes, NEW a \in Actions, Fetch(q, a) PROVE Solo(p, c)'
  <2>1. UNCHANGED <<row, replaying, tries, cooling, mishaps>> /\ At(p, a, {"selected"})
    BY <1>0, <1>10 DEF Fetch, First
  <2>2. /\ task'[p][a].stage = "fetched" /\ task'[p][a].attempts = row[a].attempts
        /\ c # a => task'[p][c] = task[p][c]
    BY <1>0, <1>10 DEF Fetch, TypeOK
  <2>3. CASE c = a
    <3>1. ~At(p, c, {"none", "scheduling"} \cup Answers) /\ ~At(p, c, Answers)'
      BY <2>1, <2>2, <2>3 DEF At, Answers
    <3>2. InPlay(p, c)'
      BY <1>0, <2>1, <2>2, <2>3 DEF Solo, InPlay, At, Running, Answers
    <3> QED
      BY <1>0, <2>1, <3>1, <3>2, SoloMove
  <2> QED
    BY <1>0, <1>n, <2>1, <2>2, <2>3, Elsewhere
<1>11. ASSUME NEW q \in Passes, NEW a \in Actions, Spawn(q, a) PROVE Solo(p, c)'
  <2>1. UNCHANGED <<row, replaying, tries, cooling, mishaps>> /\ At(p, a, {"fetched"})
    BY <1>0, <1>11 DEF Spawn, First
  <2>2. PICK stage \in {"stale", "unroutable", "spawned"} :
          /\ Move(p, a, stage)
          /\ stage = "stale" => row[a].digest # NoPayload
          /\ stage = "unroutable" => a \notin Routes[p]
          /\ stage = "spawned" => a \in Routes[p]
    BY <1>0, <1>11 DEF Spawn, IsStale
  <2>3. /\ task'[p][a].stage = stage /\ task'[p][a].attempts = task[p][a].attempts
        /\ c # a => task'[p][c] = task[p][c]
    BY <2>2 DEF Move, TypeOK, Tasks
  <2>4. CASE c = a
    <3>1. ~At(p, c, {"none", "scheduling"} \cup Answers) /\ ~At(p, c, Answers)'
      BY <2>1, <2>3, <2>4 DEF At, Answers
    <3>2. InPlay(p, c)'
      BY <1>0, <2>1, <2>2, <2>3, <2>4 DEF Solo, InPlay, At, InHand, Running, Answers, Outcomes
    <3> QED
      BY <1>0, <2>1, <3>1, <3>2, SoloMove
  <2> QED
    BY <1>0, <1>n, <2>1, <2>3, <2>4, Elsewhere
<1>12. ASSUME NEW q \in Passes, NEW a \in Actions, Search(q, a) PROVE Solo(p, c)'
  <2>1. UNCHANGED <<row, replaying, tries, cooling, mishaps>> /\ At(p, a, {"spawned"})
    BY <1>0, <1>12 DEF Search
  <2>2. PICK stage \in {"found", "missing"} : Move(p, a, stage)
    BY <1>0, <1>12 DEF Search
  <2>3. /\ task'[p][a].stage = stage /\ task'[p][a].attempts = task[p][a].attempts
        /\ c # a => task'[p][c] = task[p][c]
    BY <2>2 DEF Move, TypeOK, Tasks
  <2>4. CASE c = a
    <3>1. ~At(p, c, {"none", "scheduling"} \cup Answers) /\ ~At(p, c, Answers)'
      BY <2>1, <2>3, <2>4 DEF At, Answers
    <3>2. InPlay(p, c)'
      BY <1>0, <2>1, <2>2, <2>3, <2>4 DEF Solo, InPlay, At, InHand, Running, Answers, Outcomes
    <3> QED
      BY <1>0, <2>1, <3>1, <3>2, SoloMove
  <2> QED
    BY <1>0, <1>n, <2>1, <2>3, <2>4, Elsewhere
<1>13. ASSUME NEW q \in Passes, NEW a \in Actions, NEW answer \in Answers,
              Deliver(q, a, answer) \/ Refuse(q, a, answer)
       PROVE  Solo(p, c)'
  <2>1. /\ UNCHANGED <<row, replaying, cooling, mishaps>> /\ At(p, a, Running) /\ Move(p, a, answer)
        /\ tries' = [tries EXCEPT ![a] = @ + 1]
    BY <1>0, <1>13 DEF Deliver, Refuse, ReadyToWrite, At, Running
  <2>2. /\ task'[p][a].stage = answer /\ task'[p][a].attempts = task[p][a].attempts
        /\ tries'[a] = tries[a] + 1
        /\ c # a => task'[p][c] = task[p][c] /\ tries'[c] = tries[c]
    BY <2>1 DEF Move, TypeOK, Tasks
  <2>3. CASE c = a
    <3>1. At(p, c, Answers)'
      BY <2>2, <2>3 DEF At
    <3> QED
      BY <1>0, <2>1, <2>2, <2>3, <3>1, SoloAnswer
  <2> QED
    BY <1>0, <1>n, <2>1, <2>2, <2>3, Elsewhere
<1>14. ASSUME NEW q \in Passes, NEW a \in Actions, Panic(q, a) PROVE Solo(p, c)'
  <2>1. UNCHANGED <<row, replaying, tries, cooling>> /\ mishaps' = mishaps + 1 /\ Finish(p, a)
    BY <1>0, <1>14 DEF Panic
  <2>2. task'[p][a].stage = "none" /\ (c # a => task'[p][c] = task[p][c])
    BY <2>1, FinishType
  <2>3. CASE c = a
    BY <1>0, <2>1, <2>2, <2>3, SoloMishap DEF At
  <2> QED
    BY <1>0, <1>n, <2>1, <2>2, <2>3, Elsewhere
<1>15. ASSUME NEW q \in Passes, Crash(q) PROVE Solo(p, c)'
  <2>1. UNCHANGED <<row, tries, cooling>> /\ mishaps' = mishaps + 1
    BY <1>15 DEF Crash
  <2>2. At(p, c, {"none"})'
    BY <1>0, <1>15 DEF Crash, At, TypeOK, NoTask
  <2> QED
    BY <1>0, <2>1, <2>2, SoloMishap
<1>16. ASSUME NEW q \in Passes, NEW a \in Actions, NEW s \in {"sent", "failed", "pending"},
              At(p, a, Outcomes), row' = RecordOutcome(a, s), UNCHANGED <<tries, mishaps, replaying>>,
              \/ Finish(p, a) /\ cooling' = cooling
              \/ /\ At(p, a, {"retryable"}) /\ Move(p, a, "scheduling")
                 /\ s = "pending" /\ cooling' = cooling \cup {a},
              s = "pending" => a \notin Routes[p] \/ Bump(row[a].attempts) < MaxAttempts
       PROVE  Solo(p, c)'
  <2>1. \/ task'[p][a].stage = "none" /\ Finish(p, a)
        \/ task'[p][a].stage = "scheduling" /\ Move(p, a, "scheduling")
    BY <1>16, FinishType, MoveType DEF TypeOK, Stages
  <2>2. c # a => task'[p][c] = task[p][c] /\ row'[c] = row[c]
    BY <1>16, <2>1, FinishType, MoveType DEF TypeOK, Stages, RecordOutcome
  <2>3. CASE c = a
    <3>1. \/ At(p, c, {"none"})' /\ cooling' = cooling
          \/ At(p, c, {"retryable"}) /\ At(p, c, {"scheduling"})' /\ s = "pending" /\ cooling' = cooling \cup {c}
      BY <1>16, <2>3, FinishType, MoveType DEF TypeOK, Stages, At
    <3> QED
      BY <1>0, <1>16, <2>3, <3>1, SoloRecord
  <2>4. CASE c # a
    <3>1. c \in cooling' => c \in cooling
      BY <1>16, <2>4
    <3> QED
      BY <1>0, <1>n, <1>16, <2>2, <2>4, <3>1, Elsewhere
  <2> QED
    BY <2>3, <2>4
<1>17. ASSUME NEW q \in Passes, NEW a \in Actions,
              RecordSent(q, a) \/ RecordFailed(q, a) \/ RecordUnroutable(q, a)
       PROVE  Solo(p, c)'
  <2>1. Solo(p, a)
    BY DEF SoloInv
  <2>2. PICK s \in {"sent", "failed", "pending"} :
          /\ At(p, a, Outcomes) /\ row' = RecordOutcome(a, s) /\ Finish(p, a)
          /\ s = "pending" => At(p, a, {"unroutable"})
    BY <1>0, <1>17 DEF RecordSent, RecordFailed, RecordUnroutable, At, Outcomes, Answers
  <2>3. UNCHANGED <<tries, mishaps, replaying, cooling>>
    BY <1>17 DEF RecordSent, RecordFailed, RecordUnroutable
  <2>4. s = "pending" => a \notin Routes[p]
    BY <2>1, <2>2 DEF Solo, InPlay
  <2> QED
    BY <1>16, <2>2, <2>3, <2>4
<1>18. ASSUME NEW q \in Passes, NEW a \in Actions, RecordRetryable(q, a) PROVE Solo(p, c)'
  <2>1. At(p, a, {"retryable"}) /\ At(p, a, Outcomes) /\ UNCHANGED <<tries, mishaps, replaying>>
    BY <1>0, <1>18 DEF RecordRetryable, At, Outcomes, Answers
  <2>2. \/ row' = RecordOutcome(a, "failed") /\ Finish(p, a) /\ cooling' = cooling
        \/ /\ row' = RecordOutcome(a, "pending") /\ Move(p, a, "scheduling")
           /\ cooling' = cooling \cup {a} /\ ~Exhausted(Bump(task[p][a].attempts))
    BY <1>0, <1>18 DEF RecordRetryable
  <2>3. /\ row[a].attempts \in 0..(MaxAttempts + 1) /\ MaxAttempts \in Nat
        /\ task[p][a].attempts = row[a].attempts
    BY <2>1, SoloNumbers DEF SoloInv, Solo, InPlay, At, InHand
  <2>4. ~Exhausted(Bump(task[p][a].attempts)) => Bump(row[a].attempts) < MaxAttempts
    BY <2>3 DEF Exhausted, Bump
  <2> QED
    BY <1>16, <2>1, <2>2, <2>4
<1>19. ASSUME NEW q \in Passes, NEW a \in Actions, ScheduleRetry(q, a) PROVE Solo(p, c)'
  <2>1. /\ UNCHANGED <<replaying, tries, cooling, mishaps>> /\ At(p, a, {"scheduling"}) /\ Finish(p, a)
    BY <1>0, <1>19 DEF ScheduleRetry
  <2>2. /\ row'[a].status = row[a].status /\ row'[a].attempts = row[a].attempts
        /\ row'[a].digest = row[a].digest /\ row'[a].backoff
        /\ \A b \in Actions \ {a} : row'[b] = row[b]
    BY <1>19 DEF TypeOK, ScheduleRetry, Rows
  <2>3. task'[p][a].stage = "none" /\ (c # a => task'[p][c] = task[p][c])
    BY <2>1, FinishType
  <2>4. CASE c # a
    BY <1>0, <1>n, <2>1, <2>2, <2>3, <2>4, Elsewhere
  <2>5. CASE c = a
    <3>1. Unrecorded(p, c)' = 0 /\ Unrecorded(p, c) = 0
      BY <2>1, <2>3, <2>5 DEF Unrecorded, At, Answers
    <3>2. InPlay(p, c)' /\ Unstarted(p, c)' /\ Cooled(p, c)'
      BY <1>0, <2>1, <2>2, <2>3, <2>5 DEF Solo, InPlay, Unstarted, Cooled, At, InHand, Running, Outcomes, Answers
    <3>3. Counted(p, c)'
      BY <1>0, <1>n, <2>1, <2>2, <2>5, <3>1 DEF Solo, Counted
    <3> QED
      BY <3>2, <3>3 DEF Solo
  <2> QED
    BY <2>4, <2>5
<1>20. CASE UNCHANGED vars
  BY <1>0, <1>n, <1>20, Elsewhere DEF vars
<1> QED
  BY <1>1, <1>2, <1>3, <1>4, <1>5, <1>6, <1>7, <1>8, <1>9, <1>10, <1>11, <1>12, <1>13,
     <1>14, <1>15, <1>17, <1>18, <1>19, <1>20 DEF Next, Decide, Advance

\* What one dispatcher keeps, it keeps from the start.
THEOREM SoloInvariant == ASSUME OnePass PROVE Spec => []SoloInv
<1>1. Init => SoloInv
  <2> SUFFICES ASSUME Init, NEW p \in Passes, NEW a \in Actions PROVE Solo(p, a)
    BY DEF SoloInv
  <2>1. /\ row[a].status = "absent" /\ row[a].attempts = 0 /\ tries[a] = 0 /\ cooling = {} /\ mishaps = 0
        /\ task[p][a].stage = "none"
    BY DEF Init, Absent, NoTask
  <2>2. Unrecorded(p, a) = 0
    BY <2>1 DEF Unrecorded, At, Answers
  <2> QED
    BY <2>1, <2>2, BoundsAssumption
       DEF Solo, InPlay, Unstarted, Counted, Cooled, At, InHand, Running, Outcomes, Answers
<1>2. OnePass /\ TypeOK /\ QueueInv /\ SoloInv /\ [Next]_vars => SoloInv'
  BY SoloInductive
<1> QED
  BY <1>1, <1>2, TypeCorrect, QueueInvariant, PTL DEF Spec

\* A target is asked at most MaxAttempts times in a cycle, and once more for each answer
\* that a crash or a panic threw away; and not before the time that was written down, or
\* is about to be (queue.rs, dispatch; retry.rs, next_delay).
THEOREM Paced == ASSUME OnePass PROVE Spec => []RetriesPaced
<1>1. OnePass /\ TypeOK /\ SoloInv => RetriesPaced
  <2> SUFFICES ASSUME OnePass, TypeOK, SoloInv, NEW a \in Actions
               PROVE  /\ tries[a] <= MaxAttempts + mishaps
                      /\ a \in cooling /\ mishaps = 0 => \A p \in Passes : At(p, a, {"none", "scheduling"})
    BY DEF RetriesPaced, RetryBudget, BackoffHonoured, TypeOK
  <2> QED
    BY DEF OnePass, SoloInv, Solo, Counted, Cooled
<1> QED
  BY <1>1, TypeCorrect, SoloInvariant, PTL

\* An action is given up on after its whole budget, and only what was given up on gets
\* another (queue.rs, dispatch; store/publish.rs, reset_for_replay).
THEOREM Budgeted == ASSUME OnePass PROVE Spec => BudgetsKept
<1>1. ASSUME OnePass, TypeOK, QueueInv, SoloInv, [Next]_vars, NEW p \in Passes, NEW a \in Actions,
             At(p, a, {"retryable"}), row[a].digest = NoPayload,
             row'[a].status = "failed", row[a].status # "failed"
      PROVE  tries[a] >= MaxAttempts
  <2>1. Solo(p, a) /\ \A q \in Passes : q = p
    BY <1>1 DEF OnePass, SoloInv
  <2>2. /\ row[a].attempts \in 0..(MaxAttempts + 1) /\ tries[a] \in Nat /\ MaxAttempts \in Nat
        /\ task[p][a].attempts = row[a].attempts /\ tries[a] >= row[a].attempts + 1
    BY <1>1, <2>1, SoloNumbers DEF Solo, InPlay, Counted, Unrecorded, At, InHand, Outcomes, Answers
  <2>3. PICK q \in Passes, b \in Actions : RecordFailed(q, b) \/ RecordRetryable(q, b)
    <3>1. ASSUME NEW b \in Actions, Decide(b) PROVE row'[a].status # "failed"
      <4>1. row[a].status = "pending"
        BY <1>1, <2>1 DEF Solo, InPlay, At
      <4>2. CASE RetryAction(b)
        BY <1>1, <4>1, <4>2, ResetType DEF RetryAction
      <4>3. CASE RequeueApproved(b)
        BY <1>1, <4>1, <4>3, RecordOutcomeType DEF RequeueApproved, TypeOK, Statuses
      <4>4. ASSUME NEW status \in InitialStatuses, NEW payload \in Payloads, Enqueue(b, status, payload)
            PROVE  row'[a].status # "failed"
        BY <1>1, <4>1, <4>4 DEF Enqueue, TypeOK, Rows, InitialStatuses
      <4>5. ASSUME Approve(b) PROVE row'[a].status # "failed"
        BY <1>1, <4>1, <4>5 DEF Approve, TypeOK, Rows
      <4>6. ASSUME Reject(b) \/ \E payload \in Payloads : Edit(b, payload) PROVE row'[a].status # "failed"
        BY <1>1, <4>1, <4>6 DEF Reject, Edit, TypeOK, Rows
      <4>7. ASSUME View(b) \/ BackoffElapses(b) PROVE row'[a].status # "failed"
        BY <1>1, <4>1, <4>7 DEF View, BackoffElapses, TypeOK, Rows
      <4> QED
        BY <3>1, <4>2, <4>3, <4>4, <4>5, <4>6, <4>7 DEF Decide
    <3>2. ASSUME NEW q \in Passes, NEW b \in Actions, Replay(q, b) PROVE row'[a].status # "failed"
      BY <1>1, <2>1, <3>2 DEF Replay, Idle, At
    <3>3. ASSUME NEW q \in Passes, NEW b \in Actions,
                 RecordSent(q, b) \/ RecordUnroutable(q, b)
          PROVE  row'[a].status # "failed"
      BY <1>1, <3>3, RecordOutcomeType DEF RecordSent, RecordUnroutable, TypeOK, Statuses
    <3>4. ASSUME NEW q \in Passes, NEW b \in Actions, ScheduleRetry(q, b)
          PROVE  row'[a].status # "failed"
      BY <1>1, <3>4 DEF ScheduleRetry, TypeOK, Rows
    <3>5. ASSUME row' = row PROVE FALSE
      BY <1>1, <3>5
    <3> QED
      BY <1>1, <3>1, <3>2, <3>3, <3>4, <3>5
         DEF Next, Advance, SetPaused, DispatchPending, ReplayDispatch, Fetch, Spawn, Search, Deliver, Refuse,
             Panic, Crash, vars
  <2>4. b = a
    BY <1>1, <2>3, RecordOutcomeType DEF RecordFailed, RecordRetryable, TypeOK, Statuses
  <2>5. RecordRetryable(p, a) /\ row' # RecordOutcome(a, "pending")
    BY <1>1, <2>1, <2>3, <2>4, RecordOutcomeType DEF RecordFailed, At, TypeOK, Statuses
  <2>6. Exhausted(Bump(task[p][a].attempts))
    BY <2>5 DEF RecordRetryable
  <2> QED
    BY <2>2, <2>6 DEF Exhausted, Bump
<1>2. ASSUME TypeOK, [Next]_vars, NEW a \in Actions, tries'[a] < tries[a]
      PROVE  /\ row[a].status = "failed" /\ row'[a].status = "pending"
             /\ row'[a].digest = row[a].digest /\ row'[a].payload = row[a].payload
  <2>1. PICK A \in SUBSET Actions : Reset(A) /\ \A b \in A : row[b].status = "failed"
    <3>1. ASSUME NEW b \in Actions, RetryAction(b)
          PROVE  \E A \in SUBSET Actions : Reset(A) /\ \A x \in A : row[x].status = "failed"
      <4> WITNESS {b} \in SUBSET Actions
      <4> QED
        BY <3>1 DEF RetryAction
    <3>2. ASSUME NEW q \in Passes, NEW b \in Actions, Replay(q, b)
          PROVE  \E A \in SUBSET Actions : Reset(A) /\ \A x \in A : row[x].status = "failed"
      BY <3>2 DEF Replay
    <3>3. tries[a] \in Nat
      BY <1>2 DEF TypeOK
    <3>4. ASSUME NEW q \in Passes, NEW b \in Actions, NEW answer \in Answers,
                 Deliver(q, b, answer) \/ Refuse(q, b, answer)
          PROVE  FALSE
      BY <1>2, <3>3, <3>4 DEF Deliver, Refuse, TypeOK
    <3>5. ASSUME tries' = tries PROVE FALSE
      BY <1>2, <3>3, <3>5
    <3>6. ASSUME NEW b \in Actions, Decide(b) PROVE RetryAction(b) \/ tries' = tries
      BY <3>6 DEF Decide, Enqueue, View, Approve, Reject, Edit, RequeueApproved, BackoffElapses
    <3>7. ASSUME NEW q \in Passes, Advance(q)
          PROVE  \/ tries' = tries
                 \/ \E b \in Actions, answer \in Answers : Deliver(q, b, answer) \/ Refuse(q, b, answer)
      BY <3>7 DEF Advance, ReplayDispatch, Fetch, Spawn, Search, RecordSent, RecordRetryable, ScheduleRetry,
                  RecordFailed, RecordUnroutable
    <3>8. ASSUME NEW q \in Passes, DispatchPending(q) \/ Crash(q) \/ \E b \in Actions : Panic(q, b)
          PROVE  tries' = tries
      BY <3>8 DEF DispatchPending, Panic, Crash
    <3>9. SetPaused \/ UNCHANGED vars => tries' = tries
      BY DEF SetPaused, vars
    <3>10. Next \/ UNCHANGED vars
      BY <1>2
    <3>11. \/ \E b \in Actions : RetryAction(b)
           \/ \E q \in Passes, b \in Actions : Replay(q, b)
      BY <3>4, <3>5, <3>6, <3>7, <3>8, <3>9, <3>10 DEF Next
    <3> QED
      BY <3>1, <3>2, <3>11
  <2>2. a \in A
    BY <1>2, <2>1 DEF Reset, TypeOK
  <2> QED
    BY <1>2, <2>1, <2>2, ResetType
<1>3. OnePass /\ TypeOK /\ QueueInv /\ SoloInv /\ [Next]_vars =>
        [\A p \in Passes, a \in Actions :
           /\ At(p, a, {"retryable"})
           /\ row[a].digest = NoPayload
           /\ row'[a].status = "failed" /\ row[a].status # "failed"
           => tries[a] >= MaxAttempts]_vars
  BY <1>1
<1>4. TypeOK /\ [Next]_vars =>
        [\A a \in Actions : tries'[a] < tries[a] =>
           /\ row[a].status = "failed" /\ row'[a].status = "pending"
           /\ row'[a].digest = row[a].digest /\ row'[a].payload = row[a].payload]_vars
  BY <1>2
<1> QED
  BY <1>3, <1>4, TypeCorrect, QueueInvariant, SoloInvariant, PTL
     DEF Spec, BudgetsKept, FullBudgetFirst, ReplayKeepsTheRest

-----------------------------------------------------------------------------
(* Effects that can be looked up.                                          *)

\* At most one process has the target of an action that is searched for.
SoleSender == \A p, q \in Passes : p # q => Routes[p] \cap Routes[q] \cap Searchable = {}

\* A search that found nothing stays right until its task writes.
OnceInv ==
  /\ \A p \in Passes, a \in Actions : At(p, a, Running) => a \in Routes[p]
  /\ \A p \in Passes, a \in Searchable : At(p, a, {"missing"}) => filed[a] = 0
  /\ FiledOnce

\* Neither another pass nor a retry comes between a search and its write.
LEMMA OnceInductive ==
  ASSUME SoleSender, TypeOK, OnceInv, [Next]_vars
  PROVE  OnceInv'
<1> USE DEF OnceInv, FiledOnce, At, remote, bounds
<1> USE SearchableAssumption
<1>1. ASSUME UNCHANGED filed,
             \A p \in Passes, a \in Actions :
               task'[p][a].stage \in Running => task'[p][a].stage = task[p][a].stage
      PROVE  OnceInv'
  BY <1>1 DEF Running
<1>2. ASSUME NEW a \in Actions, Decide(a) PROVE UNCHANGED <<task, filed>>
  BY <1>2 DEF Decide, Enqueue, View, Approve, Reject, Edit, RequeueApproved, RetryAction, BackoffElapses
<1>3. ASSUME NEW p \in Passes, DispatchPending(p) \/ ReplayDispatch(p) PROVE OnceInv'
  <2>1. PICK scope : Select(p, scope) /\ UNCHANGED filed
    BY <1>3 DEF DispatchPending, ReplayDispatch
  <2> QED
    BY <1>1, <2>1, SelectType DEF Running
<1>4. ASSUME NEW p \in Passes, NEW a \in Actions, Fetch(p, a) PROVE OnceInv'
  <2>1. /\ task'[p][a].stage = "fetched" /\ UNCHANGED filed
        /\ \A q \in Passes, b \in Actions : ~(q = p /\ b = a) => task'[q][b] = task[q][b]
    BY <1>4 DEF Fetch, TypeOK
  <2> QED
    BY <1>1, <2>1 DEF Running
<1>5. ASSUME NEW p \in Passes, NEW a \in Actions, Spawn(p, a) PROVE OnceInv'
  <2>1. PICK stage \in {"stale", "unroutable", "spawned"} :
          Move(p, a, stage) /\ (stage = "spawned" => a \in Routes[p])
    BY <1>5 DEF Spawn
  <2>2. \A q \in Passes, b \in Actions :
          task'[q][b].stage = IF q = p /\ b = a THEN stage ELSE task[q][b].stage
    BY <2>1, MoveType DEF TypeOK, Stages, Running, Outcomes
  <2>3. UNCHANGED filed
    BY <1>5 DEF Spawn
  <2> QED
    BY <2>1, <2>2, <2>3 DEF Running
<1>6. ASSUME NEW p \in Passes, NEW a \in Actions, Search(p, a) PROVE OnceInv'
  <2>1. PICK stage \in {"found", "missing"} :
          Move(p, a, stage) /\ (stage = "missing" => ~(filed[a] > 0))
    BY <1>6 DEF Search
  <2>2. \A q \in Passes, b \in Actions :
          task'[q][b].stage = IF q = p /\ b = a THEN stage ELSE task[q][b].stage
    BY <2>1, MoveType DEF TypeOK, Stages, Running, Outcomes
  <2>3. UNCHANGED filed /\ task[p][a].stage = "spawned" /\ filed[a] \in 0..2
    BY <1>6 DEF Search, TypeOK
  <2> QED
    BY <2>1, <2>2, <2>3 DEF Running
<1>7. ASSUME NEW p \in Passes, NEW a \in Actions, NEW answer \in Answers, Deliver(p, a, answer)
      PROVE  OnceInv'
  <2>1. \A q \in Passes, b \in Actions :
          task'[q][b].stage = IF q = p /\ b = a THEN answer ELSE task[q][b].stage
    BY <1>7, MoveType DEF Deliver, TypeOK, Stages, Outcomes
  <2>2. /\ \A b \in Actions \ {a} : filed'[b] = filed[b]
        /\ filed'[a] = IF task[p][a].stage = "found" \/ filed[a] = 2 THEN filed[a] ELSE filed[a] + 1
        /\ filed[a] \in 0..2
    BY <1>7 DEF Deliver, TypeOK
  <2>3. a \in Routes[p] /\ task[p][a].stage \in Running
    BY <1>7 DEF Deliver, ReadyToWrite, Running
  <2>4. ASSUME a \in Searchable, NEW q \in Passes, task'[q][a].stage = "missing" PROVE FALSE
    <3>1. q # p /\ task[q][a].stage = "missing"
      BY <2>1, <2>4 DEF Answers
    <3>2. a \in Routes[q]
      BY <3>1 DEF Running
    <3> QED
      BY <2>3, <2>4, <3>1, <3>2 DEF SoleSender
  <2>5. a \in Searchable => filed'[a] <= 1
    BY <1>7, <2>2 DEF Deliver, ReadyToWrite
  <2> QED
    BY <2>1, <2>2, <2>4, <2>5 DEF Running, Answers
<1>8. ASSUME NEW p \in Passes, NEW a \in Actions, NEW answer \in Answers, Refuse(p, a, answer)
      PROVE  OnceInv'
  <2>1. \A q \in Passes, b \in Actions :
          task'[q][b].stage = IF q = p /\ b = a THEN answer ELSE task[q][b].stage
    BY <1>8, MoveType DEF Refuse, TypeOK, Stages, Outcomes
  <2>2. UNCHANGED filed
    BY <1>8 DEF Refuse
  <2> QED
    BY <1>1, <2>1, <2>2 DEF Running, Answers
<1>9. ASSUME NEW p \in Passes, NEW a \in Actions,
             \/ Panic(p, a) \/ RecordSent(p, a) \/ RecordRetryable(p, a) \/ ScheduleRetry(p, a)
             \/ RecordFailed(p, a) \/ RecordUnroutable(p, a)
      PROVE  OnceInv'
  <2>1. Finish(p, a) \/ Move(p, a, "scheduling")
    BY <1>9 DEF Panic, RecordSent, RecordRetryable, ScheduleRetry, RecordFailed, RecordUnroutable
  <2>2. UNCHANGED filed
    BY <1>9 DEF Panic, RecordSent, RecordRetryable, ScheduleRetry, RecordFailed, RecordUnroutable
  <2> QED
    BY <1>1, <2>1, <2>2, FinishType, MoveType DEF TypeOK, Stages, Running
<1>10. ASSUME NEW p \in Passes, Crash(p) PROVE OnceInv'
  <2>1. /\ \A q \in Passes, b \in Actions :
             task'[q][b].stage \in {"none", task[q][b].stage}
        /\ UNCHANGED filed
    BY <1>10 DEF Crash, TypeOK, NoTask
  <2> QED
    BY <1>1, <2>1 DEF Running
<1>11. ASSUME NEW p \in Passes, NEW a \in Actions, Replay(p, a) PROVE UNCHANGED <<task, filed>>
  BY <1>11 DEF Replay
<1>12. SetPaused \/ UNCHANGED vars => UNCHANGED <<task, filed>>
  BY DEF SetPaused, vars
<1> QED
  BY <1>1, <1>2, <1>3, <1>4, <1>5, <1>6, <1>7, <1>8, <1>9, <1>10, <1>11, <1>12 DEF Next, Advance

\* The target of an effect that can be looked up has it at most once, over lost answers,
\* panics, crashes and replays, however many processes run, if one of them has the target
\* (queue.rs, execute_with; andare.rs and github.rs, find).
THEOREM EffectOnce == ASSUME SoleSender PROVE Spec => []FiledOnce
<1>1. Init => OnceInv
  BY SearchableAssumption DEF Init, OnceInv, FiledOnce, At, NoTask, Running
<1>2. SoleSender /\ TypeOK /\ OnceInv /\ [Next]_vars => OnceInv'
  BY OnceInductive
<1>3. OnceInv => FiledOnce
  BY DEF OnceInv
<1> QED
  BY <1>1, <1>2, <1>3, TypeCorrect, PTL DEF Spec

-----------------------------------------------------------------------------
(* The abstract outbox.                                                    *)

\* A step that keeps every status and every effect is none of the contract's.
LEMMA NoPhaseStep ==
  ASSUME \A b \in Actions : row'[b].status = row[b].status, UNCHANGED filed
  PROVE  UNCHANGED Contract!vars
<1>1. \A b \in Actions : Phase(b)' = Phase(b)
  BY DEF Phase
<1> QED
  BY <1>1 DEF Contract!vars

\* One that changes the status of one row is one of its action.
LEMMA PhaseStep ==
  ASSUME NEW a \in Actions, NEW from, NEW to, Phase(a) = from, Phase(a)' = to,
         \A b \in Actions \ {a} : row'[b].status = row[b].status, UNCHANGED filed
  PROVE  Contract!Step(a, from, to)
<1>1. \A b \in Actions \ {a} : Phase(b)' = Phase(b)
  BY DEF Phase
<1> QED
  BY <1>1 DEF Contract!Step

\* Recording an outcome confirms, abandons, or leaves queued.
LEMMA RecordStep ==
  ASSUME TypeOK, NEW a \in Actions, NEW s \in {"sent", "failed", "pending"},
         row[a].status = "pending", row' = RecordOutcome(a, s), UNCHANGED filed, s = "sent" => filed[a] > 0
  PROVE  Contract!Next \/ UNCHANGED Contract!vars
<1>1. \A b \in Actions : row'[b].status = IF b = a THEN s ELSE row[b].status
  BY RecordOutcomeType DEF TypeOK, Statuses
<1>2. CASE s = "pending"
  BY <1>1, <1>2, NoPhaseStep
<1>3. CASE s = "failed"
  <2>1. Phase(a) = "queued" /\ Phase(a)' = "abandoned"
    BY <1>1, <1>3 DEF Phase
  <2> QED
    BY <1>1, <2>1, PhaseStep DEF Contract!Next, Contract!Abandon
<1>4. CASE s = "sent"
  <2>1. Phase(a) = "queued" /\ Phase(a)' = "done"
    BY <1>1, <1>4 DEF Phase
  <2> QED
    BY <1>1, <1>4, <2>1, PhaseStep DEF Contract!Next, Contract!Confirm
<1> QED
  BY <1>2, <1>3, <1>4

\* Putting rows back revives them, all at once.
LEMMA ResetStep ==
  ASSUME TypeOK, NEW A \in SUBSET Actions, Reset(A), \A a \in A : row[a].status = "failed", UNCHANGED filed
  PROVE  Contract!Next
<1>1. row' = [a \in Actions |-> IF a \in A THEN Requeued(row[a]) ELSE row[a]]
  BY DEF Reset
<1>2. ASSUME NEW b \in Actions, b \in A PROVE Phase(b)' = "queued" /\ Phase(b) = "abandoned"
  <2>1. row'[b].status = "pending" /\ row[b].status = "failed"
    BY <1>1, <1>2 DEF Requeued
  <2> QED
    BY <2>1 DEF Phase
<1>3. ASSUME NEW b \in Actions, b \notin A PROVE Phase(b)' = Phase(b)
  <2>1. row'[b].status = row[b].status
    BY <1>1, <1>3
  <2> QED
    BY <2>1 DEF Phase
<1>4. [b \in Actions |-> Phase(b)]' = [b \in Actions |-> IF b \in A THEN "queued" ELSE Phase(b)]
  BY <1>2, <1>3
<1>5. Contract!Revive(A)
  BY <1>2, <1>4 DEF Contract!Revive
<1> QED
  BY <1>5 DEF Contract!Next

\* Every step of the queue is a step of the contract, or none.
LEMMA StepImplements ==
  ASSUME OnePass, TypeOK, QueueInv, SoloInv, OnceInv, OnceInv', [Next]_vars
  PROVE  Contract!Next \/ UNCHANGED Contract!vars
<1> USE DEF remote, bounds
<1>1. ASSUME NEW a \in Actions, NEW status \in InitialStatuses,
             NEW payload \in Payloads, Enqueue(a, status, payload)
      PROVE  Contract!Next
  <2>1. /\ row[a].status = "absent" /\ UNCHANGED filed /\ row'[a].status = status
        /\ \A b \in Actions \ {a} : row'[b].status = row[b].status
    BY <1>1 DEF Enqueue, TypeOK, Rows
  <2>2. Phase(a) = "new" /\ Phase(a)' \in {"queued", "waiting", "declined"}
    BY <2>1 DEF Phase, InitialStatuses
  <2>3. Contract!Step(a, "new", Phase(a)')
    BY <2>1, <2>2, PhaseStep
  <2> QED
    BY <2>2, <2>3 DEF Contract!Next, Contract!Accept
<1>2. ASSUME NEW a \in Actions,
             View(a) \/ Approve(a) \/ BackoffElapses(a) \/ \E payload \in Payloads : Edit(a, payload)
      PROVE  UNCHANGED Contract!vars
  <2>1. UNCHANGED filed
    BY <1>2 DEF View, Approve, BackoffElapses, Edit
  <2>2. \A b \in Actions : Phase(b)' = Phase(b)
    <3>1. View(a) => \A b \in Actions : row'[b].status = row[b].status
      BY DEF View
    <3>2. BackoffElapses(a) => \A b \in Actions : row'[b].status = row[b].status
      BY DEF BackoffElapses, TypeOK, Rows
    <3>3. (\E payload \in Payloads : Edit(a, payload)) => \A b \in Actions : row'[b].status = row[b].status
      BY DEF Edit, TypeOK, Rows
    <3>4. Approve(a) => \A b \in Actions : \/ row'[b].status = row[b].status
                                           \/ row[b].status = "awaiting_approval" /\ row'[b].status = "approved"
      BY DEF Approve, TypeOK, Rows
    <3> QED
      BY <1>2, <3>1, <3>2, <3>3, <3>4 DEF Phase
  <2> QED
    BY <2>1, <2>2 DEF Contract!vars
<1>3. ASSUME NEW a \in Actions, Reject(a) PROVE Contract!Next
  <2>1. /\ row[a].status = "awaiting_approval" /\ UNCHANGED filed /\ row'[a].status = "rejected"
        /\ \A b \in Actions \ {a} : row'[b].status = row[b].status
    BY <1>3 DEF Reject, TypeOK, Rows
  <2>2. Phase(a) = "waiting" /\ Phase(a)' = "declined"
    BY <2>1 DEF Phase
  <2> QED
    BY <2>1, <2>2, PhaseStep DEF Contract!Next, Contract!Decline
<1>4. ASSUME NEW a \in Actions, RequeueApproved(a) PROVE Contract!Next
  <2>1. /\ row[a].status = "approved" /\ UNCHANGED filed
        /\ \A b \in Actions : row'[b].status = IF b = a THEN "pending" ELSE row[b].status
    BY <1>4, RecordOutcomeType DEF RequeueApproved, TypeOK, Statuses
  <2>2. Phase(a) = "waiting" /\ Phase(a)' = "queued"
    BY <2>1 DEF Phase
  <2> QED
    BY <2>1, <2>2, PhaseStep DEF Contract!Next, Contract!Release
<1>5. ASSUME NEW a \in Actions, RetryAction(a) PROVE Contract!Next
  <2>1. Reset({a}) /\ row[a].status = "failed" /\ UNCHANGED filed
    BY <1>5 DEF RetryAction
  <2> QED
    BY <2>1, ResetStep
<1>6. ASSUME NEW p \in Passes, NEW a \in Actions, Replay(p, a) PROVE Contract!Next
  <2>1. PICK A \in SUBSET Actions : Reset(A) /\ \A b \in A : row[b].status = "failed"
    BY <1>6 DEF Replay
  <2>2. UNCHANGED filed
    BY <1>6 DEF Replay
  <2> QED
    BY <2>1, <2>2, ResetStep
<1>7. ASSUME NEW p \in Passes, NEW a \in Actions, NEW answer \in Answers, Deliver(p, a, answer)
      PROVE  Contract!Next \/ UNCHANGED Contract!vars
  <2>1. UNCHANGED row /\ At(p, a, Running)
    BY <1>7 DEF Deliver, ReadyToWrite, At, Running
  <2>2. \A b \in Actions : Phase(b)' = Phase(b)
    BY <2>1 DEF Phase
  <2>3. Phase(a) = "queued"
    BY <2>1 DEF SoloInv, Solo, InPlay, At, Running, Phase
  <2>4. CASE filed' = filed
    BY <2>2, <2>4 DEF Contract!vars
  <2>5. CASE filed' # filed
    <3>1. /\ filed' = [filed EXCEPT ![a] = @ + 1] /\ filed[a] \in 0..2 /\ filed[a] # 2
          /\ filed'[a] = filed[a] + 1
      BY <1>7, <2>5 DEF Deliver, TypeOK
    <3>2. filed[a] < Contract!May(a)
      BY <3>1 DEF Contract!May, OnceInv, FiledOnce
    <3>3. Contract!Land(a)
      BY <2>2, <2>3, <3>1, <3>2 DEF Contract!Land
    <3> QED
      BY <3>3 DEF Contract!Next
  <2> QED
    BY <2>4, <2>5
<1>8. ASSUME NEW p \in Passes, NEW a \in Actions,
             \/ RecordSent(p, a) \/ RecordRetryable(p, a) \/ RecordFailed(p, a) \/ RecordUnroutable(p, a)
      PROVE  Contract!Next \/ UNCHANGED Contract!vars
  <2>1. PICK s \in {"sent", "failed", "pending"} :
          /\ At(p, a, Outcomes) /\ row' = RecordOutcome(a, s) /\ UNCHANGED filed
          /\ s = "sent" => At(p, a, {"ok"})
    BY <1>8 DEF RecordSent, RecordRetryable, RecordFailed, RecordUnroutable, At, Outcomes, Answers
  <2>2. row[a].status = "pending"
    BY <2>1 DEF SoloInv, Solo, InPlay, At, Outcomes, Answers
  <2>3. s = "sent" => filed[a] > 0
    BY <2>1 DEF QueueInv, At
  <2> QED
    BY <2>1, <2>2, <2>3, RecordStep
<1>9. ASSUME NEW p \in Passes, NEW a \in Actions, ScheduleRetry(p, a) PROVE UNCHANGED Contract!vars
  <2>1. UNCHANGED filed /\ \A b \in Actions : row'[b].status = row[b].status
    BY <1>9 DEF ScheduleRetry, TypeOK, Rows
  <2> QED
    BY <2>1, NoPhaseStep
<1>10. ASSUME NEW p \in Passes, NEW a \in Actions,
              \/ Fetch(p, a) \/ Spawn(p, a) \/ Search(p, a) \/ Panic(p, a)
              \/ \E answer \in Answers : Refuse(p, a, answer)
       PROVE  UNCHANGED Contract!vars
  <2>1. UNCHANGED <<row, filed>>
    BY <1>10 DEF Fetch, Spawn, Search, Panic, Refuse
  <2> QED
    BY <2>1, NoPhaseStep
<1>11. ASSUME NEW p \in Passes, DispatchPending(p) \/ ReplayDispatch(p) \/ Crash(p)
       PROVE  UNCHANGED Contract!vars
  <2>1. UNCHANGED <<row, filed>>
    BY <1>11 DEF DispatchPending, ReplayDispatch, Crash
  <2> QED
    BY <2>1, NoPhaseStep
<1>12. ASSUME SetPaused \/ UNCHANGED vars PROVE UNCHANGED Contract!vars
  <2>1. UNCHANGED <<row, filed>>
    BY <1>12 DEF SetPaused, vars
  <2> QED
    BY <2>1, NoPhaseStep
<1>13. ASSUME NEW a \in Actions, Decide(a) PROVE Contract!Next \/ UNCHANGED Contract!vars
  BY <1>1, <1>2, <1>3, <1>4, <1>5, <1>13 DEF Decide
<1>14. ASSUME NEW p \in Passes, Advance(p) PROVE Contract!Next \/ UNCHANGED Contract!vars
  BY <1>7, <1>8, <1>9, <1>10, <1>11, <1>14 DEF Advance
<1> QED
  BY <1>6, <1>10, <1>11, <1>12, <1>13, <1>14 DEF Next

\* One process's queue implements the outbox: an effect comes about while its action is
\* queued, a delivery is confirmed after its effect, what was given up on comes back only
\* when a person puts it back, and nothing else moves (queue.rs, dispatch and replay).
THEOREM Implements == ASSUME OnePass PROVE Spec => ImplementsContract
<1>1. OnePass => SoleSender
  BY DEF OnePass, SoleSender
<1>2. Init => Contract!Init
  BY DEF Init, Contract!Init, Phase, Absent
<1>3. Init => OnceInv
  BY SearchableAssumption DEF Init, OnceInv, FiledOnce, At, NoTask, Running
<1>4. SoleSender /\ TypeOK /\ OnceInv /\ [Next]_vars => OnceInv'
  BY OnceInductive
<1>5. OnePass /\ TypeOK /\ QueueInv /\ SoloInv /\ OnceInv /\ OnceInv' /\ [Next]_vars =>
        [Contract!Next]_Contract!vars
  BY StepImplements
<1> QED
  BY <1>1, <1>2, <1>3, <1>4, <1>5, TypeCorrect, QueueInvariant, SoloInvariant, PTL
     DEF Spec, ImplementsContract, Contract!Spec

=============================================================================
