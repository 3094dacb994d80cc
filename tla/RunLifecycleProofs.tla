------------------------- MODULE RunLifecycleProofs -------------------------
(***************************************************************************)
(* Theorems of RunLifecycle, for any number of processes, repositories and *)
(* changes and any limits.  First what each write of the run table does,   *)
(* then type correctness, then RunInv, and from it the safety properties.  *)
(***************************************************************************)
EXTENDS RunLifecycle, SequenceTheorems, TLAPS

-----------------------------------------------------------------------------
(* Writes of the run table.                                                *)

\* Rows keep their place, their change and their attempt for ever.
Kept ==
  /\ runs' \in Seq(Run)
  /\ DOMAIN runs \subseteq DOMAIN runs'
  /\ \A i \in DOMAIN runs :
       runs'[i].change = runs[i].change /\ runs'[i].attempt = runs[i].attempt

\* An insert adds one row at the end.
LEMMA AppendRow ==
  ASSUME runs \in Seq(Run), NEW r \in Run, runs' = Append(runs, r)
  PROVE  /\ Kept
         /\ DOMAIN runs' = DOMAIN runs \cup {Len(runs) + 1}
         /\ Len(runs) + 1 \notin DOMAIN runs
         /\ \A i \in DOMAIN runs : runs'[i] = runs[i]
         /\ runs'[Len(runs) + 1] = r
<1>1. /\ runs' \in Seq(Run)
      /\ Len(runs') = Len(runs) + 1
      /\ \A i \in 1..Len(runs) : runs'[i] = runs[i]
      /\ runs'[Len(runs) + 1] = r
  BY AppendProperties
<1>2. DOMAIN runs = 1..Len(runs) /\ DOMAIN runs' = 1..Len(runs') /\ Len(runs) \in Nat
  BY <1>1
<1>3. DOMAIN runs' = DOMAIN runs \cup {Len(runs) + 1} /\ Len(runs) + 1 \notin DOMAIN runs
  BY <1>1, <1>2
<1>4. QED
  BY <1>1, <1>2, <1>3 DEF Kept

\* A status write changes the status of one row.
LEMMA SetStatusRow ==
  ASSUME runs \in Seq(Run), NEW i \in DOMAIN runs, NEW s \in Statuses, SetStatus(i, s)
  PROVE  /\ Kept
         /\ DOMAIN runs' = DOMAIN runs
         /\ \A j \in DOMAIN runs :
              /\ runs'[j].status = IF j = i THEN s ELSE runs[j].status
              /\ runs'[j].charged = runs[j].charged
<1>1. ASSUME NEW r \in Run PROVE [r EXCEPT !.status = s] \in Run
  BY DEF Run
<1>2. runs' = [runs EXCEPT ![i] = [runs[i] EXCEPT !.status = s]]
  BY DEF SetStatus
<1>3. runs[i] \in Run
  OBVIOUS
<1>4. runs' \in Seq(Run)
  BY <1>1, <1>2, <1>3
<1>5. DOMAIN runs' = DOMAIN runs
  BY <1>2
<1>6. \A j \in DOMAIN runs : j # i => runs'[j] = runs[j]
  BY <1>2
<1>7. runs'[i] = [runs[i] EXCEPT !.status = s]
  BY <1>2
<1>8. /\ runs'[i].status = s
      /\ runs'[i].charged = runs[i].charged
      /\ runs'[i].change = runs[i].change
      /\ runs'[i].attempt = runs[i].attempt
  BY <1>7, <1>3 DEF Run
<1>9. QED
  BY <1>4, <1>5, <1>6, <1>8 DEF Kept

\* Marking fails a live row and leaves any other alone.
LEMMA MarkRow ==
  ASSUME runs \in Seq(Run), NEW i \in DOMAIN runs, Mark(i)
  PROVE  /\ Kept
         /\ DOMAIN runs' = DOMAIN runs
         /\ \A j \in DOMAIN runs :
              /\ runs'[j].status =
                   IF j = i /\ runs[j].status \in Live THEN "failed" ELSE runs[j].status
              /\ runs'[j].charged = runs[j].charged
<1>1. CASE runs[i].status \in Live
  <2>1. SetStatus(i, "failed") /\ "failed" \in Statuses
    BY <1>1 DEF Mark, Statuses, Terminal
  <2>2. QED
    BY <2>1, <1>1, SetStatusRow
<1>2. CASE runs[i].status \notin Live
  BY <1>2 DEF Mark, Kept
<1>3. QED
  BY <1>1, <1>2

\* Recording and charging set a flag of one row.
LEMMA FlagRow ==
  ASSUME runs \in Seq(Run), NEW i \in DOMAIN runs,
         \/ runs' = [runs EXCEPT ![i].finished = TRUE]
         \/ runs' = [runs EXCEPT ![i].charged = TRUE]
  PROVE  /\ Kept
         /\ DOMAIN runs' = DOMAIN runs
         /\ \A j \in DOMAIN runs :
              /\ runs'[j].status = runs[j].status
              /\ runs[j].charged => runs'[j].charged
<1>1. ASSUME NEW r \in Run
      PROVE  [r EXCEPT !.finished = TRUE] \in Run /\ [r EXCEPT !.charged = TRUE] \in Run
  BY DEF Run
<1>2. runs[i] \in Run
  OBVIOUS
<1>3. PICK r \in {[runs[i] EXCEPT !.finished = TRUE], [runs[i] EXCEPT !.charged = TRUE]} :
        runs' = [runs EXCEPT ![i] = r]
  OBVIOUS
<1>4. /\ r \in Run
      /\ r.status = runs[i].status /\ (runs[i].charged => r.charged)
      /\ r.change = runs[i].change /\ r.attempt = runs[i].attempt
  BY <1>1, <1>2, <1>3 DEF Run
<1>5. runs' \in Seq(Run) /\ DOMAIN runs' = DOMAIN runs
  BY <1>3, <1>4
<1>6. \A j \in DOMAIN runs : runs'[j] = IF j = i THEN r ELSE runs[j]
  BY <1>3
<1>7. QED
  BY <1>4, <1>5, <1>6 DEF Kept

\* A vacuum marks some finished rows deleted.
LEMMA VacuumRows ==
  ASSUME runs \in Seq(Run), NEW k \in DOMAIN runs, Vacuum(k)
  PROVE  /\ Kept
         /\ DOMAIN runs' = DOMAIN runs
         /\ \A j \in DOMAIN runs :
              /\ runs'[j].charged = runs[j].charged
              /\ runs'[j].status =
                   IF j <= k /\ runs[j].finished THEN "deleted" ELSE runs[j].status
<1> DEFINE Row(j) == IF j <= k /\ runs[j].finished
                     THEN [runs[j] EXCEPT !.status = "deleted"] ELSE runs[j]
<1>1. DOMAIN runs = 1..Len(runs) /\ Len(runs) \in Nat
  OBVIOUS
<1>2. runs' = [j \in DOMAIN runs |-> Row(j)]
  BY <1>1 DEF Vacuum
<1>3. ASSUME NEW r \in Run
      PROVE  /\ [r EXCEPT !.status = "deleted"] \in Run
             /\ [r EXCEPT !.status = "deleted"].status = "deleted"
             /\ [r EXCEPT !.status = "deleted"].charged = r.charged
             /\ [r EXCEPT !.status = "deleted"].change = r.change
             /\ [r EXCEPT !.status = "deleted"].attempt = r.attempt
  BY DEF Run, Statuses
<1>4. \A j \in DOMAIN runs : runs[j] \in Run
  OBVIOUS
<1>5. \A j \in DOMAIN runs :
        /\ Row(j) \in Run
        /\ Row(j).status = IF j <= k /\ runs[j].finished THEN "deleted" ELSE runs[j].status
        /\ Row(j).charged = runs[j].charged
        /\ Row(j).change = runs[j].change /\ Row(j).attempt = runs[j].attempt
  BY <1>3, <1>4
<1> HIDE DEF Row
<1>6. runs' \in [1..Len(runs) -> Run]
  BY <1>1, <1>2, <1>5
<1>7. runs' \in Seq(Run) /\ DOMAIN runs' = DOMAIN runs
  BY <1>1, <1>6
<1>8. \A j \in DOMAIN runs : runs'[j] = Row(j)
  BY <1>2
<1>9. QED
  BY <1>5, <1>7, <1>8 DEF Kept

\* What inserts insert.
LEMMA NewRunType ==
  ASSUME NEW c \in Changes, NEW n \in Nat \ {0}, NEW s \in Statuses
  PROVE  NewRun(c, n, s) \in Run
BY DEF NewRun, Run

LEMMA SuccessorType ==
  ASSUME runs \in Seq(Run), NEW i \in DOMAIN runs
  PROVE  /\ Successor(i) \in Run
         /\ Successor(i).change = runs[i].change
         /\ Successor(i).attempt = runs[i].attempt + 1
         /\ Successor(i).status = "queued"
<1>1. runs[i] \in Run
  OBVIOUS
<1>2. runs[i].change \in Changes /\ runs[i].attempt + 1 \in Nat \ {0}
  BY <1>1 DEF Run
<1>3. "queued" \in Statuses
  BY DEF Statuses, Live
<1>4. QED
  BY <1>2, <1>3, NewRunType DEF Successor, NewRun

-----------------------------------------------------------------------------
(* Type correctness.                                                       *)

\* A step of one process leaves what the others hold in place.
LEMMA OthersKeepLocals ==
  ASSUME TypeOK, Kept, NEW q \in Procs,
         pc'[q] = pc[q], todo'[q] = todo[q], cur'[q] = cur[q], result'[q] = result[q]
  PROVE  LocalsOK(q)'
BY DEF TypeOK, Kept, LocalsOK

\* What a process holds as it moves on is typed when each of its locals is.
LEMMA GotoType ==
  ASSUME TypeOK, NEW p \in Procs, NEW stage \in Stages, Goto(p, stage)
  PROVE  /\ pc' \in [Procs -> Stages]
         /\ pc'[p] = stage
         /\ \A q \in Procs \ {p} : pc'[q] = pc[q]
BY DEF TypeOK, Goto

LEMMA PendingType ==
  ASSUME TypeOK, NEW p \in Procs, NEW S \in SUBSET Nat, Pending(p, S)
  PROVE  /\ todo' \in [Procs -> SUBSET Nat]
         /\ todo'[p] = S
         /\ \A q \in Procs \ {p} : todo'[q] = todo[q]
BY DEF TypeOK, Pending

LEMMA HoldType ==
  ASSUME TypeOK, NEW p \in Procs, NEW x \in Nat, Hold(p, x)
  PROVE  /\ cur' \in [Procs -> Nat]
         /\ cur'[p] = x
         /\ \A q \in Procs \ {p} : cur'[q] = cur[q]
BY DEF TypeOK, Hold

LEMMA LeaveType ==
  ASSUME TypeOK, NEW p \in Procs, NEW stage \in Stages, Leave(p, stage)
  PROVE  /\ pc' \in [Procs -> Stages] /\ cur' \in [Procs -> Nat]
         /\ result' \in [Procs -> Results \cup {"none"}]
         /\ pc'[p] = stage /\ cur'[p] = 0
         /\ \A q \in Procs \ {p} :
              pc'[q] = pc[q] /\ cur'[q] = cur[q] /\ result'[q] = result[q]
BY DEF TypeOK, Leave, Goto, Hold

LEMMA StopType ==
  ASSUME TypeOK, NEW p \in Procs, Stop(p)
  PROVE  /\ pc' \in [Procs -> Stages] /\ cur' \in [Procs -> Nat]
         /\ todo' \in [Procs -> SUBSET Nat]
         /\ result' \in [Procs -> Results \cup {"none"}]
         /\ pc'[p] = "starting" /\ todo'[p] = {}
         /\ \A q \in Procs \ {p} : pc'[q] = pc[q] /\ cur'[q] = cur[q] /\
              result'[q] = result[q] /\ todo'[q] = todo[q]
<1>1. "starting" \in Stages /\ {} \in SUBSET Nat
  BY DEF Stages
<1>2. QED
  BY <1>1, LeaveType, PendingType DEF Stop

\* Process p moves and no other does.
Moves(p) ==
  /\ pc' \in [Procs -> Stages] /\ cur' \in [Procs -> Nat]
  /\ todo' \in [Procs -> SUBSET Nat]
  /\ result' \in [Procs -> Results \cup {"none"}]
  /\ \A q \in Procs \ {p} : pc'[q] = pc[q] /\ cur'[q] = cur[q] /\
       result'[q] = result[q] /\ todo'[q] = todo[q]

\* A step of one process keeps the types when it keeps its own.
LEMMA StepType ==
  ASSUME TypeOK, NEW p \in Procs, Kept, Moves(p), LocalsOK(p)',
         known' \subseteq Changes, cursor' \in [Repos -> 0..N],
         filer' \in [Changes -> Nat], UNCHANGED <<switches, retries, vacuums>>,
         mishaps' \in 0..MaxMishaps
  PROVE  TypeOK'
<1>1. \A q \in Procs : LocalsOK(q)'
  <2> SUFFICES ASSUME NEW q \in Procs, q # p PROVE LocalsOK(q)'
    OBVIOUS
  <2>1. pc'[q] = pc[q] /\ todo'[q] = todo[q] /\ cur'[q] = cur[q] /\ result'[q] = result[q]
    BY DEF Moves
  <2>2. QED
    BY <2>1, OthersKeepLocals
<1>2. QED
  BY <1>1 DEF TypeOK, Kept, Moves, switches

\* The same for a step that also leaves the other tables alone.
LEMMA QuietStepType ==
  ASSUME TypeOK, NEW p \in Procs, Kept, Moves(p), LocalsOK(p)',
         UNCHANGED <<tables, switches, bounds>>
  PROVE  TypeOK'
<1>1. /\ known' \subseteq Changes /\ cursor' \in [Repos -> 0..N]
      /\ filer' \in [Changes -> Nat] /\ mishaps' \in 0..MaxMishaps
      /\ UNCHANGED <<switches, retries, vacuums>>
  BY DEF TypeOK, tables, bounds
<1>2. QED
  BY <1>1, StepType

\* Rows that nothing touched are kept.
LEMMA UnchangedKept == TypeOK /\ UNCHANGED runs => Kept
BY DEF TypeOK, Kept

LEMMA RowIds == TypeOK => DOMAIN runs \subseteq Nat
BY DEF TypeOK

LEMMA ChangeOfRow ==
  ASSUME TypeOK, NEW i \in DOMAIN runs
  PROVE  runs[i] \in Run /\ runs[i].change \in Changes
<1>1. runs[i] \in Run
  BY DEF TypeOK
<1>2. QED
  BY <1>1 DEF Run

\* One process's loop: recovery.
LEMMA RecoveryTypes ==
  ASSUME TypeOK, NEW p \in Procs,
         \/ Start(p) \/ Requeue(p) \/ Recovered(p)
         \/ \E x \in todo[p] : Interrupt(p, x)
  PROVE  TypeOK'
<1>1. ASSUME Start(p) PROVE TypeOK'
  <2>1. Kept
    BY <1>1, UnchangedKept DEF Start
  <2>2. "idle" \in Stages /\ "recovering" \in Stages
    BY DEF Stages
  <2>3. CASE RecoveryRuns
    <3>1. PICK k \in 0..Len(runs) : Pending(p, {i \in 1..k : runs[i].status \in Live})
      BY <1>1, <2>3 DEF Start
    <3> DEFINE S == {i \in 1..k : runs[i].status \in Live}
    <3>2. S \in SUBSET Nat /\ S \subseteq DOMAIN runs
      BY <3>1 DEF TypeOK
    <3>3. todo' \in [Procs -> SUBSET Nat] /\ todo'[p] = S /\
          \A q \in Procs \ {p} : todo'[q] = todo[q]
      BY <3>1, <3>2, PendingType
    <3>4. Goto(p, "recovering")
      BY <1>1, <2>3 DEF Start
    <3>5. UNCHANGED <<cur, result, tables, switches, bounds>>
      BY <1>1 DEF Start
    <3>6. Moves(p) /\ pc'[p] = "recovering"
      BY <3>3, <3>4, <3>5, <2>2, GotoType DEF Moves, TypeOK
    <3>7. LocalsOK(p)'
      BY <3>2, <3>3, <3>6, <2>1 DEF LocalsOK, AtWork, Working, Kept
    <3>8. QED
      BY <2>1, <3>5, <3>6, <3>7, QuietStepType
  <2>4. CASE ~RecoveryRuns
    <3>1. Goto(p, "idle") /\ UNCHANGED <<todo, cur, result, tables, switches, bounds>>
      BY <1>1, <2>4 DEF Start
    <3>2. Moves(p) /\ pc'[p] = "idle"
      BY <3>1, <2>2, GotoType DEF Moves, TypeOK
    <3>3. LocalsOK(p)'
      BY <3>2 DEF LocalsOK, AtWork, Working
    <3>4. QED
      BY <2>1, <3>1, <3>2, <3>3, QuietStepType
  <2>5. QED
    BY <2>3, <2>4
<1>2. ASSUME Requeue(p) PROVE TypeOK'
  <2>1. cur[p] \in DOMAIN runs /\ todo[p] \subseteq DOMAIN runs
    BY <1>2 DEF Requeue, Await, TypeOK, LocalsOK
  <2>2. Kept
    <3>1. CASE runs' = runs
      BY <3>1, UnchangedKept
    <3>2. CASE runs' = Append(runs, Successor(cur[p]))
      BY <3>2, <2>1, SuccessorType, AppendRow DEF TypeOK
    <3>3. QED
      BY <1>2, <3>1, <3>2 DEF Requeue
  <2>3. Leave(p, "recovering") /\ UNCHANGED <<todo, tables, switches, bounds>>
    BY <1>2 DEF Requeue
  <2>4. "recovering" \in Stages
    BY DEF Stages
  <2>5. Moves(p) /\ pc'[p] = "recovering" /\ todo'[p] = todo[p]
    BY <2>3, <2>4, LeaveType DEF Moves, TypeOK
  <2>6. LocalsOK(p)'
    BY <2>1, <2>2, <2>5 DEF LocalsOK, AtWork, Working, Kept
  <2>7. QED
    BY <2>2, <2>3, <2>5, <2>6, QuietStepType
<1>3. ASSUME Recovered(p) PROVE TypeOK'
  <2>1. Goto(p, "idle") /\ UNCHANGED <<runs, todo, cur, result, tables, switches, bounds>>
    BY <1>3 DEF Recovered
  <2>2. "idle" \in Stages
    BY DEF Stages
  <2>3. Moves(p) /\ pc'[p] = "idle" /\ Kept
    BY <2>1, <2>2, GotoType, UnchangedKept DEF Moves, TypeOK
  <2>4. LocalsOK(p)'
    BY <2>3 DEF LocalsOK, AtWork, Working
  <2>5. QED
    BY <2>1, <2>3, <2>4, QuietStepType
<1>4. ASSUME NEW x \in todo[p], Interrupt(p, x) PROVE TypeOK'
  <2>1. x \in DOMAIN runs /\ x \in Nat /\ todo[p] \subseteq DOMAIN runs
    BY <1>4, RowIds DEF Interrupt, Await, TypeOK, LocalsOK
  <2>2. Kept
    BY <1>4, <2>1, MarkRow DEF Interrupt, TypeOK
  <2>3. /\ Goto(p, "requeueing") /\ Hold(p, x) /\ Pending(p, todo[p] \ {x})
        /\ UNCHANGED <<result, tables, switches, bounds>>
    BY <1>4 DEF Interrupt, Pop
  <2>4. "requeueing" \in Stages /\ todo[p] \ {x} \in SUBSET Nat
    BY DEF Stages, TypeOK
  <2>5. Moves(p) /\ pc'[p] = "requeueing" /\ cur'[p] = x /\ todo'[p] = todo[p] \ {x}
    BY <2>1, <2>3, <2>4, GotoType, HoldType, PendingType DEF Moves, TypeOK
  <2>6. LocalsOK(p)'
    BY <2>1, <2>2, <2>5 DEF LocalsOK, AtWork, Working, Kept
  <2>7. QED
    BY <2>2, <2>3, <2>5, <2>6, QuietStepType
<1>5. QED
  BY <1>1, <1>2, <1>3, <1>4

\* One process's loop: discovery.
LEMMA NotedNextStage ==
  ASSUME NEW c, NEW S
  PROVE  NotedNext(c, S) \in {"noting", "advancing"}
BY DEF NotedNext

LEMMA DiscoveryTypes ==
  ASSUME TypeOK, NEW p \in Procs,
         \/ Tick(p) \/ Skip(p) \/ AdvanceCursor(p) \/ Discovered(p) \/ BreakDiscovery(p)
         \/ \E x \in todo[p] : Note(p, x)
  PROVE  TypeOK'
<1> USE DEF Stages
<1>1. ASSUME Tick(p) PROVE TypeOK'
  <2>1. Kept /\ UNCHANGED <<cur, result, tables, switches, bounds>>
    BY <1>1, UnchangedKept DEF Tick
  <2>2. CASE Goto(p, "listing") /\ UNCHANGED todo
    <3>1. Goto(p, "listing") /\ UNCHANGED todo
      BY <2>2
    <3>2. Moves(p) /\ pc'[p] = "listing"
      BY <2>1, <3>1, GotoType DEF Moves, TypeOK
    <3>3. LocalsOK(p)'
      BY <3>2 DEF LocalsOK, AtWork, Working
    <3>4. QED
      BY <2>1, <3>2, <3>3, QuietStepType
  <2>3. CASE Goto(p, "noting") /\ \E S \in SUBSET Changes : Pending(p, S)
    <3>1. PICK S \in SUBSET Changes : Pending(p, S)
      BY <2>3
    <3>2. S \in SUBSET Nat
      BY DEF Changes
    <3>3. Goto(p, "noting")
      BY <2>3
    <3>4. Moves(p) /\ pc'[p] = "noting" /\ todo'[p] = S
      BY <2>1, <3>1, <3>2, <3>3, GotoType, PendingType DEF Moves, TypeOK
    <3>5. LocalsOK(p)'
      BY <3>4 DEF LocalsOK, AtWork, Working
    <3>6. QED
      BY <2>1, <3>4, <3>5, QuietStepType
  <2>4. QED
    BY <1>1, <2>2, <2>3 DEF Tick
<1>2. ASSUME Skip(p) PROVE TypeOK'
  <2>1. cur[p] \in Changes /\ todo[p] \subseteq Changes
    BY <1>2 DEF Skip, Await, TypeOK, LocalsOK
  <2>2. Kept
    <3>1. CASE runs' = runs
      BY <3>1, UnchangedKept
    <3>2. CASE runs' = Append(runs, NewRun(cur[p], 1, "skipped"))
      <4>1. NewRun(cur[p], 1, "skipped") \in Run
        BY <2>1, NewRunType DEF Statuses, Terminal
      <4>2. QED
        BY <3>2, <4>1, AppendRow DEF TypeOK
    <3>3. QED
      BY <1>2, <3>1, <3>2 DEF Skip
  <2>3. PICK stage \in {"noting", "advancing"} : Goto(p, stage)
    BY <1>2, NotedNextStage DEF Skip
  <2>4. UNCHANGED <<todo, cur, result, tables, switches, bounds>>
    BY <1>2 DEF Skip
  <2>5. Moves(p) /\ pc'[p] \in {"noting", "advancing"}
    BY <2>3, <2>4, GotoType DEF Moves, TypeOK
  <2>6. LocalsOK(p)'
    BY <2>1, <2>4, <2>5 DEF LocalsOK, AtWork, Working
  <2>7. QED
    BY <2>2, <2>4, <2>5, <2>6, QuietStepType
<1>3. ASSUME AdvanceCursor(p) PROVE TypeOK'
  <2>1. cur[p] \in Changes /\ todo[p] \subseteq Changes
    BY <1>3 DEF AdvanceCursor, Await, TypeOK, LocalsOK
  <2>2. /\ Leave(p, "noting") /\ Kept
        /\ cursor' = [cursor EXCEPT ![RepoOf[cur[p]]] = cur[p]]
        /\ UNCHANGED <<known, filer, switches, todo, bounds>>
    BY <1>3, UnchangedKept DEF AdvanceCursor
  <2>3. cur[p] \in 0..N
    BY <2>1, NAssumption DEF Changes
  <2>4. cursor' \in [Repos -> 0..N]
    BY <2>2, <2>3 DEF TypeOK
  <2>5. Moves(p) /\ pc'[p] = "noting" /\ todo'[p] = todo[p]
    BY <2>2, LeaveType DEF Moves, TypeOK
  <2>6. LocalsOK(p)'
    BY <2>1, <2>5 DEF LocalsOK, AtWork, Working
  <2>7. UNCHANGED <<retries, vacuums>> /\ mishaps' \in 0..MaxMishaps
    BY <2>2 DEF bounds, TypeOK
  <2>8. known' \subseteq Changes /\ filer' \in [Changes -> Nat]
    BY <2>2 DEF TypeOK
  <2>9. QED
    BY <2>2, <2>4, <2>5, <2>6, <2>7, <2>8, StepType
<1>4. ASSUME Discovered(p) PROVE TypeOK'
  <2>1. Goto(p, "listing") /\ UNCHANGED <<runs, todo, cur, result, tables, switches, bounds>>
    BY <1>4 DEF Discovered
  <2>2. Moves(p) /\ pc'[p] = "listing" /\ Kept
    BY <2>1, GotoType, UnchangedKept DEF Moves, TypeOK
  <2>3. LocalsOK(p)'
    BY <2>2 DEF LocalsOK, AtWork, Working
  <2>4. QED
    BY <2>1, <2>2, <2>3, QuietStepType
<1>5. ASSUME BreakDiscovery(p) PROVE TypeOK'
  <2> DEFINE S == {d \in todo[p] : RepoOf[d] # RepoOf[cur[p]]}
  <2>1. todo[p] \subseteq Changes /\ S \in SUBSET Nat /\ S \subseteq Changes
    BY <1>5 DEF BreakDiscovery, Await, TypeOK, LocalsOK
  <2>2. /\ Leave(p, "noting") /\ Pending(p, S) /\ Kept
        /\ mishaps < MaxMishaps /\ mishaps' = mishaps + 1
        /\ UNCHANGED <<tables, switches, retries, vacuums>>
    BY <1>5, UnchangedKept DEF BreakDiscovery
  <2> HIDE DEF S
  <2>3. Moves(p) /\ pc'[p] = "noting" /\ todo'[p] = S
    BY <2>1, <2>2, LeaveType, PendingType DEF Moves
  <2>4. LocalsOK(p)'
    BY <2>1, <2>3 DEF LocalsOK, AtWork, Working
  <2>5. mishaps' \in 0..MaxMishaps
    BY <2>2, LimitsAssumption DEF TypeOK
  <2>6. known' \subseteq Changes /\ cursor' \in [Repos -> 0..N] /\ filer' \in [Changes -> Nat]
    BY <2>2 DEF TypeOK, tables
  <2>7. QED
    BY <2>2, <2>3, <2>4, <2>5, <2>6, StepType
<1>6. ASSUME NEW x \in todo[p], Note(p, x) PROVE TypeOK'
  <2>1. todo[p] \subseteq Changes /\ x \in Changes /\ x \in Nat
    BY <1>6 DEF Note, Await, TypeOK, LocalsOK
  <2>2. /\ Pending(p, todo[p] \ {x}) /\ Hold(p, x) /\ Kept
        /\ known' = known \cup {x}
        /\ UNCHANGED <<cursor, filer, switches, result, bounds>>
    BY <1>6, UnchangedKept DEF Note, Pop
  <2>3. PICK stage \in {"noting", "advancing", "skipping"} : Goto(p, stage)
    BY <1>6, NotedNextStage DEF Note
  <2>4. todo[p] \ {x} \in SUBSET Nat
    BY DEF TypeOK
  <2>5. /\ Moves(p) /\ pc'[p] \in {"noting", "advancing", "skipping"}
        /\ cur'[p] = x /\ todo'[p] = todo[p] \ {x}
    BY <2>1, <2>2, <2>3, <2>4, GotoType, HoldType, PendingType DEF Moves, TypeOK
  <2>6. LocalsOK(p)'
    BY <2>1, <2>5 DEF LocalsOK, AtWork, Working
  <2>7. UNCHANGED <<retries, vacuums>> /\ mishaps' \in 0..MaxMishaps
    BY <2>2 DEF bounds, TypeOK
  <2>8. /\ known' \subseteq Changes /\ cursor' \in [Repos -> 0..N]
        /\ filer' \in [Changes -> Nat]
    BY <2>1, <2>2 DEF TypeOK
  <2>9. QED
    BY <2>2, <2>5, <2>6, <2>7, <2>8, StepType
<1>7. QED
  BY <1>1, <1>2, <1>3, <1>4, <1>5, <1>6

\* One process's loop: queueing.
LEMMA QueueingTypes ==
  ASSUME TypeOK, NEW p \in Procs,
         \/ ListUncovered(p) \/ Enqueued(p)
         \/ \E x \in todo[p] : Enqueue(p, x)
  PROVE  TypeOK'
<1> USE DEF Stages
<1>1. ASSUME ListUncovered(p) PROVE TypeOK'
  <2> DEFINE S == {c \in known : ~Covered(c)}
  <2>1. S \in SUBSET Nat /\ S \subseteq Changes
    <3>1. known \subseteq Changes /\ Changes \subseteq Nat
      BY DEF TypeOK, Changes
    <3>2. S \subseteq known
      OBVIOUS
    <3>3. QED
      BY <3>1, <3>2
  <2>2. /\ Pending(p, S) /\ Goto(p, "enqueuing") /\ Kept
        /\ UNCHANGED <<tables, switches, cur, result, bounds>>
    BY <1>1, UnchangedKept DEF ListUncovered
  <2> HIDE DEF S
  <2>3. Moves(p) /\ pc'[p] = "enqueuing" /\ todo'[p] = S
    BY <2>1, <2>2, GotoType, PendingType DEF Moves, TypeOK
  <2>4. LocalsOK(p)'
    BY <2>1, <2>3 DEF LocalsOK, AtWork, Working
  <2>5. QED
    BY <2>2, <2>3, <2>4, QuietStepType
<1>2. ASSUME Enqueued(p) PROVE TypeOK'
  <2>1. Goto(p, "checking") /\ UNCHANGED <<runs, todo, cur, result, tables, switches, bounds>>
    BY <1>2 DEF Enqueued
  <2>2. Moves(p) /\ pc'[p] = "checking" /\ Kept
    BY <2>1, GotoType, UnchangedKept DEF Moves, TypeOK
  <2>3. LocalsOK(p)'
    BY <2>2 DEF LocalsOK, AtWork, Working
  <2>4. QED
    BY <2>1, <2>2, <2>3, QuietStepType
<1>3. ASSUME NEW x \in todo[p], Enqueue(p, x) PROVE TypeOK'
  <2>1. pc[p] = "enqueuing" /\ todo[p] \subseteq Changes /\ x \in Changes
    BY <1>3 DEF Enqueue, Await, TypeOK, LocalsOK
  <2>2. PICK S \in SUBSET todo[p] : Pending(p, S)
    BY <1>3 DEF Enqueue
  <2>3. Kept
    <3>1. CASE runs' = runs
      BY <3>1, UnchangedKept
    <3>2. CASE runs' = Append(runs, NewRun(x, 1, "queued"))
      <4>1. NewRun(x, 1, "queued") \in Run
        BY <2>1, NewRunType DEF Statuses, Live
      <4>2. QED
        BY <3>2, <4>1, AppendRow DEF TypeOK
    <3>3. QED
      BY <1>3, <3>1, <3>2 DEF Enqueue
  <2>4. UNCHANGED <<tables, switches, pc, cur, result, bounds>>
    BY <1>3 DEF Enqueue
  <2>5. S \in SUBSET Nat
    BY DEF TypeOK
  <2>6. Moves(p) /\ pc'[p] = "enqueuing" /\ todo'[p] = S
    BY <2>1, <2>2, <2>4, <2>5, PendingType DEF Moves, TypeOK
  <2>7. LocalsOK(p)'
    BY <2>1, <2>6 DEF LocalsOK, AtWork, Working
  <2>8. QED
    BY <2>3, <2>4, <2>6, <2>7, QuietStepType
<1>4. QED
  BY <1>1, <1>2, <1>3

\* A drop to the start, or to the next run of the drain, holds nothing.
LEMMA StopStepType ==
  ASSUME TypeOK, NEW p \in Procs, Kept, Stop(p), UNCHANGED <<tables, switches, bounds>>
  PROVE  TypeOK'
<1>1. Moves(p) /\ pc'[p] = "starting"
  BY StopType DEF Moves
<1>2. LocalsOK(p)'
  BY <1>1 DEF LocalsOK, AtWork, Working
<1>3. QED
  BY <1>1, <1>2, QuietStepType

LEMMA DrainStepType ==
  ASSUME TypeOK, NEW p \in Procs, Kept, Leave(p, "draining"), UNCHANGED todo,
         UNCHANGED <<tables, switches, bounds>>, todo[p] \subseteq DOMAIN runs
  PROVE  TypeOK'
<1>1. "draining" \in Stages
  BY DEF Stages
<1>2. Moves(p) /\ pc'[p] = "draining" /\ todo'[p] = todo[p]
  BY <1>1, LeaveType DEF Moves, TypeOK
<1>3. LocalsOK(p)'
  BY <1>2 DEF LocalsOK, AtWork, Working, Kept
<1>4. QED
  BY <1>2, <1>3, QuietStepType

\* A process at work moves on to the next stage with its run and its result.
LEMMA WorkStepType ==
  ASSUME TypeOK, NEW p \in Procs, Kept, NEW stage \in AtWork, Goto(p, stage),
         pc[p] \in AtWork \ {"preparing", "reviewing"},
         UNCHANGED <<todo, cur, result, known, cursor, switches, bounds>>,
         filer' \in [Changes -> Nat]
  PROVE  TypeOK'
<1>1. stage \in Stages
  BY DEF Stages, AtWork
<1>2. Moves(p) /\ pc'[p] = stage
  BY <1>1, GotoType DEF Moves, TypeOK
<1>3. /\ cur[p] \in DOMAIN runs /\ todo[p] \subseteq DOMAIN runs
      /\ result[p] \in Results
  BY DEF TypeOK, LocalsOK
<1>4. LocalsOK(p)'
  BY <1>2, <1>3 DEF LocalsOK, AtWork, Working, Kept
<1>5. UNCHANGED <<retries, vacuums>> /\ mishaps' \in 0..MaxMishaps
  BY DEF bounds, TypeOK
<1>6. known' \subseteq Changes /\ cursor' \in [Repos -> 0..N]
  BY DEF TypeOK
<1>7. QED
  BY <1>2, <1>4, <1>5, <1>6, StepType

\* What a process at work holds.
LEMMA AtWorkLocals ==
  ASSUME TypeOK, NEW p \in Procs, pc[p] \in AtWork
  PROVE  /\ cur[p] \in DOMAIN runs /\ todo[p] \subseteq DOMAIN runs /\ cur[p] \in Nat
         /\ runs[cur[p]].change \in Changes
<1>1. cur[p] \in DOMAIN runs /\ todo[p] \subseteq DOMAIN runs
  BY DEF TypeOK, LocalsOK
<1>2. QED
  BY <1>1, ChangeOfRow DEF TypeOK

\* One process's loop: execution.
LEMMA ExecutionTypes ==
  ASSUME TypeOK, NEW p \in Procs,
         \/ BeginDrain(p) \/ AdvanceStage(p) \/ FailRun(p) \/ QueueActions(p)
         \/ RecordResult(p) \/ Charge(p) \/ Finish(p) \/ Drained(p)
         \/ \E x \in todo[p] : PassOver(p, x) \/ Take(p, x)
  PROVE  TypeOK'
<1>1. ASSUME BeginDrain(p) PROVE TypeOK'
  <2>1. Kept /\ UNCHANGED <<cur, result, tables, switches, bounds>>
    BY <1>1, UnchangedKept DEF BeginDrain
  <2>2. "idle" \in Stages /\ "draining" \in Stages
    BY DEF Stages
  <2>3. CASE paused
    <3>1. Goto(p, "idle") /\ UNCHANGED todo
      BY <1>1, <2>3 DEF BeginDrain
    <3>2. Moves(p) /\ pc'[p] = "idle"
      BY <2>1, <2>2, <3>1, GotoType DEF Moves, TypeOK
    <3>3. LocalsOK(p)'
      BY <3>2 DEF LocalsOK, AtWork, Working
    <3>4. QED
      BY <2>1, <3>2, <3>3, QuietStepType
  <2>4. CASE ~paused
    <3> DEFINE S == Oldest({i \in DOMAIN runs : runs[i].status = "queued"}, Limit)
    <3>1. S \subseteq DOMAIN runs
      BY DEF Oldest
    <3>2. S \in SUBSET Nat
      BY <3>1, RowIds
    <3>3. Goto(p, "draining") /\ Pending(p, S)
      BY <1>1, <2>4 DEF BeginDrain
    <3> HIDE DEF S
    <3>4. Moves(p) /\ pc'[p] = "draining" /\ todo'[p] = S
      BY <2>1, <2>2, <3>2, <3>3, GotoType, PendingType DEF Moves, TypeOK
    <3>5. LocalsOK(p)'
      BY <2>1, <3>1, <3>4 DEF LocalsOK, AtWork, Working, Kept
    <3>6. QED
      BY <2>1, <3>4, <3>5, QuietStepType
  <2>5. QED
    BY <2>3, <2>4
<1>2. ASSUME AdvanceStage(p) PROVE TypeOK'
  <2>1. pc[p] \in AtWork /\ pc[p] \in {"preparing", "reviewing", "synthesizing"}
    BY <1>2 DEF AdvanceStage, Await, AtWork, Working
  <2>2. cur[p] \in DOMAIN runs /\ todo[p] \subseteq DOMAIN runs
    BY <2>1, AtWorkLocals
  <2>3. UNCHANGED <<tables, switches, bounds>>
    BY <1>2 DEF AdvanceStage
  <2>4. CASE runs[cur[p]].status = pc[p]
    <3>1. After(pc[p]) \in Working /\ After(pc[p]) \in Statuses /\ After(pc[p]) \in Stages
      BY <2>1 DEF After, Working, Statuses, Live, Stages
    <3>2. /\ SetStatus(cur[p], After(pc[p])) /\ Goto(p, After(pc[p]))
          /\ UNCHANGED <<todo, cur>>
          /\ IF pc[p] = "reviewing"
             THEN \E found \in Results : result' = [result EXCEPT ![p] = found]
             ELSE UNCHANGED result
      BY <1>2, <2>4 DEF AdvanceStage
    <3>3. Kept
      BY <2>2, <3>1, <3>2, SetStatusRow DEF TypeOK
    <3>4. /\ result' \in [Procs -> Results \cup {"none"}]
          /\ \A q \in Procs \ {p} : result'[q] = result[q]
          /\ pc[p] = "reviewing" => result'[p] \in Results
          /\ pc[p] # "reviewing" => result'[p] = result[p]
      BY <3>2 DEF TypeOK
    <3>5. Moves(p) /\ pc'[p] = After(pc[p])
      BY <3>1, <3>2, <3>4, GotoType DEF Moves, TypeOK
    <3>6. pc[p] = "synthesizing" => result[p] \in Results
      BY DEF TypeOK, LocalsOK, AtWork, Working
    <3>7. pc'[p] \in AtWork \ {"preparing", "reviewing"} => result'[p] \in Results
      BY <2>1, <3>4, <3>5, <3>6 DEF After
    <3>8. pc'[p] \in Working /\ cur'[p] \in DOMAIN runs' /\ todo'[p] \subseteq DOMAIN runs'
      BY <2>2, <3>1, <3>2, <3>3, <3>5 DEF Kept
    <3>9. LocalsOK(p)'
      BY <3>7, <3>8 DEF LocalsOK, AtWork, Working
    <3>10. QED
      BY <2>3, <3>3, <3>5, <3>9, QuietStepType
  <2>5. CASE runs[cur[p]].status # pc[p]
    <3>1. Stop(p) /\ Kept
      BY <1>2, <2>5, UnchangedKept DEF AdvanceStage
    <3>2. QED
      BY <2>3, <3>1, StopStepType
  <2>6. QED
    BY <2>4, <2>5
<1>3. ASSUME FailRun(p) PROVE TypeOK'
  <2>1. pc[p] \in AtWork
    BY <1>3 DEF FailRun, Await, AtWork, Working
  <2>2. cur[p] \in DOMAIN runs /\ todo[p] \subseteq DOMAIN runs
    BY <2>1, AtWorkLocals
  <2>3. /\ Mark(cur[p]) /\ Leave(p, "draining")
        /\ UNCHANGED todo /\ UNCHANGED <<tables, switches, bounds>>
    BY <1>3 DEF FailRun
  <2>4. Kept
    BY <2>2, <2>3, MarkRow DEF TypeOK
  <2>5. QED
    BY <2>2, <2>3, <2>4, DrainStepType
<1>4. ASSUME QueueActions(p) PROVE TypeOK'
  <2>1. pc[p] \in AtWork \ {"preparing", "reviewing"}
    BY <1>4 DEF QueueActions, Await, AtWork, Working
  <2>2. cur[p] \in Nat /\ runs[cur[p]].change \in Changes
    BY <2>1, AtWorkLocals
  <2>3. Kept /\ UNCHANGED <<known, cursor, switches, bounds>>
    BY <1>4, UnchangedKept DEF QueueActions
  <2>4. CASE Stop(p) /\ UNCHANGED filer
    <3>1. UNCHANGED <<tables, switches, bounds>>
      BY <2>3, <2>4 DEF tables
    <3>2. QED
      BY <2>3, <2>4, <3>1, StopStepType
  <2>5. CASE ~(Stop(p) /\ UNCHANGED filer)
    <3>1. /\ Goto(p, "recording") /\ UNCHANGED <<todo, cur, result>>
          /\ \/ UNCHANGED filer
             \/ filer' = [filer EXCEPT ![runs[cur[p]].change] = cur[p]]
      BY <1>4, <2>5 DEF QueueActions
    <3>2. filer' \in [Changes -> Nat]
      BY <2>2, <3>1 DEF TypeOK
    <3>3. "recording" \in AtWork
      BY DEF AtWork
    <3>4. QED
      BY <2>1, <2>3, <3>1, <3>2, <3>3, WorkStepType
  <2>6. QED
    BY <2>4, <2>5
<1>5. ASSUME RecordResult(p) \/ Charge(p) PROVE TypeOK'
  <2>1. pc[p] \in AtWork \ {"preparing", "reviewing"}
    BY <1>5 DEF RecordResult, Charge, Await, AtWork
  <2>2. PICK stage \in {"charging", "finishing"} : Goto(p, stage)
    BY <1>5 DEF RecordResult, Charge
  <2>3. UNCHANGED <<todo, cur, result, tables, switches, bounds>>
    BY <1>5 DEF RecordResult, Charge
  <2>4. cur[p] \in DOMAIN runs
    BY <2>1, AtWorkLocals
  <2>5. Kept
    BY <1>5, <2>4, FlagRow DEF RecordResult, Charge, TypeOK
  <2>6. UNCHANGED <<known, cursor>> /\ filer' \in [Changes -> Nat]
    BY <2>3 DEF tables, TypeOK
  <2>7. stage \in AtWork
    BY DEF AtWork
  <2>8. QED
    BY <2>1, <2>2, <2>3, <2>5, <2>6, <2>7, WorkStepType
<1>6. ASSUME Finish(p) PROVE TypeOK'
  <2>1. pc[p] \in AtWork
    BY <1>6 DEF Finish, Await, AtWork
  <2>2. cur[p] \in DOMAIN runs /\ todo[p] \subseteq DOMAIN runs
    BY <2>1, AtWorkLocals
  <2>3. UNCHANGED <<tables, switches, bounds>>
    BY <1>6 DEF Finish
  <2>4. CASE Stop(p) /\ UNCHANGED runs
    BY <2>3, <2>4, StopStepType, UnchangedKept
  <2>5. CASE ~(Stop(p) /\ UNCHANGED runs)
    <3>1. /\ SetStatus(cur[p], FinalStatus(result[p])) /\ Leave(p, "draining")
          /\ UNCHANGED todo
      BY <1>6, <2>5 DEF Finish
    <3>2. FinalStatus(result[p]) \in Statuses
      BY DEF FinalStatus, Statuses, Live, Terminal
    <3>3. Kept
      BY <2>2, <3>1, <3>2, SetStatusRow DEF TypeOK
    <3>4. QED
      BY <2>2, <2>3, <3>1, <3>3, DrainStepType
  <2>6. QED
    BY <2>4, <2>5
<1>7. ASSUME Drained(p) PROVE TypeOK'
  <2>1. Goto(p, "idle") /\ UNCHANGED <<runs, todo, cur, result, tables, switches, bounds>>
    BY <1>7 DEF Drained
  <2>2. "idle" \in Stages
    BY DEF Stages
  <2>3. Moves(p) /\ pc'[p] = "idle" /\ Kept
    BY <2>1, <2>2, GotoType, UnchangedKept DEF Moves, TypeOK
  <2>4. LocalsOK(p)'
    BY <2>3 DEF LocalsOK, AtWork, Working
  <2>5. QED
    BY <2>1, <2>3, <2>4, QuietStepType
<1>8. ASSUME NEW x \in todo[p], PassOver(p, x) PROVE TypeOK'
  <2>1. pc[p] = "draining" /\ todo[p] \subseteq DOMAIN runs
    BY <1>8 DEF PassOver, Await, TypeOK, LocalsOK
  <2>2. /\ Pending(p, todo[p] \ {x}) /\ Kept
        /\ UNCHANGED <<tables, switches, pc, cur, result, bounds>>
    BY <1>8, UnchangedKept DEF PassOver, Pop
  <2>3. todo[p] \ {x} \in SUBSET Nat
    BY DEF TypeOK
  <2>4. Moves(p) /\ pc'[p] = "draining" /\ todo'[p] = todo[p] \ {x}
    BY <2>1, <2>2, <2>3, PendingType DEF Moves, TypeOK
  <2>5. LocalsOK(p)'
    BY <2>1, <2>2, <2>4 DEF LocalsOK, AtWork, Working, Kept
  <2>6. QED
    BY <2>2, <2>4, <2>5, QuietStepType
<1>9. ASSUME NEW x \in todo[p], Take(p, x) PROVE TypeOK'
  <2>1. x \in DOMAIN runs /\ todo[p] \subseteq DOMAIN runs
    BY <1>9 DEF Take, Await, TypeOK, LocalsOK
  <2>2. x \in Nat /\ todo[p] \ {x} \in SUBSET Nat
    BY DEF TypeOK
  <2>3. UNCHANGED <<tables, switches, bounds>>
    BY <1>9 DEF Take
  <2>4. CASE runs[x].status = "queued"
    <3>1. SetStatus(x, "preparing") /\ Begin(p, x) /\ UNCHANGED result
      BY <1>9, <2>4 DEF Take
    <3>2. "preparing" \in Statuses /\ "preparing" \in Stages
      BY DEF Statuses, Live, Working, Stages
    <3>3. Kept
      BY <2>1, <3>1, <3>2, SetStatusRow DEF TypeOK
    <3>4. /\ Moves(p) /\ pc'[p] = "preparing" /\ cur'[p] = x
          /\ todo'[p] = todo[p] \ {x}
      BY <2>2, <3>1, <3>2, GotoType, HoldType, PendingType DEF Begin, Moves, TypeOK
    <3>5. LocalsOK(p)'
      BY <2>1, <3>3, <3>4 DEF LocalsOK, AtWork, Working, Kept
    <3>6. QED
      BY <2>3, <3>3, <3>4, <3>5, QuietStepType
  <2>5. CASE runs[x].status # "queued"
    <3>1. Stop(p) /\ Kept
      BY <1>9, <2>5, UnchangedKept DEF Take
    <3>2. QED
      BY <2>3, <3>1, StopStepType
  <2>6. QED
    BY <2>4, <2>5
<1>10. QED
  BY <1>1, <1>2, <1>3, <1>4, <1>5, <1>6, <1>7, <1>8, <1>9

\* Crashes, people and the calendar.
LEMMA AroundTypes ==
  ASSUME TypeOK,
         \/ \E p \in Procs : Crash(p)
         \/ \E i \in DOMAIN runs : RetryRun(i) \/ Vacuum(i)
         \/ SetPaused \/ \E r \in Repos : SetHeld(r)
  PROVE  TypeOK'
<1>1. ASSUME NEW p \in Procs, Crash(p) PROVE TypeOK'
  <2>1. /\ Stop(p) /\ Kept /\ mishaps < MaxMishaps /\ mishaps' = mishaps + 1
        /\ UNCHANGED <<tables, switches, retries, vacuums>>
    BY <1>1, UnchangedKept DEF Crash
  <2>2. mishaps' \in 0..MaxMishaps
    BY <2>1, LimitsAssumption DEF TypeOK
  <2>3. Moves(p) /\ pc'[p] = "starting"
    BY <2>1, StopType DEF Moves
  <2>4. LocalsOK(p)'
    BY <2>3 DEF LocalsOK, AtWork, Working
  <2>5. known' \subseteq Changes /\ cursor' \in [Repos -> 0..N] /\ filer' \in [Changes -> Nat]
    BY <2>1 DEF tables, TypeOK
  <2>6. QED
    BY <2>1, <2>2, <2>3, <2>4, <2>5, StepType
<1>2. ASSUME Kept, UNCHANGED <<pc, todo, cur, result>> PROVE \A q \in Procs : LocalsOK(q)'
  BY <1>2, OthersKeepLocals
<1>3. ASSUME NEW i \in DOMAIN runs, RetryRun(i) PROVE TypeOK'
  <2>1. Kept
    BY <1>3, SuccessorType, AppendRow DEF RetryRun, TypeOK
  <2>2. UNCHANGED <<pc, todo, cur, result>> /\ UNCHANGED <<tables, switches, mishaps, vacuums>>
    BY <1>3 DEF RetryRun
  <2>3. retries' \in 0..MaxRetries
    BY <1>3, LimitsAssumption DEF RetryRun, TypeOK
  <2>4. QED
    BY <1>2, <2>1, <2>2, <2>3 DEF TypeOK, Kept, tables, switches
<1>4. ASSUME NEW k \in DOMAIN runs, Vacuum(k) PROVE TypeOK'
  <2>1. Kept
    BY <1>4, VacuumRows DEF TypeOK
  <2>2. /\ UNCHANGED <<pc, todo, cur, result>>
        /\ UNCHANGED <<known, cursor, switches, mishaps, retries>>
    BY <1>4 DEF Vacuum
  <2>3. vacuums' \in 0..MaxVacuums
    BY <1>4, LimitsAssumption DEF Vacuum, TypeOK
  <2>4. filer' \in [Changes -> Nat]
    BY <1>4 DEF Vacuum, TypeOK
  <2>5. QED
    BY <1>2, <2>1, <2>2, <2>3, <2>4 DEF TypeOK, Kept, switches
<1>5. ASSUME SetPaused \/ \E r \in Repos : SetHeld(r) PROVE TypeOK'
  <2>1. Kept /\ UNCHANGED <<pc, todo, cur, result>> /\ UNCHANGED <<tables, bounds>>
    BY <1>5, UnchangedKept DEF SetPaused, SetHeld
  <2>2. paused' \in BOOLEAN /\ held' \subseteq Repos
    BY <1>5 DEF SetPaused, SetHeld, TypeOK
  <2>3. QED
    BY <1>2, <2>1, <2>2 DEF TypeOK, Kept, tables, bounds
<1>6. QED
  BY <1>1, <1>3, <1>4, <1>5

LEMMA TypeInductive == TypeOK /\ [Next]_vars => TypeOK'
<1> SUFFICES ASSUME TypeOK, [Next]_vars PROVE TypeOK'
  OBVIOUS
<1>1. CASE \E p \in Procs : Work(p) \/ BreakDiscovery(p)
  BY <1>1, RecoveryTypes, DiscoveryTypes, QueueingTypes, ExecutionTypes DEF Work
<1>2. CASE \/ \E p \in Procs : Crash(p)
           \/ \E i \in DOMAIN runs : RetryRun(i) \/ Vacuum(i)
           \/ SetPaused \/ \E r \in Repos : SetHeld(r)
  BY <1>2, AroundTypes
<1>3. CASE UNCHANGED vars
  BY <1>3 DEF vars, tables, switches, bounds, TypeOK, LocalsOK
<1>4. QED
  BY <1>1, <1>2, <1>3 DEF Next

\* Every reachable state is typed.
THEOREM TypeCorrect == Spec => []TypeOK
<1>1. Init => TypeOK
  <2> SUFFICES ASSUME Init PROVE TypeOK
    OBVIOUS
  <2>1. runs \in Seq(Run)
    BY DEF Init
  <2>2. /\ pc \in [Procs -> Stages] /\ todo \in [Procs -> SUBSET Nat]
        /\ cur \in [Procs -> Nat] /\ result \in [Procs -> Results \cup {"none"}]
    BY DEF Init, Stages
  <2>3. \A p \in Procs : LocalsOK(p)
    BY DEF Init, LocalsOK, AtWork, Working
  <2>4. cursor \in [Repos -> 0..N] /\ filer \in [Changes -> Nat]
    BY NAssumption DEF Init
  <2>5. mishaps \in 0..MaxMishaps /\ retries \in 0..MaxRetries /\ vacuums \in 0..MaxVacuums
    BY LimitsAssumption DEF Init
  <2>6. QED
    BY <2>1, <2>2, <2>3, <2>4, <2>5 DEF Init, TypeOK
<1>2. QED
  BY <1>1, TypeInductive, PTL DEF Spec

-----------------------------------------------------------------------------
(* What a step does to the run table.                                      *)

\* A row is inserted as the first attempt of a change, or as the next after one
\* that is over or that recovery has just marked.
Inserted(r) ==
  /\ runs' = Append(runs, r)
  /\ r.status \in {"queued", "skipped"}
  /\ ~Exists(r.change, r.attempt)
  /\ \/ r.attempt = 1
     \/ \E i \in DOMAIN runs :
          /\ r.change = runs[i].change /\ r.attempt = runs[i].attempt + 1
          /\ \/ runs[i].status \in Terminal
             \/ \E p \in Procs : pc[p] = "requeueing" /\ cur[p] = i

\* A status moves on from a live one, and to a reviewed one once charged.
Moved(i, s) ==
  /\ SetStatus(i, s)
  /\ runs[i].status \in Live /\ s \notin {"queued", "deleted"}
  /\ s \in {"done", "awaiting_approval"} => runs[i].charged
  /\ s = "awaiting_approval" => filer[runs[i].change] = i
  /\ UNCHANGED filer

Flagged(i) ==
  \/ runs' = [runs EXCEPT ![i].finished = TRUE]
  \/ runs' = [runs EXCEPT ![i].charged = TRUE]

TableStep ==
  \/ /\ UNCHANGED vacuums
     /\ \/ UNCHANGED runs
        \/ \E r \in Run : Inserted(r)
        \/ \E i \in DOMAIN runs, s \in Statuses : Moved(i, s)
        \/ \E i \in DOMAIN runs : Flagged(i)
  \/ \E k \in DOMAIN runs : Vacuum(k)

LEMMA TableSteps == TypeOK /\ RunInv /\ [Next]_vars => TableStep
<1> SUFFICES ASSUME TypeOK, RunInv, [Next]_vars PROVE TableStep
  OBVIOUS
<1>1. ASSUME NEW p \in Procs, Requeue(p) PROVE TableStep
  <2>1. pc[p] = "requeueing" /\ cur[p] \in DOMAIN runs
    BY <1>1 DEF Requeue, Await, TypeOK, LocalsOK
  <2>2. UNCHANGED vacuums
    BY <1>1 DEF Requeue, bounds
  <2>3. CASE runs' = runs
    BY <2>2, <2>3 DEF TableStep
  <2>4. CASE runs' # runs
    <3>1. runs' = Append(runs, Successor(cur[p])) /\ ~HasSuccessor(cur[p])
      BY <1>1, <2>4 DEF Requeue
    <3>2. Successor(cur[p]) \in Run /\ Inserted(Successor(cur[p]))
      BY <2>1, <3>1, SuccessorType DEF Inserted, HasSuccessor, TypeOK
    <3>3. QED
      BY <2>2, <3>2 DEF TableStep
  <2>5. QED
    BY <2>3, <2>4
<1>2. ASSUME NEW i \in DOMAIN runs, Mark(i), UNCHANGED <<vacuums, filer>> PROVE TableStep
  <2>1. CASE runs[i].status \in Live
    <3>1. Moved(i, "failed") /\ "failed" \in Statuses
      BY <1>2, <2>1 DEF Mark, Moved, Statuses, Terminal
    <3>2. QED
      BY <1>2, <3>1 DEF TableStep
  <2>2. CASE runs[i].status \notin Live
    BY <1>2, <2>2 DEF Mark, TableStep
  <2>3. QED
    BY <2>1, <2>2
<1>3. ASSUME NEW p \in Procs, NEW x \in todo[p], Interrupt(p, x) PROVE TableStep
  <2>1. x \in DOMAIN runs
    BY <1>3 DEF Interrupt, Await, TypeOK, LocalsOK
  <2>2. QED
    BY <1>2, <1>3, <2>1 DEF Interrupt, tables, bounds
<1>4. ASSUME NEW p \in Procs, FailRun(p) PROVE TableStep
  <2>1. pc[p] \in AtWork
    BY <1>4 DEF FailRun, Await, AtWork, Working
  <2>2. cur[p] \in DOMAIN runs
    BY <2>1, AtWorkLocals
  <2>3. QED
    BY <1>2, <1>4, <2>2 DEF FailRun, tables, bounds
<1>5. ASSUME NEW p \in Procs, Skip(p) PROVE TableStep
  <2>1. cur[p] \in Changes /\ UNCHANGED vacuums
    BY <1>5 DEF Skip, Await, TypeOK, LocalsOK, bounds
  <2> DEFINE r == NewRun(cur[p], 1, "skipped")
  <2>2. /\ r \in Run /\ r.status = "skipped" /\ r.attempt = 1 /\ r.change = cur[p]
    BY <2>1, NewRunType DEF NewRun, Statuses, Terminal
  <2>3. CASE Covered(cur[p])
    BY <1>5, <2>1, <2>3 DEF Skip, TableStep
  <2>4. CASE ~Covered(cur[p])
    <3>1. runs' = Append(runs, r)
      BY <1>5, <2>4 DEF Skip
    <3>2. ~Exists(cur[p], 1)
      BY <2>4 DEF Covered, Exists
    <3> HIDE DEF r
    <3>3. Inserted(r)
      BY <2>2, <3>1, <3>2 DEF Inserted
    <3>4. QED
      BY <2>1, <2>2, <3>3 DEF TableStep
  <2>5. QED
    BY <2>3, <2>4
<1>6. ASSUME NEW p \in Procs, NEW x \in todo[p], Enqueue(p, x) PROVE TableStep
  <2>1. x \in Changes /\ UNCHANGED vacuums
    BY <1>6 DEF Enqueue, Await, TypeOK, LocalsOK, bounds
  <2> DEFINE r == NewRun(x, 1, "queued")
  <2>2. /\ r \in Run /\ r.status = "queued" /\ r.attempt = 1 /\ r.change = x
    BY <2>1, NewRunType DEF NewRun, Statuses, Live
  <2>3. CASE Exists(x, 1)
    BY <1>6, <2>1, <2>3 DEF Enqueue, TableStep
  <2>4. CASE ~Exists(x, 1)
    <3>1. runs' = Append(runs, r)
      BY <1>6, <2>4 DEF Enqueue
    <3> HIDE DEF r
    <3>2. Inserted(r)
      BY <2>2, <2>4, <3>1 DEF Inserted
    <3>3. QED
      BY <2>1, <2>2, <3>2 DEF TableStep
  <2>5. QED
    BY <2>3, <2>4
<1>7. ASSUME NEW p \in Procs, NEW x \in todo[p], Take(p, x) PROVE TableStep
  <2>1. x \in DOMAIN runs /\ UNCHANGED <<vacuums, filer>>
    BY <1>7 DEF Take, Await, TypeOK, LocalsOK, bounds, tables
  <2>2. CASE runs[x].status = "queued"
    <3>1. Moved(x, "preparing") /\ "preparing" \in Statuses
      BY <1>7, <2>1, <2>2 DEF Take, Moved, Statuses, Live, Working
    <3>2. QED
      BY <2>1, <3>1 DEF TableStep
  <2>3. CASE runs[x].status # "queued"
    BY <1>7, <2>1, <2>3 DEF Take, TableStep
  <2>4. QED
    BY <2>2, <2>3
<1>8. ASSUME NEW p \in Procs, AdvanceStage(p) PROVE TableStep
  <2>1. pc[p] \in AtWork /\ pc[p] \in {"preparing", "reviewing", "synthesizing"}
    BY <1>8 DEF AdvanceStage, Await, AtWork, Working
  <2>2. cur[p] \in DOMAIN runs /\ UNCHANGED <<vacuums, filer>>
    BY <1>8, <2>1, AtWorkLocals DEF AdvanceStage, tables, bounds
  <2>3. CASE runs[cur[p]].status = pc[p]
    <3>1. SetStatus(cur[p], After(pc[p])) /\ runs[cur[p]].status \in Live
      BY <1>8, <2>1, <2>3 DEF AdvanceStage, Live, Working
    <3>2. /\ After(pc[p]) \in Statuses
          /\ After(pc[p]) \notin {"queued", "deleted", "done", "awaiting_approval"}
      BY <2>1 DEF After, Statuses, Live, Working
    <3>3. Moved(cur[p], After(pc[p]))
      BY <2>2, <3>1, <3>2 DEF Moved
    <3>4. QED
      BY <2>2, <3>2, <3>3 DEF TableStep
  <2>4. CASE runs[cur[p]].status # pc[p]
    BY <1>8, <2>2, <2>4 DEF AdvanceStage, TableStep
  <2>5. QED
    BY <2>3, <2>4
<1>9. ASSUME NEW p \in Procs, RecordResult(p) \/ Charge(p) PROVE TableStep
  <2>1. pc[p] \in AtWork
    BY <1>9 DEF RecordResult, Charge, Await, AtWork
  <2>2. cur[p] \in DOMAIN runs /\ UNCHANGED vacuums
    BY <1>9, <2>1, AtWorkLocals DEF RecordResult, Charge, bounds
  <2>3. Flagged(cur[p])
    BY <1>9 DEF RecordResult, Charge, Flagged
  <2>4. QED
    BY <2>2, <2>3 DEF TableStep
<1>10. ASSUME NEW p \in Procs, Finish(p) PROVE TableStep
  <2>1. pc[p] = "finishing" /\ pc[p] \in AtWork
    BY <1>10 DEF Finish, Await, AtWork
  <2>2. cur[p] \in DOMAIN runs /\ UNCHANGED <<vacuums, filer>>
    BY <1>10, <2>1, AtWorkLocals DEF Finish, tables, bounds
  <2>3. CASE UNCHANGED runs
    BY <2>2, <2>3 DEF TableStep
  <2>4. CASE runs' # runs
    <3> DEFINE s == FinalStatus(result[p])
    <3>1. SetStatus(cur[p], s) /\ runs[cur[p]].status = "publishing"
      BY <1>10, <2>4 DEF Finish
    <3>2. /\ s \in Statuses /\ s \notin {"queued", "deleted"}
          /\ s = "awaiting_approval" => result[p] = "inbox"
      BY DEF FinalStatus, Statuses, Live, Terminal
    <3>3. runs[cur[p]].charged
      BY <2>1 DEF RunInv, ChargedLast
    <3>4. s = "awaiting_approval" => filer[runs[cur[p]].change] = cur[p]
      BY <2>1, <3>1, <3>2 DEF RunInv, ActionHeld
    <3>5. runs[cur[p]].status \in Live
      BY <3>1 DEF Live, Working
    <3> HIDE DEF s
    <3>6. Moved(cur[p], s)
      BY <2>2, <3>1, <3>2, <3>3, <3>4, <3>5 DEF Moved
    <3>7. QED
      BY <2>2, <3>2, <3>6 DEF TableStep
  <2>5. QED
    BY <2>3, <2>4
<1>11. ASSUME NEW i \in DOMAIN runs, RetryRun(i) PROVE TableStep
  <2>1. /\ runs' = Append(runs, Successor(i)) /\ ~HasSuccessor(i)
        /\ runs[i].status \in Terminal /\ UNCHANGED vacuums
    BY <1>11 DEF RetryRun
  <2>2. Successor(i) \in Run /\ Inserted(Successor(i))
    BY <2>1, SuccessorType DEF Inserted, HasSuccessor, TypeOK
  <2>3. QED
    BY <2>1, <2>2 DEF TableStep
<1>12. ASSUME UNCHANGED <<runs, vacuums>> PROVE TableStep
  BY <1>12 DEF TableStep
<1>13. ASSUME NEW p \in Procs, Work(p) PROVE TableStep
  BY <1>13, <1>1, <1>3, <1>4, <1>5, <1>6, <1>7, <1>8, <1>9, <1>10, <1>12
  DEF Work, Start, Recovered, Tick, Note, AdvanceCursor, Discovered, ListUncovered,
      Enqueued, BeginDrain, PassOver, QueueActions, Drained, bounds
<1>14. ASSUME NEW p \in Procs, BreakDiscovery(p) \/ Crash(p) PROVE TableStep
  BY <1>14, <1>12 DEF BreakDiscovery, Crash
<1>15. ASSUME SetPaused \/ \E r \in Repos : SetHeld(r) PROVE TableStep
  BY <1>15, <1>12 DEF SetPaused, SetHeld, bounds
<1>16. CASE \E k \in DOMAIN runs : Vacuum(k)
  BY <1>16 DEF TableStep
<1>17. CASE UNCHANGED vars
  BY <1>17, <1>12 DEF vars, bounds
<1>18. QED
  BY <1>11, <1>13, <1>14, <1>15, <1>16, <1>17 DEF Next

\* Row by row: a status stays, or is deleted, or moves on from a live one.
RowStep(i) ==
  /\ runs[i].charged => runs'[i].charged
  /\ \/ runs'[i].status \in {runs[i].status, "deleted"}
     \/ /\ runs[i].status \in Live /\ runs'[i].status # "queued"
        /\ runs'[i].status \in {"done", "awaiting_approval"} => runs[i].charged
        /\ runs'[i].status = "awaiting_approval" =>
             filer[runs[i].change] = i /\ UNCHANGED filer

LEMMA RowSteps ==
  ASSUME TypeOK, TableStep
  PROVE  /\ Kept
         /\ \A i \in DOMAIN runs : RowStep(i)
         /\ \A i \in DOMAIN runs' \ DOMAIN runs : runs'[i].status \in {"queued", "skipped"}
         /\ UNCHANGED vacuums =>
              \A i \in DOMAIN runs : runs'[i].status = "deleted" => runs[i].status = "deleted"
<1>0. runs \in Seq(Run)
  BY DEF TypeOK
<1>1. CASE UNCHANGED runs
  BY <1>1, UnchangedKept DEF RowStep
<1>2. ASSUME NEW r \in Run, Inserted(r)
      PROVE  /\ Kept /\ \A i \in DOMAIN runs : RowStep(i) /\ runs'[i] = runs[i]
             /\ \A i \in DOMAIN runs' \ DOMAIN runs :
                  runs'[i].status \in {"queued", "skipped"}
  BY <1>0, <1>2, AppendRow DEF Inserted, RowStep
<1>3. ASSUME NEW i \in DOMAIN runs, NEW s \in Statuses, Moved(i, s)
      PROVE  /\ Kept /\ DOMAIN runs' = DOMAIN runs
             /\ \A j \in DOMAIN runs :
                  RowStep(j) /\ (runs'[j].status = "deleted" => runs[j].status = "deleted")
  <2>1. /\ Kept /\ DOMAIN runs' = DOMAIN runs
        /\ \A j \in DOMAIN runs :
             /\ runs'[j].status = IF j = i THEN s ELSE runs[j].status
             /\ runs'[j].charged = runs[j].charged
    BY <1>0, <1>3, SetStatusRow DEF Moved
  <2>2. QED
    BY <2>1, <1>3 DEF Moved, RowStep
<1>4. ASSUME NEW i \in DOMAIN runs, Flagged(i)
      PROVE  /\ Kept /\ DOMAIN runs' = DOMAIN runs
             /\ \A j \in DOMAIN runs : RowStep(j) /\ runs'[j].status = runs[j].status
  BY <1>0, <1>4, FlagRow DEF Flagged, RowStep
<1>5. ASSUME NEW k \in DOMAIN runs, Vacuum(k)
      PROVE  /\ Kept /\ DOMAIN runs' = DOMAIN runs
             /\ \A j \in DOMAIN runs : RowStep(j)
             /\ vacuums' # vacuums
  <2>1. vacuums' # vacuums
    BY <1>5 DEF Vacuum, TypeOK
  <2>2. QED
    BY <2>1, <1>0, <1>5, VacuumRows DEF RowStep
<1>6. QED
  BY <1>1, <1>2, <1>3, <1>4, <1>5 DEF TableStep

\* A run that is over stays as it is, until a vacuum takes it away.
LEMMA OverStaysOver ==
  TypeOK /\ TableStep =>
    \A i \in DOMAIN runs :
      runs[i].status \in Terminal => runs'[i].status \in {runs[i].status, "deleted"}
BY RowSteps DEF RowStep, Terminal, Live, Working

-----------------------------------------------------------------------------
(* What a step does to a process at work.                                  *)

Still(q) == pc'[q] = pc[q] /\ cur'[q] = cur[q] /\ result'[q] = result[q]

\* It takes a queued run while no other process moves ...
Took(q) ==
  /\ cur'[q] \in DOMAIN runs /\ pc'[q] = "preparing"
  /\ runs[cur'[q]].status = "queued" /\ runs'[cur'[q]].status # "queued"
  /\ \A o \in Procs \ {q} : Still(o)

\* ... or moves on with the run it has.
Progressed(q) ==
  /\ cur'[q] = cur[q]
  /\ \/ pc[q] \in Working /\ pc'[q] \in Working
     \/ /\ pc[q] = "publishing" /\ pc'[q] = "recording"
        /\ result'[q] = "inbox" => filer'[runs[cur[q]].change] = cur[q]
     \/ /\ pc[q] = "recording" /\ pc'[q] = "charging" /\ result'[q] = result[q]
     \/ /\ pc[q] = "charging" /\ pc'[q] = "finishing" /\ result'[q] = result[q]
        /\ runs'[cur[q]].charged

ProcessStep(q) == Still(q) \/ pc'[q] \notin AtWork \/ Took(q) \/ Progressed(q)

\* One process moves at a time.
LEMMA OthersStill ==
  ASSUME TypeOK, NEW p \in Procs, Work(p) \/ BreakDiscovery(p) \/ Crash(p)
  PROVE  \A o \in Procs \ {p} : Still(o)
<1> SUFFICES ASSUME NEW o \in Procs, o # p PROVE Still(o)
  OBVIOUS
<1>1. /\ \A stage : Goto(p, stage) => pc'[o] = pc[o]
      /\ \A x : Hold(p, x) => cur'[o] = cur[o]
      /\ \A x : result' = [result EXCEPT ![p] = x] => result'[o] = result[o]
  BY DEF TypeOK, Goto, Hold
<1>2. \A stage : Leave(p, stage) => Still(o)
  BY <1>1 DEF Leave, Still
<1>3. Stop(p) => Still(o)
  BY <1>2 DEF Stop
<1>4. \A x : Begin(p, x) => pc'[o] = pc[o] /\ cur'[o] = cur[o]
  BY <1>1 DEF Begin
<1>5. ASSUME \/ Start(p) \/ Requeue(p) \/ Recovered(p) \/ Tick(p) \/ Skip(p)
             \/ AdvanceCursor(p) \/ Discovered(p) \/ ListUncovered(p) \/ Enqueued(p)
             \/ \E x \in todo[p] : Interrupt(p, x) \/ Note(p, x) \/ Enqueue(p, x)
      PROVE  Still(o)
  BY <1>1, <1>2, <1>5
  DEF Start, Requeue, Recovered, Tick, Skip, AdvanceCursor, Discovered, ListUncovered,
      Enqueued, Interrupt, Note, Enqueue, Still
<1>6. ASSUME \/ BeginDrain(p) \/ FailRun(p) \/ QueueActions(p) \/ RecordResult(p)
             \/ Charge(p) \/ Finish(p) \/ Drained(p)
             \/ \E x \in todo[p] : PassOver(p, x) \/ Take(p, x)
      PROVE  Still(o)
  BY <1>1, <1>2, <1>3, <1>4, <1>6
  DEF BeginDrain, FailRun, QueueActions, RecordResult, Charge, Finish, Drained,
      PassOver, Take, Still
<1>7. ASSUME AdvanceStage(p) PROVE Still(o)
  BY <1>1, <1>3, <1>7 DEF AdvanceStage, Still
<1>8. ASSUME BreakDiscovery(p) \/ Crash(p) PROVE Still(o)
  BY <1>2, <1>3, <1>8 DEF BreakDiscovery, Crash
<1>9. QED
  BY <1>5, <1>6, <1>7, <1>8 DEF Work

LEMMA ProcessSteps ==
  ASSUME TypeOK, [Next]_vars, NEW q \in Procs
  PROVE  ProcessStep(q)
<1>1. /\ \A stage : Goto(q, stage) => pc'[q] = stage
      /\ \A x : Hold(q, x) => cur'[q] = x
      /\ \A stage : Leave(q, stage) => pc'[q] = stage
      /\ Stop(q) => pc'[q] = "starting"
  BY DEF TypeOK, Goto, Hold, Leave, Stop
<1>2. ASSUME \/ Start(q) \/ Requeue(q) \/ Recovered(q) \/ Tick(q) \/ Skip(q)
             \/ AdvanceCursor(q) \/ Discovered(q) \/ ListUncovered(q) \/ Enqueued(q)
             \/ BeginDrain(q) \/ FailRun(q) \/ Drained(q)
             \/ BreakDiscovery(q) \/ Crash(q) \/ Finish(q)
             \/ \E x \in todo[q] : Interrupt(q, x) \/ Note(q, x)
      PROVE  pc'[q] \notin AtWork
  <2>1. PICK stage \in {"starting", "recovering", "requeueing", "idle", "noting", "skipping",
                        "advancing", "listing", "enqueuing", "checking", "draining"} :
          Goto(q, stage) \/ Leave(q, stage)
    BY <1>2, NotedNextStage
    DEF Start, Requeue, Recovered, Tick, Skip, AdvanceCursor, Discovered, ListUncovered,
        Enqueued, BeginDrain, FailRun, Drained, BreakDiscovery, Crash, Finish, Interrupt,
        Note, Stop
  <2>2. pc'[q] = stage
    BY <2>1, <1>1
  <2>3. QED
    BY <2>2 DEF AtWork, Working
<1>3. ASSUME NEW x \in todo[q], Enqueue(q, x) \/ PassOver(q, x) PROVE Still(q)
  BY <1>3 DEF Enqueue, PassOver, Still
<1>4. ASSUME NEW x \in todo[q], Take(q, x) PROVE ProcessStep(q)
  <2>1. x \in DOMAIN runs /\ \A o \in Procs \ {q} : Still(o)
    BY <1>4, OthersStill DEF Take, Await, TypeOK, LocalsOK, Work
  <2>2. CASE runs[x].status = "queued"
    <3>1. SetStatus(x, "preparing") /\ Begin(q, x) /\ "preparing" \in Statuses
      BY <1>4, <2>2 DEF Take, Statuses, Live, Working
    <3>2. runs'[x].status = "preparing"
      BY <2>1, <3>1, SetStatusRow DEF TypeOK
    <3>3. pc'[q] = "preparing" /\ cur'[q] = x
      BY <1>1, <3>1 DEF Begin
    <3>4. QED
      BY <2>1, <2>2, <3>2, <3>3 DEF Took, ProcessStep
  <2>3. CASE runs[x].status # "queued"
    BY <1>1, <1>4, <2>3 DEF Take, ProcessStep, AtWork, Working
  <2>4. QED
    BY <2>2, <2>3
<1>5. ASSUME AdvanceStage(q) PROVE ProcessStep(q)
  <2>1. pc[q] \in {"preparing", "reviewing", "synthesizing"}
    BY <1>5 DEF AdvanceStage, Await, Working
  <2>2. CASE runs[cur[q]].status = pc[q]
    <3>1. Goto(q, After(pc[q])) /\ UNCHANGED cur
      BY <1>5, <2>2 DEF AdvanceStage
    <3>2. pc'[q] \in Working /\ pc[q] \in Working
      BY <1>1, <2>1, <3>1 DEF After, Working
    <3>3. QED
      BY <3>1, <3>2 DEF Progressed, ProcessStep
  <2>3. CASE runs[cur[q]].status # pc[q]
    BY <1>1, <1>5, <2>3 DEF AdvanceStage, ProcessStep, AtWork, Working
  <2>4. QED
    BY <2>2, <2>3
<1>6. ASSUME QueueActions(q) PROVE ProcessStep(q)
  <2>1. pc[q] = "publishing" /\ pc[q] \in AtWork
    BY <1>6 DEF QueueActions, Await, AtWork, Working
  <2>2. runs[cur[q]].change \in Changes
    BY <2>1, AtWorkLocals
  <2>3. CASE Stop(q)
    BY <1>1, <2>3 DEF ProcessStep, AtWork, Working
  <2>4. CASE ~Stop(q)
    <3>1. /\ Goto(q, "recording") /\ UNCHANGED <<cur, result>>
          /\ \/ result[q] # "inbox"
             \/ filer' = [filer EXCEPT ![runs[cur[q]].change] = cur[q]]
      BY <1>6, <2>4 DEF QueueActions
    <3>2. result[q] # "inbox" \/ filer'[runs[cur[q]].change] = cur[q]
      BY <2>2, <3>1 DEF TypeOK
    <3>3. pc'[q] = "recording"
      BY <1>1, <3>1
    <3>4. QED
      BY <2>1, <3>1, <3>2, <3>3 DEF Progressed, ProcessStep
  <2>5. QED
    BY <2>3, <2>4
<1>7. ASSUME RecordResult(q) PROVE ProcessStep(q)
  BY <1>1, <1>7 DEF RecordResult, Await, Progressed, ProcessStep
<1>8. ASSUME Charge(q) PROVE ProcessStep(q)
  <2>1. pc[q] = "charging" /\ pc[q] \in AtWork
    BY <1>8 DEF Charge, Await, AtWork
  <2>2. cur[q] \in DOMAIN runs /\ runs[cur[q]] \in Run
    BY <2>1, AtWorkLocals, ChangeOfRow
  <2>3. runs' = [runs EXCEPT ![cur[q]] = [runs[cur[q]] EXCEPT !.charged = TRUE]]
    BY <1>8 DEF Charge
  <2>4. runs'[cur[q]] = [runs[cur[q]] EXCEPT !.charged = TRUE]
    BY <2>2, <2>3 DEF TypeOK
  <2>5. runs'[cur[q]].charged
    BY <2>2, <2>4 DEF Run
  <2>6. QED
    BY <1>1, <1>8, <2>1, <2>5 DEF Charge, Progressed, ProcessStep
<1>9. ASSUME Work(q) \/ BreakDiscovery(q) \/ Crash(q) PROVE ProcessStep(q)
  BY <1>9, <1>2, <1>3, <1>4, <1>5, <1>6, <1>7, <1>8 DEF Work, ProcessStep
<1>10. ASSUME NEW p \in Procs, p # q, Work(p) \/ BreakDiscovery(p) \/ Crash(p)
       PROVE  ProcessStep(q)
  BY <1>10, OthersStill DEF ProcessStep
<1>11. ASSUME \/ \E i \in DOMAIN runs : RetryRun(i) \/ Vacuum(i)
              \/ SetPaused \/ \E r \in Repos : SetHeld(r)
              \/ UNCHANGED vars
       PROVE  ProcessStep(q)
  BY <1>11 DEF RetryRun, Vacuum, SetPaused, SetHeld, vars, ProcessStep, Still
<1>12. QED
  BY <1>9, <1>10, <1>11 DEF Next

-----------------------------------------------------------------------------
(* The invariant is inductive, part by part.                               *)

\* Processes and their runs.
LEMMA TakenInductive ==
  ASSUME TypeOK, RunInv, [Next]_vars
  PROVE  Taken' /\ OneWorkerPerRun'
<1>1. \A q \in Procs : pc[q] \in AtWork => cur[q] \in DOMAIN runs /\ runs[cur[q]].status # "queued"
  BY AtWorkLocals DEF RunInv, Taken
<1>2. \A i \in DOMAIN runs : runs[i].status # "queued" => runs'[i].status # "queued"
  BY TableSteps, RowSteps DEF RowStep
<1>3. ASSUME NEW q \in Procs, pc'[q] \in AtWork
      PROVE  Took(q) \/ (pc[q] \in AtWork /\ cur'[q] = cur[q])
  BY <1>3, ProcessSteps DEF ProcessStep, Still, Progressed, AtWork, Working
<1>4. Taken'
  BY <1>1, <1>2, <1>3 DEF Taken, Took
<1>5. ASSUME NEW p \in Procs, NEW q \in Procs, p # q,
             pc'[p] \in AtWork, pc'[q] \in AtWork, cur'[p] = cur'[q], Took(p)
      PROVE  FALSE
  <2>1. pc[q] \in AtWork /\ cur'[q] = cur[q]
    BY <1>5 DEF Took, Still
  <2>2. QED
    BY <2>1, <1>1, <1>5 DEF Took
<1>6. OneWorkerPerRun'
  <2> SUFFICES ASSUME NEW p \in Procs, NEW q \in Procs, p # q,
                      pc'[p] \in AtWork, pc'[q] \in AtWork, cur'[p] = cur'[q]
               PROVE  FALSE
    BY DEF OneWorkerPerRun
  <2>1. pc[p] \in AtWork /\ cur'[p] = cur[p] /\ pc[q] \in AtWork /\ cur'[q] = cur[q]
    BY <1>3, <1>5
  <2>2. QED
    BY <2>1 DEF RunInv, OneWorkerPerRun
<1>7. QED
  BY <1>4, <1>6

\* The ledger.
LEMMA ChargedInductive ==
  ASSUME TypeOK, RunInv, [Next]_vars
  PROVE  ChargedLast' /\ FinishedIsCharged'
<1>1. /\ Kept
      /\ \A i \in DOMAIN runs : RowStep(i)
      /\ \A i \in DOMAIN runs' \ DOMAIN runs : runs'[i].status \in {"queued", "skipped"}
  BY TableSteps, RowSteps
<1>2. ChargedLast'
  <2> SUFFICES ASSUME NEW q \in Procs, pc'[q] = "finishing" PROVE runs'[cur'[q]].charged
    BY DEF ChargedLast
  <2>1. pc'[q] \in AtWork /\ pc'[q] \notin Working
    BY DEF AtWork, Working
  <2>2. CASE Still(q)
    <3>1. pc[q] \in AtWork /\ cur[q] \in DOMAIN runs /\ runs[cur[q]].charged
      BY <2>1, <2>2, AtWorkLocals DEF Still, RunInv, ChargedLast
    <3>2. QED
      BY <2>2, <3>1, <1>1 DEF Still, RowStep
  <2>3. CASE ~Still(q)
    BY <2>1, <2>3, ProcessSteps DEF ProcessStep, Took, Progressed
  <2>4. QED
    BY <2>2, <2>3
<1>3. FinishedIsCharged'
  <2> SUFFICES ASSUME NEW i \in DOMAIN runs', runs'[i].status \in {"done", "awaiting_approval"}
               PROVE  runs'[i].charged
    BY DEF FinishedIsCharged
  <2>1. i \in DOMAIN runs /\ RowStep(i)
    BY <1>1
  <2>2. QED
    BY <2>1 DEF RowStep, RunInv, FinishedIsCharged
<1>4. QED
  BY <1>2, <1>3

\* A run's hold on its change's fingerprint ends only with the run.
LEMMA HoldStays ==
  ASSUME TypeOK, [Next]_vars, NEW i \in DOMAIN runs, filer[runs[i].change] = i
  PROVE  filer'[runs[i].change] = i \/ runs'[i].status = "deleted"
<1>1. runs[i].change \in Changes /\ i # 0
  BY ChangeOfRow DEF TypeOK
<1>2. ASSUME UNCHANGED filer PROVE filer'[runs[i].change] = i
  BY <1>2
<1>3. ASSUME NEW p \in Procs, QueueActions(p) PROVE filer'[runs[i].change] = i
  <2>1. CASE UNCHANGED filer
    BY <2>1
  <2>2. CASE filer' # filer
    <3>1. /\ filer' = [filer EXCEPT ![runs[cur[p]].change] = cur[p]]
          /\ filer[runs[cur[p]].change] = 0
      BY <1>3, <2>2 DEF QueueActions
    <3>2. runs[i].change # runs[cur[p]].change
      BY <1>1, <3>1
    <3>3. QED
      BY <1>1, <3>1, <3>2 DEF TypeOK
  <2>3. QED
    BY <2>1, <2>2
<1>4. ASSUME NEW k \in DOMAIN runs, Vacuum(k)
      PROVE  filer'[runs[i].change] = i \/ runs'[i].status = "deleted"
  <2>1. CASE i <= k /\ runs[i].finished
    BY <1>4, <2>1, VacuumRows DEF TypeOK
  <2>2. CASE ~(i <= k /\ runs[i].finished)
    BY <1>1, <1>4, <2>2 DEF Vacuum, TypeOK
  <2>3. QED
    BY <2>1, <2>2
<1>5. ASSUME NEW p \in Procs, Work(p), ~QueueActions(p) PROVE UNCHANGED filer
  BY <1>5
  DEF Work, Start, Requeue, Recovered, Tick, Skip, AdvanceCursor, Discovered, ListUncovered,
      Enqueued, BeginDrain, AdvanceStage, FailRun, RecordResult, Charge, Finish, Drained,
      Interrupt, Note, Enqueue, PassOver, Take, tables
<1>6. ASSUME \/ \E p \in Procs : BreakDiscovery(p) \/ Crash(p)
             \/ \E k \in DOMAIN runs : RetryRun(k)
             \/ SetPaused \/ \E r \in Repos : SetHeld(r)
      PROVE  UNCHANGED filer
  BY <1>6 DEF BreakDiscovery, Crash, RetryRun, SetPaused, SetHeld, vars, tables
<1>7. CASE \E p \in Procs : Work(p)
  BY <1>7, <1>2, <1>3, <1>5
<1>8. CASE UNCHANGED vars
  BY <1>8, <1>2 DEF vars, tables
<1>9. QED
  BY <1>2, <1>4, <1>6, <1>7, <1>8 DEF Next

\* The inbox.
LEMMA AwaitingInductive ==
  ASSUME TypeOK, RunInv, [Next]_vars
  PROVE  ActionHeld' /\ AwaitingHasAction'
<1>1. /\ Kept
      /\ \A i \in DOMAIN runs : RowStep(i)
      /\ \A i \in DOMAIN runs' \ DOMAIN runs : runs'[i].status \in {"queued", "skipped"}
  BY TableSteps, RowSteps
<1>2. \A i \in DOMAIN runs : runs[i].status = "deleted" => runs'[i].status = "deleted"
  BY <1>1 DEF RowStep, Live, Working
<1>3. ActionHeld'
  <2> SUFFICES ASSUME NEW q \in Procs,
                      pc'[q] \in {"recording", "charging", "finishing"}, result'[q] = "inbox"
               PROVE  \/ filer'[runs'[cur'[q]].change] = cur'[q]
                      \/ runs'[cur'[q]].status = "deleted"
    BY DEF ActionHeld
  <2>1. pc'[q] \in AtWork /\ pc'[q] \notin Working
    BY DEF AtWork, Working
  <2>2. CASE pc[q] \in {"recording", "charging", "finishing"} /\ cur'[q] = cur[q] /\ result'[q] = result[q]
    <3>1. cur[q] \in DOMAIN runs
      BY <2>2, AtWorkLocals DEF AtWork
    <3>2. filer[runs[cur[q]].change] = cur[q] \/ runs[cur[q]].status = "deleted"
      BY <2>2 DEF RunInv, ActionHeld
    <3>3. runs'[cur[q]].change = runs[cur[q]].change
      BY <1>1, <3>1 DEF Kept
    <3>4. QED
      BY <1>2, <2>2, <3>1, <3>2, <3>3, HoldStays
  <2>3. CASE /\ pc[q] = "publishing" /\ cur'[q] = cur[q]
             /\ filer'[runs[cur[q]].change] = cur[q]
    <3>1. cur[q] \in DOMAIN runs
      BY <2>3, AtWorkLocals DEF AtWork, Working
    <3>2. QED
      BY <1>1, <2>3, <3>1 DEF Kept
  <2>4. QED
    BY <2>1, <2>2, <2>3, ProcessSteps DEF ProcessStep, Still, Took, Progressed, Working
<1>4. AwaitingHasAction'
  <2> SUFFICES ASSUME NEW i \in DOMAIN runs', runs'[i].status = "awaiting_approval"
               PROVE  filer'[runs'[i].change] = i
    BY DEF AwaitingHasAction
  <2>1. i \in DOMAIN runs /\ RowStep(i) /\ runs'[i].change = runs[i].change
    BY <1>1 DEF Kept
  <2>2. CASE runs[i].status = "awaiting_approval"
    BY <2>1, <2>2, HoldStays DEF RunInv, AwaitingHasAction
  <2>3. CASE runs[i].status # "awaiting_approval"
    BY <2>1, <2>3 DEF RowStep
  <2>4. QED
    BY <2>2, <2>3
<1>5. QED
  BY <1>3, <1>4

\* Recovery re-queues only runs that are over.
LEMMA RequeuedIsOver ==
  ASSUME TypeOK, RunInv, Lineage, [Next]_vars, UNCHANGED vacuums, NEW q \in Procs,
         pc'[q] = "requeueing"
  PROVE  cur'[q] \in DOMAIN runs /\ runs'[cur'[q]].status \in Terminal
<1>1. \A i \in DOMAIN runs :
        runs[i].status # "deleted" /\ runs'[i].status # "deleted"
  BY TableSteps, RowSteps DEF Lineage
<1>2. ASSUME Still(q) PROVE cur'[q] \in DOMAIN runs /\ runs'[cur'[q]].status \in Terminal
  <2>1. pc[q] = "requeueing" /\ cur'[q] = cur[q] /\ cur[q] \in DOMAIN runs
    BY <1>2 DEF Still, TypeOK, LocalsOK
  <2>2. runs[cur[q]].status \in Terminal
    BY <2>1 DEF Lineage
  <2>3. QED
    BY <1>1, <2>1, <2>2, OverStaysOver, TableSteps
<1>3. ASSUME NEW x \in todo[q], Interrupt(q, x)
      PROVE  cur'[q] \in DOMAIN runs /\ runs'[cur'[q]].status \in Terminal
  <2>1. x \in DOMAIN runs /\ cur'[q] = x
    BY <1>3 DEF Interrupt, Await, Hold, TypeOK, LocalsOK
  <2>2. runs'[x].status =
          IF runs[x].status \in Live THEN "failed" ELSE runs[x].status
    BY <1>3, <2>1, MarkRow DEF Interrupt, TypeOK
  <2>3. runs[x].status \in Statuses
    BY <2>1, ChangeOfRow DEF Run
  <2>4. QED
    BY <1>1, <2>1, <2>2, <2>3 DEF Statuses, Terminal
<1>4. /\ \A stage : Goto(q, stage) => pc'[q] = stage
      /\ \A stage : Leave(q, stage) => pc'[q] = stage
      /\ Stop(q) => pc'[q] = "starting"
  BY DEF TypeOK, Goto, Leave, Stop
<1>5. ASSUME \/ Start(q) \/ Requeue(q) \/ Recovered(q) \/ Tick(q) \/ Skip(q)
             \/ AdvanceCursor(q) \/ Discovered(q) \/ ListUncovered(q) \/ Enqueued(q)
             \/ BeginDrain(q) \/ FailRun(q) \/ QueueActions(q) \/ RecordResult(q)
             \/ Charge(q) \/ Drained(q) \/ BreakDiscovery(q) \/ Crash(q) \/ Finish(q)
             \/ \E x \in todo[q] : Note(q, x)
      PROVE  FALSE
  <2>1. PICK stage \in Stages \ {"requeueing"} : Goto(q, stage) \/ Leave(q, stage)
    BY <1>5, NotedNextStage
    DEF Start, Requeue, Recovered, Tick, Skip, AdvanceCursor, Discovered, ListUncovered,
        Enqueued, BeginDrain, FailRun, QueueActions, RecordResult, Charge, Drained,
        BreakDiscovery, Crash, Finish, Note, Stop, Stages
  <2>2. QED
    BY <1>4, <2>1
<1>6. ASSUME AdvanceStage(q) PROVE FALSE
  <2>1. pc[q] \in {"preparing", "reviewing", "synthesizing"}
    BY <1>6 DEF AdvanceStage, Await, Working
  <2>2. QED
    BY <1>4, <1>6, <2>1 DEF AdvanceStage, After
<1>7. ASSUME NEW x \in todo[q], Take(q, x) PROVE FALSE
  BY <1>4, <1>7 DEF Take, Begin
<1>8. ASSUME NEW x \in todo[q], Enqueue(q, x) \/ PassOver(q, x) PROVE Still(q)
  BY <1>8 DEF Enqueue, PassOver, Still
<1>9. ASSUME NEW p \in Procs, Work(p) \/ BreakDiscovery(p) \/ Crash(p)
      PROVE  cur'[q] \in DOMAIN runs /\ runs'[cur'[q]].status \in Terminal
  <2>1. CASE p # q
    BY <1>2, <1>9, <2>1, OthersStill
  <2>2. CASE p = q
    BY <1>2, <1>3, <1>5, <1>6, <1>7, <1>8, <1>9, <2>2 DEF Work
  <2>3. QED
    BY <2>1, <2>2
<1>10. ASSUME \/ \E i \in DOMAIN runs : RetryRun(i) \/ Vacuum(i)
              \/ SetPaused \/ \E r \in Repos : SetHeld(r)
              \/ UNCHANGED vars
       PROVE  Still(q)
  BY <1>10 DEF RetryRun, Vacuum, SetPaused, SetHeld, vars, Still
<1>11. QED
  BY <1>2, <1>9, <1>10 DEF Next

\* Rows that are kept undeleted keep what exists.
ExistsNext(c, n) ==
  \E i \in DOMAIN runs' :
    runs'[i].change = c /\ runs'[i].attempt = n /\ runs'[i].status # "deleted"

LEMMA ExistsStays ==
  ASSUME Kept, NEW c, NEW n, Exists(c, n),
         \A i \in DOMAIN runs : runs'[i].status = "deleted" => runs[i].status = "deleted"
  PROVE  ExistsNext(c, n)
BY DEF Kept, Exists, Rows, ExistsNext

\* The attempts of each change, after the step.
LineageNext ==
  /\ \A i \in DOMAIN runs' : runs'[i].status # "deleted"
  /\ \A i \in DOMAIN runs' : \A n \in 1..runs'[i].attempt : ExistsNext(runs'[i].change, n)
  /\ \A i, j \in DOMAIN runs' : runs'[i].change = runs'[j].change =>
       /\ runs'[i].attempt = runs'[j].attempt => i = j
       /\ runs'[i].attempt < runs'[j].attempt => runs'[i].status \in Terminal

LEMMA LineageInserted ==
  ASSUME TypeOK, Lineage, NEW r \in Run, Inserted(r)
  PROVE  LineageNext
<1> DEFINE new == Len(runs) + 1
<1>1. /\ Kept
      /\ DOMAIN runs' = DOMAIN runs \cup {new}
      /\ new \notin DOMAIN runs
      /\ \A i \in DOMAIN runs : runs'[i] = runs[i]
      /\ runs'[new] = r
  BY AppendRow DEF TypeOK, Inserted
<1> HIDE DEF new
<1>2. \A i \in DOMAIN runs : runs[i].attempt \in Nat \ {0}
  BY ChangeOfRow DEF Run
<1>3. r.attempt \in Nat \ {0}
  BY DEF Run
<1>4. \A i \in DOMAIN runs' : runs'[i].status # "deleted"
  BY <1>1 DEF Lineage, Inserted
<1>5. ASSUME NEW c, NEW n, Exists(c, n) PROVE ExistsNext(c, n)
  BY <1>1, <1>4, <1>5, ExistsStays
<1>6. ExistsNext(r.change, r.attempt)
  BY <1>1, <1>4 DEF ExistsNext
<1>7. r.attempt = 1 \/ \E k \in DOMAIN runs :
        /\ runs[k].change = r.change /\ r.attempt = runs[k].attempt + 1
        /\ runs[k].status \in Terminal
  BY DEF Inserted, Lineage
<1>8. \A n \in 1..r.attempt : ExistsNext(r.change, n)
  <2> SUFFICES ASSUME NEW n \in 1..r.attempt, n # r.attempt PROVE ExistsNext(r.change, n)
    BY <1>6
  <2>1. PICK k \in DOMAIN runs : runs[k].change = r.change /\ r.attempt = runs[k].attempt + 1
    BY <1>3, <1>7
  <2>2. n \in 1..runs[k].attempt
    BY <1>2, <1>3, <2>1
  <2>3. Exists(r.change, n)
    BY <2>1, <2>2 DEF Lineage
  <2>4. QED
    BY <1>5, <2>3
<1>9. \A i \in DOMAIN runs' : \A n \in 1..runs'[i].attempt : ExistsNext(runs'[i].change, n)
  <2> SUFFICES ASSUME NEW i \in DOMAIN runs', NEW n \in 1..runs'[i].attempt
               PROVE  ExistsNext(runs'[i].change, n)
    OBVIOUS
  <2>1. CASE i = new
    BY <1>1, <1>8, <2>1
  <2>2. CASE i \in DOMAIN runs
    <3>1. Exists(runs[i].change, n)
      BY <1>1, <2>2 DEF Lineage
    <3>2. QED
      BY <1>1, <1>5, <2>2, <3>1
  <2>3. QED
    BY <1>1, <2>1, <2>2
<1>10. ASSUME NEW i \in DOMAIN runs, runs[i].change = r.change
       PROVE  /\ runs[i].attempt # r.attempt
              /\ ~(r.attempt < runs[i].attempt)
              /\ runs[i].attempt < r.attempt => runs[i].status \in Terminal
  <2>1. ~Exists(r.change, r.attempt) /\ runs[i].status # "deleted"
    BY DEF Inserted, Lineage
  <2>2. runs[i].attempt # r.attempt
    BY <1>10, <2>1 DEF Exists, Rows
  <2>3. ~(r.attempt < runs[i].attempt)
    <3> SUFFICES ASSUME r.attempt < runs[i].attempt PROVE FALSE
      OBVIOUS
    <3>1. r.attempt \in 1..runs[i].attempt
      BY <1>2, <1>3
    <3>2. QED
      BY <1>10, <2>1, <3>1 DEF Lineage
  <2>4. ASSUME runs[i].attempt < r.attempt PROVE runs[i].status \in Terminal
    <3>1. PICK k \in DOMAIN runs :
            /\ runs[k].change = r.change /\ r.attempt = runs[k].attempt + 1
            /\ runs[k].status \in Terminal
      BY <1>2, <1>7, <2>4
    <3>2. runs[i].attempt = runs[k].attempt \/ runs[i].attempt < runs[k].attempt
      BY <1>2, <2>4, <3>1
    <3>3. QED
      BY <1>10, <3>1, <3>2 DEF Lineage
  <2>5. QED
    BY <2>2, <2>3, <2>4
<1>11. \A i, j \in DOMAIN runs' : runs'[i].change = runs'[j].change =>
         /\ runs'[i].attempt = runs'[j].attempt => i = j
         /\ runs'[i].attempt < runs'[j].attempt => runs'[i].status \in Terminal
  <2> SUFFICES ASSUME NEW i \in DOMAIN runs', NEW j \in DOMAIN runs',
                      runs'[i].change = runs'[j].change
               PROVE  /\ runs'[i].attempt = runs'[j].attempt => i = j
                      /\ runs'[i].attempt < runs'[j].attempt => runs'[i].status \in Terminal
    OBVIOUS
  <2>1. CASE i \in DOMAIN runs /\ j \in DOMAIN runs
    BY <1>1, <2>1 DEF Lineage
  <2>2. CASE i = new /\ j = new
    BY <1>1, <1>3, <2>2
  <2>3. CASE i \in DOMAIN runs /\ j = new
    BY <1>1, <1>10, <2>3
  <2>4. CASE i = new /\ j \in DOMAIN runs
    <3>1. runs[j].change = r.change /\ runs'[i] = r /\ runs'[j] = runs[j]
      BY <1>1, <2>4
    <3>2. QED
      BY <1>10, <2>4, <3>1
  <2>5. QED
    BY <1>1, <2>1, <2>2, <2>3, <2>4
<1>12. QED
  BY <1>4, <1>9, <1>11 DEF LineageNext

LEMMA LineageInductive ==
  ASSUME TypeOK, RunInv, [Next]_vars, vacuums' = 0
  PROVE  Lineage'
<1>1. ~\E k \in DOMAIN runs : Vacuum(k)
  BY DEF Vacuum, TypeOK
<1>2. TableStep /\ UNCHANGED vacuums
  BY <1>1, TableSteps DEF TableStep
<1>3. Lineage
  BY <1>2 DEF RunInv
<1>4. \A p \in Procs : pc'[p] = "requeueing" => runs'[cur'[p]].status \in Terminal
  BY <1>2, <1>3, RequeuedIsOver
<1>5. ASSUME \E r \in Run : Inserted(r) PROVE LineageNext
  BY <1>3, <1>5, LineageInserted
<1>6. ASSUME ~\E r \in Run : Inserted(r) PROVE LineageNext
  <2>1. DOMAIN runs' = DOMAIN runs
    <3>1. runs \in Seq(Run)
      BY DEF TypeOK
    <3>2. ASSUME NEW i \in DOMAIN runs, NEW s \in Statuses, Moved(i, s)
          PROVE  DOMAIN runs' = DOMAIN runs
      BY <3>1, <3>2, SetStatusRow DEF Moved
    <3>3. ASSUME NEW i \in DOMAIN runs, Flagged(i) PROVE DOMAIN runs' = DOMAIN runs
      BY <3>1, <3>3, FlagRow DEF Flagged
    <3>4. QED
      BY <1>1, <1>2, <1>6, <3>2, <3>3 DEF TableStep
  <2>2. /\ Kept
        /\ \A i \in DOMAIN runs : runs'[i].status = "deleted" => runs[i].status = "deleted"
    BY <1>2, RowSteps
  <2>3. \A i \in DOMAIN runs : runs'[i].status # "deleted"
    BY <1>3, <2>2 DEF Lineage
  <2>4. \A i \in DOMAIN runs : runs[i].status \in Terminal => runs'[i].status \in Terminal
    BY <1>2, <2>3, OverStaysOver
  <2>5. ASSUME NEW i \in DOMAIN runs, NEW n \in 1..runs[i].attempt
        PROVE  ExistsNext(runs[i].change, n)
    BY <1>3, <2>2, ExistsStays DEF Lineage
  <2>6. \A i \in DOMAIN runs' : \A n \in 1..runs'[i].attempt : ExistsNext(runs'[i].change, n)
    BY <2>1, <2>2, <2>5 DEF Kept
  <2>7. ASSUME NEW i \in DOMAIN runs', NEW j \in DOMAIN runs', runs'[i].change = runs'[j].change
        PROVE  /\ runs'[i].attempt = runs'[j].attempt => i = j
               /\ runs'[i].attempt < runs'[j].attempt => runs'[i].status \in Terminal
    <3>1. /\ runs[i].change = runs[j].change
          /\ runs'[i].attempt = runs[i].attempt /\ runs'[j].attempt = runs[j].attempt
      BY <2>1, <2>2, <2>7 DEF Kept
    <3>2. QED
      BY <1>3, <2>1, <2>4, <3>1 DEF Lineage
  <2>8. QED
    BY <2>1, <2>3, <2>6, <2>7 DEF LineageNext
<1>7. LineageNext
  BY <1>5, <1>6
<1>8. QED
  BY <1>4, <1>7 DEF Lineage, LineageNext, Exists, Rows, ExistsNext

LEMMA RunInductive == TypeOK /\ RunInv /\ [Next]_vars => RunInv'
<1> SUFFICES ASSUME TypeOK, RunInv, [Next]_vars PROVE RunInv'
  OBVIOUS
<1>1. (vacuums = 0 => Lineage)'
  BY LineageInductive
<1>2. QED
  BY <1>1, TakenInductive, ChargedInductive, AwaitingInductive DEF RunInv

LEMMA RunInvariant == Spec => [](TypeOK /\ RunInv)
<1>1. Init => RunInv
  BY DEF Init, RunInv, Taken, OneWorkerPerRun, ChargedLast, FinishedIsCharged, ActionHeld,
         AwaitingHasAction, Lineage, AtWork, Working
<1>2. Spec => []TypeOK
  BY TypeCorrect
<1>3. QED
  BY <1>1, <1>2, RunInductive, PTL DEF Spec

-----------------------------------------------------------------------------
(* The safety properties.                                                  *)

\* No two processes ever review the same run.
THEOREM OneWorker == Spec => []OneWorkerPerRun
<1>1. RunInv => OneWorkerPerRun
  BY DEF RunInv
<1>2. QED
  BY <1>1, RunInvariant, PTL

\* A change has at most one run that is not over, before any vacuum.
THEOREM OneLive == Spec => []OneLiveRun
<1>1. TypeOK /\ RunInv => OneLiveRun
  <2> SUFFICES ASSUME TypeOK, RunInv, vacuums = 0, NEW i \in DOMAIN runs, NEW j \in DOMAIN runs,
                      runs[i].change = runs[j].change,
                      runs[i].status \in Live, runs[j].status \in Live
               PROVE  i = j
    BY DEF OneLiveRun
  <2>1. runs[i].status \notin Terminal /\ runs[j].status \notin Terminal
    BY DEF Live, Working, Terminal
  <2>2. runs[i].attempt \in Nat /\ runs[j].attempt \in Nat
    BY ChangeOfRow DEF Run
  <2>3. Lineage
    BY DEF RunInv
  <2>4. ~(runs[i].attempt < runs[j].attempt) /\ ~(runs[j].attempt < runs[i].attempt)
    BY <2>1, <2>3 DEF Lineage
  <2>5. QED
    BY <2>2, <2>3, <2>4 DEF Lineage
<1>2. QED
  BY <1>1, RunInvariant, PTL

\* A run that ended with a review is in the budget ledger.
THEOREM Charged == Spec => []FinishedIsCharged
<1>1. RunInv => FinishedIsCharged
  BY DEF RunInv
<1>2. QED
  BY <1>1, RunInvariant, PTL

\* A run that awaits approval has an action of its own in the inbox.
THEOREM Decidable == Spec => []AwaitingHasAction
<1>1. RunInv => AwaitingHasAction
  BY DEF RunInv
<1>2. QED
  BY <1>1, RunInvariant, PTL

\* What a review leaves behind is on the books by the time its run says so.
THEOREM Booked == Spec => []OnTheBooks
<1>1. RunInv => OnTheBooks
  BY DEF RunInv, OnTheBooks
<1>2. QED
  BY <1>1, RunInvariant, PTL

\* A run that is over is never moved again.
THEOREM OverIsOver == Spec => TerminalIsFinal
<1>1. TypeOK /\ RunInv /\ [Next]_vars =>
        [\A i \in DOMAIN runs :
           runs[i].status \in Terminal => runs'[i].status \in {runs[i].status, "deleted"}]_vars
  BY TableSteps, OverStaysOver
<1>2. QED
  BY <1>1, RunInvariant, PTL DEF Spec, TerminalIsFinal
-----------------------------------------------------------------------------
(* What the skip rules exclude.                                            *)

\* One loop runs: the property is about one.
OneLoop == \E p \in Procs : Procs = {p}

\* An excluded change is covered from the moment it is written down, but for the
\* time between the two statements; so the loop never lists it for queueing.
SkippedFirst ==
  \A i \in DOMAIN runs :
    runs[i].change \in Unwanted /\ runs[i].attempt = 1 => runs[i].status = "skipped"
SkipNoted ==
  \A c \in known \cap Unwanted :
    Covered(c) \/ \E p \in Procs : pc[p] = "skipping" /\ cur[p] = c
QueueWanted == \A p \in Procs : pc[p] = "enqueuing" => todo[p] \cap Unwanted = {}
SkipInv == mishaps = 0 /\ vacuums = 0 => SkippedFirst /\ SkipNoted /\ QueueWanted

\* What is covered stays covered while nothing is deleted.
LEMMA CoveredStays ==
  ASSUME Kept, NEW c, Covered(c),
         \A i \in DOMAIN runs : runs'[i].status = "deleted" => runs[i].status = "deleted"
  PROVE  Covered(c)'
BY DEF Kept, Covered, Rows

\* The rows a step adds: one for an excluded change is a retry, or skipped.
NewRowsSkipped ==
  \A i \in DOMAIN runs' \ DOMAIN runs :
    runs'[i].change \in Unwanted /\ runs'[i].attempt = 1 => runs'[i].status = "skipped"

LEMMA AppendSkipped ==
  ASSUME TypeOK, NEW r \in Run, runs' = Append(runs, r),
         r.change \in Unwanted /\ r.attempt = 1 => r.status = "skipped"
  PROVE  NewRowsSkipped
<1>1. runs \in Seq(Run)
  BY DEF TypeOK
<1>2. DOMAIN runs' = DOMAIN runs \cup {Len(runs) + 1} /\ runs'[Len(runs) + 1] = r
  BY <1>1, AppendRow
<1> QED
  BY <1>2 DEF NewRowsSkipped

LEMMA AppendSuccessor ==
  ASSUME TypeOK, NEW i \in DOMAIN runs, runs' = Append(runs, Successor(i))
  PROVE  NewRowsSkipped
<1>1. runs \in Seq(Run) /\ runs[i].attempt \in Nat \ {0}
  BY ChangeOfRow DEF TypeOK, Run
<1>2. Successor(i) \in Run /\ Successor(i).attempt = runs[i].attempt + 1
  BY <1>1, SuccessorType
<1>3. Successor(i).attempt # 1
  BY <1>1, <1>2
<1> QED
  BY <1>2, <1>3, AppendSkipped

LEMMA SameRowsSkipped == DOMAIN runs' = DOMAIN runs => NewRowsSkipped
BY DEF NewRowsSkipped

LEMMA NewRowsAreSkipped ==
  ASSUME TypeOK, QueueWanted, [Next]_vars
  PROVE  NewRowsSkipped
<1>1. ASSUME NEW p \in Procs, Requeue(p) PROVE NewRowsSkipped
  <2>1. cur[p] \in DOMAIN runs
    BY <1>1 DEF Requeue, Await, TypeOK, LocalsOK
  <2> QED
    BY <1>1, <2>1, AppendSuccessor, SameRowsSkipped DEF Requeue
<1>2. ASSUME NEW p \in Procs, Skip(p) PROVE NewRowsSkipped
  <2>1. cur[p] \in Changes
    BY <1>2 DEF Skip, Await, TypeOK, LocalsOK
  <2>2. "skipped" \in Statuses
    BY DEF Statuses, Terminal
  <2>3. NewRun(cur[p], 1, "skipped") \in Run
    BY <2>1, <2>2, NewRunType
  <2>4. NewRun(cur[p], 1, "skipped").status = "skipped"
    BY DEF NewRun
  <2> QED
    BY <1>2, <2>3, <2>4, AppendSkipped, SameRowsSkipped DEF Skip
<1>3. ASSUME NEW p \in Procs, NEW c \in todo[p], Enqueue(p, c) PROVE NewRowsSkipped
  <2>1. c \in Changes /\ c \notin Unwanted
    BY <1>3 DEF Enqueue, Await, TypeOK, LocalsOK, QueueWanted
  <2>2. "queued" \in Statuses
    BY DEF Statuses, Live
  <2>3. NewRun(c, 1, "queued") \in Run
    BY <2>1, <2>2, NewRunType
  <2>4. NewRun(c, 1, "queued").change = c
    BY DEF NewRun
  <2> QED
    BY <1>3, <2>1, <2>3, <2>4, AppendSkipped, SameRowsSkipped DEF Enqueue
<1>4. ASSUME NEW i \in DOMAIN runs, RetryRun(i) PROVE NewRowsSkipped
  BY <1>4, AppendSuccessor DEF RetryRun
<1>5. ASSUME NEW p \in Procs,
             \/ Start(p) \/ Recovered(p) \/ Tick(p) \/ AdvanceCursor(p) \/ Discovered(p)
             \/ ListUncovered(p) \/ Enqueued(p) \/ BeginDrain(p) \/ AdvanceStage(p)
             \/ FailRun(p) \/ QueueActions(p) \/ RecordResult(p) \/ Charge(p) \/ Finish(p)
             \/ Drained(p) \/ BreakDiscovery(p) \/ Crash(p)
             \/ \E x \in todo[p] : Interrupt(p, x) \/ Note(p, x) \/ PassOver(p, x) \/ Take(p, x)
      PROVE  NewRowsSkipped
  <2>1. DOMAIN runs' = DOMAIN runs
    BY <1>5 DEF Start, Recovered, Tick, AdvanceCursor, Discovered, ListUncovered, Enqueued,
                BeginDrain, AdvanceStage, FailRun, QueueActions, RecordResult, Charge, Finish,
                Drained, BreakDiscovery, Crash, Interrupt, Note, PassOver, Take, Mark, SetStatus
  <2> QED
    BY <2>1, SameRowsSkipped
<1>6. ASSUME \/ \E i \in DOMAIN runs : Vacuum(i)
             \/ SetPaused \/ \E r \in Repos : SetHeld(r)
             \/ UNCHANGED vars
      PROVE  NewRowsSkipped
  <2>1. DOMAIN runs' = DOMAIN runs
    BY <1>6 DEF Vacuum, SetPaused, SetHeld, vars
  <2> QED
    BY <2>1, SameRowsSkipped
<1>7. ASSUME NEW p \in Procs, Work(p) PROVE NewRowsSkipped
  BY <1>1, <1>2, <1>3, <1>5, <1>7 DEF Work
<1> QED
  BY <1>4, <1>5, <1>6, <1>7 DEF Next

\* A store error and a crash are counted, and so is a vacuum.
LEMMA NoMishapBefore ==
  ASSUME TypeOK, [Next]_vars, mishaps' = 0, vacuums' = 0
  PROVE  /\ mishaps = 0 /\ vacuums = 0
         /\ ~\E p \in Procs : BreakDiscovery(p) \/ Crash(p)
         /\ ~\E i \in DOMAIN runs : Vacuum(i)
<1>1. mishaps \in Nat /\ vacuums \in Nat
  BY LimitsAssumption DEF TypeOK
<1>2. /\ ~\E p \in Procs : BreakDiscovery(p) \/ Crash(p)
      /\ ~\E i \in DOMAIN runs : Vacuum(i)
  <2>1. mishaps' # mishaps + 1 /\ vacuums' # vacuums + 1
    BY <1>1
  <2>2. ASSUME NEW p \in Procs PROVE ~BreakDiscovery(p) /\ ~Crash(p)
    BY <2>1 DEF BreakDiscovery, Crash
  <2>3. ASSUME NEW i \in DOMAIN runs PROVE ~Vacuum(i)
    BY <2>1 DEF Vacuum
  <2> QED
    BY <2>2, <2>3
<1>3. ASSUME NEW p \in Procs, Work(p) PROVE UNCHANGED <<mishaps, vacuums>>
  BY <1>3 DEF Work, bounds, Start, Requeue, Recovered, Tick, Skip, AdvanceCursor, Discovered,
              ListUncovered, Enqueued, BeginDrain, AdvanceStage, FailRun, QueueActions,
              RecordResult, Charge, Finish, Drained, Interrupt, Note, Enqueue, PassOver, Take
<1>4. ASSUME \/ \E i \in DOMAIN runs : RetryRun(i)
             \/ SetPaused \/ \E r \in Repos : SetHeld(r)
             \/ UNCHANGED vars
      PROVE  UNCHANGED <<mishaps, vacuums>>
  BY <1>4 DEF RetryRun, SetPaused, SetHeld, vars, bounds
<1>5. UNCHANGED <<mishaps, vacuums>>
  BY <1>2, <1>3, <1>4 DEF Next
<1> QED
  BY <1>2, <1>5

\* The rows: those that were there keep a final status, and new ones are skipped.
LEMMA SkippedFirstInductive ==
  ASSUME TypeOK, RunInv, SkippedFirst, QueueWanted, [Next]_vars, vacuums' = 0, vacuums = 0
  PROVE  SkippedFirst'
<1>1. TableStep /\ Kept
  BY TableSteps, RowSteps
<1>2. \A i \in DOMAIN runs : runs'[i].status = "deleted" => runs[i].status = "deleted"
  BY <1>1, RowSteps
<1>3. \A i \in DOMAIN runs : runs[i].status = "skipped" => runs'[i].status = "skipped"
  BY <1>1, <1>2, OverStaysOver DEF Terminal
<1>4. ASSUME NEW i \in DOMAIN runs, runs'[i].change \in Unwanted, runs'[i].attempt = 1
      PROVE  runs'[i].status = "skipped"
  BY <1>1, <1>3, <1>4 DEF Kept, SkippedFirst
<1>5. NewRowsSkipped
  BY NewRowsAreSkipped
<1> QED
  BY <1>4, <1>5 DEF NewRowsSkipped, SkippedFirst

\* Where a step of the loop that is not at its second statement leaves it.
LEMMA SkipNotedInductive ==
  ASSUME OneLoop, TypeOK, RunInv, SkipNoted, [Next]_vars, mishaps' = 0, vacuums' = 0
  PROVE  SkipNoted'
<1>1. PICK p \in Procs : Procs = {p}
  BY DEF OneLoop
<1>2. Kept /\ \A i \in DOMAIN runs : runs'[i].status = "deleted" => runs[i].status = "deleted"
  BY NoMishapBefore, TableSteps, RowSteps
<1>3. \A c : Covered(c) => Covered(c)'
  BY <1>2, CoveredStays
<1>4. ASSUME Skip(p) PROVE SkipNoted'
  <2>1. known' = known /\ pc[p] = "skipping" /\ cur[p] \in Changes
    BY <1>4 DEF Skip, Await, tables, TypeOK, LocalsOK
  <2>2. ASSUME NEW c, c = cur[p] PROVE Covered(c)'
    <3>1. CASE Covered(c)
      BY <1>3, <3>1
    <3>2. CASE ~Covered(c)
      <4>1. runs' = Append(runs, NewRun(c, 1, "skipped")) /\ runs \in Seq(Run)
        BY <1>4, <2>2, <3>2 DEF Skip, TypeOK
      <4>2. "skipped" \in Statuses
        BY DEF Statuses, Terminal
      <4>3. NewRun(c, 1, "skipped") \in Run
        BY <2>1, <2>2, <4>2, NewRunType
      <4>4. Len(runs) + 1 \in DOMAIN runs' /\ runs'[Len(runs) + 1] = NewRun(c, 1, "skipped")
        BY <4>1, <4>3, AppendRow
      <4> QED
        BY <4>4 DEF Covered, Rows, NewRun
    <3> QED
      BY <3>1, <3>2
  <2>3. \A c \in known : c \in Unwanted => Covered(c)'
    BY <1>1, <1>3, <2>1, <2>2 DEF SkipNoted
  <2> QED
    BY <2>1, <2>3 DEF SkipNoted
<1>5. ASSUME NEW x \in todo[p], Note(p, x) PROVE SkipNoted'
  <2>1. known' = known \cup {x} /\ pc[p] = "noting" /\ cur'[p] = x
    BY <1>5 DEF Note, Await, Hold, TypeOK
  <2>2. x \in Unwanted => pc'[p] = "skipping"
    BY <1>5 DEF Note, Goto, TypeOK
  <2> QED
    BY <1>1, <1>3, <2>1, <2>2 DEF SkipNoted
<1>6. ASSUME known' = known, pc[p] # "skipping" PROVE SkipNoted'
  BY <1>1, <1>3, <1>6 DEF SkipNoted
<1>7. ASSUME known' = known, pc'[p] = pc[p], cur'[p] = cur[p] PROVE SkipNoted'
  BY <1>1, <1>3, <1>7 DEF SkipNoted
<1>8. ASSUME \/ Start(p) \/ Requeue(p) \/ Recovered(p) \/ Tick(p) \/ AdvanceCursor(p)
             \/ Discovered(p) \/ ListUncovered(p) \/ Enqueued(p) \/ BeginDrain(p)
             \/ AdvanceStage(p) \/ FailRun(p) \/ QueueActions(p) \/ RecordResult(p)
             \/ Charge(p) \/ Finish(p) \/ Drained(p)
             \/ \E x \in todo[p] : Interrupt(p, x) \/ Enqueue(p, x) \/ PassOver(p, x) \/ Take(p, x)
      PROVE  known' = known /\ pc[p] # "skipping"
  BY <1>8 DEF Start, Requeue, Recovered, Tick, AdvanceCursor, Discovered, ListUncovered,
              Enqueued, BeginDrain, AdvanceStage, FailRun, QueueActions, RecordResult, Charge,
              Finish, Drained, Interrupt, Enqueue, PassOver, Take, Await, tables, Working
<1>9. ASSUME Work(p) PROVE SkipNoted'
  BY <1>4, <1>5, <1>6, <1>8, <1>9 DEF Work
<1>10. ASSUME \/ \E i \in DOMAIN runs : RetryRun(i)
              \/ SetPaused \/ \E r \in Repos : SetHeld(r)
              \/ UNCHANGED vars
       PROVE  SkipNoted'
  <2>1. known' = known /\ pc'[p] = pc[p] /\ cur'[p] = cur[p]
    BY <1>10 DEF RetryRun, SetPaused, SetHeld, vars, tables
  <2> QED
    BY <1>7, <2>1
<1> QED
  BY <1>1, <1>9, <1>10, NoMishapBefore DEF Next

\* The listing finds every excluded change covered.
LEMMA QueueWantedInductive ==
  ASSUME OneLoop, TypeOK, SkipNoted, QueueWanted, [Next]_vars
  PROVE  QueueWanted'
<1>1. PICK p \in Procs : Procs = {p}
  BY DEF OneLoop
<1>2. ASSUME ListUncovered(p) PROVE QueueWanted'
  <2>1. pc[p] = "listing" /\ todo'[p] = {c \in known : ~Covered(c)}
    BY <1>2 DEF ListUncovered, Await, Pending, TypeOK
  <2> QED
    BY <1>1, <2>1 DEF QueueWanted, SkipNoted
<1>3. ASSUME pc'[p] = pc[p], todo'[p] \subseteq todo[p] PROVE QueueWanted'
  BY <1>1, <1>3 DEF QueueWanted
<1>4. ASSUME pc'[p] # "enqueuing" PROVE QueueWanted'
  BY <1>1, <1>4 DEF QueueWanted
<1>5. ASSUME NEW x \in todo[p], Enqueue(p, x) \/ PassOver(p, x)
      PROVE  pc'[p] = pc[p] /\ todo'[p] \subseteq todo[p]
  BY <1>5 DEF Enqueue, PassOver, Pop, Pending, TypeOK
<1>6. /\ \A stage : Goto(p, stage) => pc'[p] = stage
      /\ \A stage : Leave(p, stage) => pc'[p] = stage
      /\ Stop(p) => pc'[p] = "starting"
  BY DEF TypeOK, Goto, Leave, Stop
<1>7. ASSUME \/ Start(p) \/ Requeue(p) \/ Recovered(p) \/ Tick(p) \/ Skip(p)
             \/ AdvanceCursor(p) \/ Discovered(p) \/ Enqueued(p)
             \/ BeginDrain(p) \/ FailRun(p) \/ QueueActions(p) \/ RecordResult(p)
             \/ Charge(p) \/ Drained(p) \/ BreakDiscovery(p) \/ Crash(p) \/ Finish(p)
             \/ \E x \in todo[p] : Interrupt(p, x) \/ Note(p, x)
      PROVE  pc'[p] # "enqueuing"
  <2>1. PICK stage \in Stages \ {"enqueuing"} : Goto(p, stage) \/ Leave(p, stage)
    BY <1>7, NotedNextStage
    DEF Start, Requeue, Recovered, Tick, Skip, AdvanceCursor, Discovered,
        Enqueued, BeginDrain, FailRun, QueueActions, RecordResult, Charge, Drained,
        BreakDiscovery, Crash, Finish, Interrupt, Note, Stop, Stages
  <2> QED
    BY <1>6, <2>1
<1>8. ASSUME AdvanceStage(p) PROVE pc'[p] # "enqueuing"
  <2>1. pc[p] \in {"preparing", "reviewing", "synthesizing"}
    BY <1>8 DEF AdvanceStage, Await, Working
  <2> QED
    BY <1>6, <1>8, <2>1 DEF AdvanceStage, After
<1>9. ASSUME NEW x \in todo[p], Take(p, x) PROVE pc'[p] # "enqueuing"
  BY <1>6, <1>9 DEF Take, Begin
<1>10. ASSUME Work(p) PROVE QueueWanted'
  BY <1>2, <1>3, <1>4, <1>5, <1>7, <1>8, <1>9, <1>10 DEF Work
<1>11. ASSUME BreakDiscovery(p) \/ Crash(p) PROVE QueueWanted'
  BY <1>4, <1>7, <1>11
<1>12. ASSUME \/ \E i \in DOMAIN runs : RetryRun(i) \/ Vacuum(i)
              \/ SetPaused \/ \E r \in Repos : SetHeld(r)
              \/ UNCHANGED vars
       PROVE  QueueWanted'
  <2>1. pc'[p] = pc[p] /\ todo'[p] = todo[p]
    BY <1>12 DEF RetryRun, Vacuum, SetPaused, SetHeld, vars
  <2> QED
    BY <1>3, <2>1
<1> QED
  BY <1>1, <1>10, <1>11, <1>12 DEF Next

LEMMA SkipInductive ==
  OneLoop /\ TypeOK /\ RunInv /\ SkipInv /\ [Next]_vars => SkipInv'
<1> SUFFICES ASSUME OneLoop, TypeOK, RunInv, SkipInv, [Next]_vars, mishaps' = 0, vacuums' = 0
             PROVE  (SkippedFirst /\ SkipNoted /\ QueueWanted)'
  BY DEF SkipInv
<1>1. mishaps = 0 /\ vacuums = 0
  BY NoMishapBefore
<1>2. SkippedFirst /\ SkipNoted /\ QueueWanted
  BY <1>1 DEF SkipInv
<1> QED
  BY <1>1, <1>2, SkippedFirstInductive, SkipNotedInductive, QueueWantedInductive

\* With one loop, no failure between the two statements and no vacuum, a change
\* the skip rules exclude is reviewed only when a person retries it.
THEOREM SkipRespected == ASSUME OneLoop PROVE Spec => []SkippedStaysUnreviewed
<1>1. Init => SkipInv
  BY DEF Init, SkipInv, SkippedFirst, SkipNoted, QueueWanted
<1>2. OneLoop /\ TypeOK /\ RunInv /\ SkipInv /\ [Next]_vars => SkipInv'
  BY SkipInductive
<1>3. SkipInv => SkippedStaysUnreviewed
  BY DEF SkipInv, SkippedFirst, SkippedStaysUnreviewed
<1> QED
  BY <1>1, <1>2, <1>3, RunInvariant, PTL DEF Spec
=============================================================================
