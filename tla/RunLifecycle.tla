---------------------------- MODULE RunLifecycle ----------------------------
(***************************************************************************)
(* The life of a review: the `watch` loop (revlocal-cli) that discovers    *)
(* changes, queues a run for each, and executes the queue; the `run` table *)
(* it works on (revlocal-store); recovery and retries (revlocal-daemon,    *)
(* state_machine); and `db vacuum`.                                        *)
(*                                                                         *)
(* A process is one sequential loop, cut at its awaits: between two steps  *)
(* another process -- a second `watch`, the desktop's first review, a      *)
(* person at the command line -- may write the same tables.                *)
(*                                                                         *)
(* Abstracted: what a review says is one of `Results`; a change's finding  *)
(* has one fingerprint; staleness is "one of the oldest so many runs"; a   *)
(* repository over its budget is one of `held`.  A process that ends on an *)
(* error, or dies, is started again by whoever runs it.                    *)
(***************************************************************************)
EXTENDS Integers, Sequences, FiniteSets

CONSTANTS
  Procs,          \* processes that run the loop
  Repos,
  N,              \* changes are 1..N, in the order they are made
  RepoOf,         \* the repository of each change
  Unwanted,       \* changes the skip rules exclude at discovery
  Results,        \* what a review may conclude
  Limit,          \* budgets.rs DEFAULT_MAX_CONCURRENT_RUNS
  MaxAttempts,    \* config max_attempts: where recovery gives up
  RecoveryRuns,   \* whether a starting process runs recover_interrupted
  MaxMishaps,     \* bound: crashes and store errors
  MaxRetries,     \* bound: runs a person retries
  MaxVacuums      \* bound: vacuums

Changes == 1..N

ASSUME NAssumption == N \in Nat
ASSUME RepoOfAssumption == RepoOf \in [Changes -> Repos]
ASSUME UnwantedAssumption == Unwanted \subseteq Changes
ASSUME ResultsAssumption ==
  Results \subseteq {"clean", "filed", "inbox", "failed", "skipped"}
ASSUME LimitsAssumption ==
  /\ Limit \in Nat /\ MaxAttempts \in Nat /\ RecoveryRuns \in BOOLEAN
  /\ MaxMishaps \in Nat /\ MaxRetries \in Nat /\ MaxVacuums \in Nat

VARIABLES
  runs,      \* the run table: a run's id is its place; deleted rows stay, marked
  known,     \* the change table
  cursor,    \* per repository, how far discovery has come
  filer,     \* per change, the run whose publish_action holds its fingerprint
  paused,    \* the kill switch setting
  held,      \* repositories over budget today, or disabled
  pc, todo, cur, result,   \* per process: where it is, and its locals
  mishaps, retries, vacuums

tables == <<known, cursor, filer>>
switches == <<paused, held>>
bounds == <<mishaps, retries, vacuums>>
vars == <<runs, tables, switches, pc, todo, cur, result, bounds>>

-----------------------------------------------------------------------------
(* The run table.                                                          *)

Working == {"preparing", "reviewing", "synthesizing", "publishing"}
Live == {"queued", "awaiting_approval"} \cup Working
Terminal == {"done", "failed", "skipped"}   \* `cancelled` is never written
Statuses == Live \cup Terminal \cup {"deleted"}

\* RunStatus::allowed_next, without `cancelled`.
AllowedNext(status) ==
  CASE status = "queued" -> {"preparing", "skipped", "failed"}
    [] status = "preparing" -> {"reviewing", "skipped", "failed"}
    [] status = "reviewing" -> {"synthesizing", "failed"}
    [] status = "synthesizing" -> {"publishing", "done", "failed"}
    [] status = "publishing" -> {"awaiting_approval", "done", "failed"}
    [] status = "awaiting_approval" -> {"publishing", "done"}
    [] OTHER -> {}

Rows(c) == {i \in DOMAIN runs : runs[i].change = c /\ runs[i].status # "deleted"}
Covered(c) == Rows(c) # {}
Exists(c, n) == \E i \in Rows(c) : runs[i].attempt = n

\* finished: `finished_at` is set.  charged: the budget ledger has the run.
NewRun(c, n, status) ==
  [change |-> c, attempt |-> n, status |-> status,
   finished |-> status = "skipped", charged |-> FALSE]

\* The insert is refused when (change, attempt) is taken.
Successor(i) == NewRun(runs[i].change, runs[i].attempt + 1, "queued")
HasSuccessor(i) == Exists(runs[i].change, runs[i].attempt + 1)

SetStatus(i, status) == runs' = [runs EXCEPT ![i].status = status]

\* mark_interrupted: whatever stage the run is in, unless it is over.
MarkAnything(i) == SetStatus(i, "failed")
Mark(i) ==
  IF runs[i].status \in Live THEN SetStatus(i, "failed") ELSE UNCHANGED runs

-----------------------------------------------------------------------------
(* The processes.                                                          *)

Stages == {"starting", "recovering", "requeueing", "idle", "noting", "skipping",
           "advancing", "listing", "enqueuing", "checking", "draining",
           "recording", "charging", "finishing"} \cup Working

\* A process is at work on its run in these.
AtWork == Working \cup {"recording", "charging", "finishing"}

Goto(p, stage) == pc' = [pc EXCEPT ![p] = stage]
Await(p, stages) == pc[p] \in stages
Pending(p, S) == todo' = [todo EXCEPT ![p] = S]
Hold(p, x) == cur' = [cur EXCEPT ![p] = x]

\* What was listed is taken in order.
First(p, x) == x \in todo[p] /\ \A y \in todo[p] : x <= y
Pop(p, x) == First(p, x) /\ Pending(p, todo[p] \ {x})

\* Done with the run (or change) at hand.
Leave(p, stage) ==
  /\ Goto(p, stage)
  /\ Hold(p, 0)
  /\ result' = [result EXCEPT ![p] = "none"]

\* An error returned from the drain ends the tick, the loop and the process.
Stop(p) ==
  /\ Leave(p, "starting")
  /\ Pending(p, {})

-----------------------------------------------------------------------------
Init ==
  /\ runs = << >>
  /\ known = {}
  /\ cursor = [r \in Repos |-> 0]
  /\ filer = [c \in Changes |-> 0]
  /\ paused = FALSE
  /\ held = {}
  /\ pc = [p \in Procs |-> "starting"]
  /\ todo = [p \in Procs |-> {}]
  /\ cur = [p \in Procs |-> 0]
  /\ result = [p \in Procs |-> "none"]
  /\ mishaps = 0 /\ retries = 0 /\ vacuums = 0

-----------------------------------------------------------------------------
(* Starting up: recovery.                                                  *)

\* Non-terminal runs old enough: queued and awaiting ones, and runs at work.
Start(p) ==
  /\ Await(p, {"starting"})
  /\ IF RecoveryRuns
     THEN /\ Goto(p, "recovering")
          /\ \E k \in 0..Len(runs) : Pending(p, {i \in 1..k : runs[i].status \in Live})
     ELSE Goto(p, "idle") /\ UNCHANGED todo
  /\ UNCHANGED <<runs, tables, switches, cur, result, bounds>>

\* Failed first ...
Interrupt(p, i) ==
  /\ Await(p, {"recovering"})
  /\ Pop(p, i)
  /\ Mark(i)
  /\ Hold(p, i)
  /\ Goto(p, "requeueing")
  /\ UNCHANGED <<tables, switches, result, bounds>>

\* ... then queued again, from the row as it was listed.
Requeue(p) ==
  /\ Await(p, {"requeueing"})
  /\ runs' = IF runs[cur[p]].attempt >= MaxAttempts \/ HasSuccessor(cur[p])
             THEN runs ELSE Append(runs, Successor(cur[p]))
  /\ Leave(p, "recovering")
  /\ UNCHANGED <<tables, switches, todo, bounds>>

Recovered(p) ==
  /\ Await(p, {"recovering"})
  /\ todo[p] = {}
  /\ Goto(p, "idle")
  /\ UNCHANGED <<runs, tables, switches, todo, cur, result, bounds>>

-----------------------------------------------------------------------------
(* A tick: discovery.                                                      *)

\* What each repository has past its cursor; a remote may be unreachable.  A
\* tick discovers nothing but goes on while the switch is on, and when the first
\* repository that is due is over its budget: it holds the others' discovery too.
Tick(p) ==
  /\ Await(p, {"idle"})
  /\ \/ /\ paused \/ held # {}
        /\ Goto(p, "listing") /\ UNCHANGED todo
     \/ /\ ~paused
        /\ Goto(p, "noting")
        /\ \E head \in [Repos -> 0..N] :
             Pending(p, {c \in Changes : cursor[RepoOf[c]] < c /\ c <= head[RepoOf[c]]})
  /\ UNCHANGED <<runs, tables, switches, cur, result, bounds>>

\* The cursor moves once the repository's last change is written down.
NotedNext(c, rest) ==
  IF \E d \in rest : RepoOf[d] = RepoOf[c] THEN "noting" ELSE "advancing"

NoteIgnoresSkip(p, c) ==
  /\ Await(p, {"noting"})
  /\ Pop(p, c)
  /\ known' = known \cup {c}
  /\ Hold(p, c)
  /\ Goto(p, NotedNext(c, todo[p] \ {c}))
  /\ UNCHANGED <<runs, cursor, filer, switches, result, bounds>>
Note(p, c) ==
  /\ Await(p, {"noting"})
  /\ Pop(p, c)
  /\ known' = known \cup {c}
  /\ Hold(p, c)
  /\ Goto(p, IF c \in Unwanted THEN "skipping" ELSE NotedNext(c, todo[p] \ {c}))
  /\ UNCHANGED <<runs, cursor, filer, switches, result, bounds>>

\* A second statement: the decision not to review, unless a run is there.
Skip(p) ==
  /\ Await(p, {"skipping"})
  /\ runs' = IF Covered(cur[p]) THEN runs ELSE Append(runs, NewRun(cur[p], 1, "skipped"))
  /\ Goto(p, NotedNext(cur[p], todo[p]))
  /\ UNCHANGED <<tables, switches, todo, cur, result, bounds>>

AdvanceCursor(p) ==
  /\ Await(p, {"advancing"})
  /\ cursor' = [cursor EXCEPT ![RepoOf[cur[p]]] = cur[p]]
  /\ Leave(p, "noting")
  /\ UNCHANGED <<runs, known, filer, switches, todo, bounds>>

\* A store error ends the repository's discovery, and nothing else.
BreakDiscovery(p) ==
  /\ Await(p, {"skipping", "advancing"})
  /\ mishaps < MaxMishaps
  /\ mishaps' = mishaps + 1
  /\ Pending(p, {d \in todo[p] : RepoOf[d] # RepoOf[cur[p]]})
  /\ Leave(p, "noting")
  /\ UNCHANGED <<runs, tables, switches, retries, vacuums>>

Discovered(p) ==
  /\ Await(p, {"noting"})
  /\ todo[p] = {}
  /\ Goto(p, "listing")
  /\ UNCHANGED <<runs, tables, switches, todo, cur, result, bounds>>

-----------------------------------------------------------------------------
(* A tick: queueing.                                                       *)

ListUncovered(p) ==
  /\ Await(p, {"listing"})
  /\ Pending(p, {c \in known : ~Covered(c)})
  /\ Goto(p, "enqueuing")
  /\ UNCHANGED <<runs, tables, switches, cur, result, bounds>>

\* A change another process has queued since it was listed ends the
\* repository's batch; the others go on.
Enqueue(p, c) ==
  /\ Await(p, {"enqueuing"})
  /\ First(p, c)
  /\ IF Exists(c, 1)
     THEN Pending(p, {d \in todo[p] : RepoOf[d] # RepoOf[c]}) /\ UNCHANGED runs
     ELSE Pending(p, todo[p] \ {c}) /\ runs' = Append(runs, NewRun(c, 1, "queued"))
  /\ UNCHANGED <<tables, switches, pc, cur, result, bounds>>

Enqueued(p) ==
  /\ Await(p, {"enqueuing"})
  /\ todo[p] = {}
  /\ Goto(p, "checking")
  /\ UNCHANGED <<runs, tables, switches, todo, cur, result, bounds>>

-----------------------------------------------------------------------------
(* A tick: execution.                                                      *)

Oldest(S, n) == {i \in S : Cardinality({j \in S : j < i}) < n}

\* The switch is read once, then the oldest queued runs are listed.
BeginDrain(p) ==
  /\ Await(p, {"checking"})
  /\ IF paused
     THEN Goto(p, "idle") /\ UNCHANGED todo
     ELSE /\ Goto(p, "draining")
          /\ Pending(p, Oldest({i \in DOMAIN runs : runs[i].status = "queued"}, Limit))
  /\ UNCHANGED <<runs, tables, switches, cur, result, bounds>>

\* A run of a repository over budget stays queued, and had its turn.
PassOver(p, i) ==
  /\ Await(p, {"draining"})
  /\ Pop(p, i)
  /\ RepoOf[runs[i].change] \in held
  /\ UNCHANGED <<runs, tables, switches, pc, cur, result, bounds>>

\* The first compare-and-swap decides which process has the run.
Begin(p, i) ==
  /\ Goto(p, "preparing")
  /\ Hold(p, i)
  /\ Pending(p, todo[p] \ {i})

TakeUnchecked(p, i) ==
  /\ Await(p, {"draining"})
  /\ First(p, i)
  /\ RepoOf[runs[i].change] \notin held
  /\ SetStatus(i, "preparing")
  /\ Begin(p, i)
  /\ UNCHANGED <<tables, switches, result, bounds>>
Take(p, i) ==
  /\ Await(p, {"draining"})
  /\ First(p, i)
  /\ RepoOf[runs[i].change] \notin held
  /\ IF runs[i].status = "queued"
     THEN SetStatus(i, "preparing") /\ Begin(p, i) /\ UNCHANGED result
     ELSE UNCHANGED runs /\ Stop(p)
  /\ UNCHANGED <<tables, switches, bounds>>

After(stage) ==
  CASE stage = "preparing" -> "reviewing"
    [] stage = "reviewing" -> "synthesizing"
    [] stage = "synthesizing" -> "publishing"

\* The stages up to publishing: each ends in a compare-and-swap on the row.
AdvanceStage(p) ==
  /\ Await(p, Working \ {"publishing"})
  /\ IF runs[cur[p]].status = pc[p]
     THEN /\ SetStatus(cur[p], After(pc[p]))
          /\ Goto(p, After(pc[p]))
          /\ IF pc[p] = "reviewing"
             THEN \E found \in Results : result' = [result EXCEPT ![p] = found]
             ELSE UNCHANGED result
          /\ UNCHANGED <<todo, cur>>
     ELSE UNCHANGED runs /\ Stop(p)
  /\ UNCHANGED <<tables, switches, bounds>>

\* No scratch directory, no worktree, or no prompt: the run fails, and the
\* drain goes on.
FailRun(p) ==
  /\ Await(p, {"preparing", "reviewing"})
  /\ Mark(cur[p])
  /\ Leave(p, "draining")
  /\ UNCHANGED <<tables, switches, todo, bounds>>

\* The publish action for what was found.  The key is unique: a second run of
\* the same change does not get past this.
QueueActions(p) ==
  /\ Await(p, {"publishing"})
  /\ LET c == runs[cur[p]].change IN
       IF result[p] \notin {"filed", "inbox"}
       THEN Goto(p, "recording") /\ UNCHANGED <<filer, todo, cur, result>>
       ELSE IF filer[c] # 0
       THEN Stop(p) /\ UNCHANGED filer
       ELSE /\ filer' = [filer EXCEPT ![c] = cur[p]]
            /\ Goto(p, "recording")
            /\ UNCHANGED <<todo, cur, result>>
  /\ UNCHANGED <<runs, known, cursor, switches, bounds>>

RecordResult(p) ==
  /\ Await(p, {"recording"})
  /\ runs' = [runs EXCEPT ![cur[p]].finished = TRUE]
  /\ Goto(p, "charging")
  /\ UNCHANGED <<tables, switches, todo, cur, result, bounds>>

ChargeLater(p) ==
  /\ Await(p, {"charging"})
  /\ Goto(p, "finishing")
  /\ UNCHANGED <<runs, tables, switches, todo, cur, result, bounds>>
Charge(p) ==
  /\ Await(p, {"charging"})
  /\ runs' = [runs EXCEPT ![cur[p]].charged = TRUE]
  /\ Goto(p, "finishing")
  /\ UNCHANGED <<tables, switches, todo, cur, result, bounds>>

FinalStatus(found) ==
  CASE found = "failed" -> "failed"
    [] found = "skipped" -> "skipped"
    [] found = "inbox" -> "awaiting_approval"
    [] OTHER -> "done"

Finish(p) ==
  /\ Await(p, {"finishing"})
  /\ LET to == FinalStatus(result[p]) IN
       IF to \in AllowedNext("publishing") /\ runs[cur[p]].status = "publishing"
       THEN SetStatus(cur[p], to) /\ Leave(p, "draining") /\ UNCHANGED todo
       ELSE UNCHANGED runs /\ Stop(p)
  /\ UNCHANGED <<tables, switches, bounds>>

Drained(p) ==
  /\ Await(p, {"draining"})
  /\ todo[p] = {}
  /\ Goto(p, "idle")
  /\ UNCHANGED <<runs, tables, switches, todo, cur, result, bounds>>

-----------------------------------------------------------------------------
(* Around the loop.                                                        *)

Crash(p) ==
  /\ pc[p] # "starting"
  /\ mishaps < MaxMishaps
  /\ mishaps' = mishaps + 1
  /\ Stop(p)
  /\ UNCHANGED <<runs, tables, switches, retries, vacuums>>

RetryLive(i) ==
  /\ retries < MaxRetries
  /\ retries' = retries + 1
  /\ runs[i].status # "deleted"
  /\ ~HasSuccessor(i)
  /\ runs' = Append(runs, Successor(i))
  /\ UNCHANGED <<tables, switches, pc, todo, cur, result, mishaps, vacuums>>

\* `revlocal runs retry`: another attempt at a run that is over.
RetryRun(i) ==
  /\ retries < MaxRetries
  /\ retries' = retries + 1
  /\ runs[i].status \in Terminal
  /\ ~HasSuccessor(i)
  /\ runs' = Append(runs, Successor(i))
  /\ UNCHANGED <<tables, switches, pc, todo, cur, result, mishaps, vacuums>>

\* `revlocal db vacuum`: finished runs go, and their publish actions with them.
Vacuum(k) ==
  LET gone == {i \in 1..k : runs[i].finished} IN
  /\ vacuums < MaxVacuums
  /\ vacuums' = vacuums + 1
  /\ runs' = [i \in DOMAIN runs |->
                IF i \in gone THEN [runs[i] EXCEPT !.status = "deleted"] ELSE runs[i]]
  /\ filer' = [c \in Changes |-> IF filer[c] \in gone THEN 0 ELSE filer[c]]
  /\ UNCHANGED <<known, cursor, switches, pc, todo, cur, result, mishaps, retries>>

SetPaused ==
  /\ paused' = ~paused
  /\ UNCHANGED <<runs, tables, held, pc, todo, cur, result, bounds>>

\* The ledger reaches the daily budget, or a new day begins.
SetHeld(r) ==
  /\ held' = IF r \in held THEN held \ {r} ELSE held \cup {r}
  /\ UNCHANGED <<runs, tables, paused, pc, todo, cur, result, bounds>>

-----------------------------------------------------------------------------
\* The loop of one process.
Work(p) ==
  \/ Start(p) \/ Requeue(p) \/ Recovered(p)
  \/ Tick(p) \/ Skip(p) \/ AdvanceCursor(p) \/ Discovered(p)
  \/ ListUncovered(p) \/ Enqueued(p)
  \/ BeginDrain(p) \/ AdvanceStage(p) \/ FailRun(p)
  \/ QueueActions(p) \/ RecordResult(p) \/ Charge(p) \/ Finish(p) \/ Drained(p)
  \/ \E x \in todo[p] :
       Interrupt(p, x) \/ Note(p, x) \/ Enqueue(p, x) \/ PassOver(p, x) \/ Take(p, x)

Next ==
  \/ \E p \in Procs : Work(p) \/ BreakDiscovery(p) \/ Crash(p)
  \/ \E i \in DOMAIN runs : RetryRun(i) \/ Vacuum(i)
  \/ SetPaused
  \/ \E r \in Repos : SetHeld(r)

Spec == Init /\ [][Next]_vars

\* A loop that is running goes on.  Nothing is assumed of people, nor that anybody
\* starts one again that ended.
Running(p) == pc[p] # "starting" /\ Work(p)
FairSpec == Spec /\ \A p \in Procs : WF_vars(Running(p))

-----------------------------------------------------------------------------
(* Properties.                                                             *)

Run == [change : Changes, attempt : Nat \ {0}, status : Statuses,
        finished : BOOLEAN, charged : BOOLEAN]

\* What a process may hold where it is.
LocalsOK(p) ==
  /\ pc[p] \in {"noting", "skipping", "advancing", "enqueuing"} => todo[p] \subseteq Changes
  /\ pc[p] \in {"skipping", "advancing"} => cur[p] \in Changes
  /\ pc[p] \in {"recovering", "requeueing", "draining"} \cup AtWork =>
       todo[p] \subseteq DOMAIN runs
  /\ pc[p] \in AtWork \cup {"requeueing"} => cur[p] \in DOMAIN runs
  /\ pc[p] \in AtWork \ {"preparing", "reviewing"} => result[p] \in Results

\* Every variable has its type; in particular a process only holds runs that
\* are, or were, in the table.
TypeOK ==
  /\ runs \in Seq(Run)
  /\ known \subseteq Changes
  /\ cursor \in [Repos -> 0..N]
  /\ filer \in [Changes -> Nat]
  /\ paused \in BOOLEAN
  /\ held \subseteq Repos
  /\ pc \in [Procs -> Stages]
  /\ todo \in [Procs -> SUBSET Nat]
  /\ cur \in [Procs -> Nat]
  /\ result \in [Procs -> Results \cup {"none"}]
  /\ \A p \in Procs : LocalsOK(p)
  /\ mishaps \in 0..MaxMishaps
  /\ retries \in 0..MaxRetries
  /\ vacuums \in 0..MaxVacuums

\* No two processes ever review the same run, though both list it: the first
\* compare-and-swap of drain decides.
OneWorkerPerRun ==
  \A p, q \in Procs : pc[p] \in AtWork /\ pc[q] \in AtWork /\ cur[p] = cur[q] => p = q

\* A change has at most one run that is not over, across enqueues, recoveries
\* and retries by several processes (retry_run: "both would publish").  A
\* vacuum can make room for a second one, so it is excepted.
OneLiveRun ==
  vacuums = 0 =>
    \A i, j \in DOMAIN runs :
      /\ runs[i].change = runs[j].change
      /\ runs[i].status \in Live /\ runs[j].status \in Live
      => i = j

\* The attempts of a change are numbered 1, 2, ... without repetition, and each
\* but the last is over before the next is inserted.
Lineage ==
  /\ \A i \in DOMAIN runs : runs[i].status # "deleted"
  /\ \A p \in Procs : pc[p] = "requeueing" => runs[cur[p]].status \in Terminal
  /\ \A i \in DOMAIN runs : \A n \in 1..runs[i].attempt : Exists(runs[i].change, n)
  /\ \A i, j \in DOMAIN runs : runs[i].change = runs[j].change =>
       /\ runs[i].attempt = runs[j].attempt => i = j
       /\ runs[i].attempt < runs[j].attempt => runs[i].status \in Terminal

\* A run that is over stays as it is: no late transition, recovery or failure
\* of another process moves it.  Only a vacuum takes it away.
TerminalIsFinal ==
  [][\A i \in DOMAIN runs :
       runs[i].status \in Terminal => runs'[i].status \in {runs[i].status, "deleted"}]_vars

\* A run that ended with a review is in the budget ledger.
FinishedIsCharged ==
  \A i \in DOMAIN runs :
    runs[i].status \in {"done", "awaiting_approval"} => runs[i].charged

\* A run that awaits approval has an action of its own in the inbox to decide
\* about, so that a decision can reach it.
AwaitingHasAction ==
  \A i \in DOMAIN runs :
    runs[i].status = "awaiting_approval" => filer[runs[i].change] = i

\* Whatever a review leaves behind is on the books by the time its run says so: what
\* it cost in the ledger, and what it asks for in the inbox (executor.rs, execute_one).
OnTheBooks == FinishedIsCharged /\ AwaitingHasAction

\* The inductive form of these: a process's run has been taken, by it alone; by
\* the last stage it is charged and its action is in the inbox, unless a vacuum
\* took both; and before any vacuum the attempts of each change form a lineage.
Taken == \A p \in Procs : pc[p] \in AtWork => runs[cur[p]].status # "queued"
ChargedLast == \A p \in Procs : pc[p] = "finishing" => runs[cur[p]].charged
ActionHeld ==
  \A p \in Procs :
    pc[p] \in {"recording", "charging", "finishing"} /\ result[p] = "inbox" =>
      filer[runs[cur[p]].change] = cur[p] \/ runs[cur[p]].status = "deleted"
RunInv ==
  /\ Taken /\ OneWorkerPerRun
  /\ ChargedLast /\ FinishedIsCharged
  /\ ActionHeld /\ AwaitingHasAction
  /\ vacuums = 0 => Lineage

\* A change the skip rules exclude is not reviewed unless a person asks for it:
\* its first run is the skipped one.  With one process, and no store error or
\* crash between the two statements that record it, and no vacuum.
SkippedStaysUnreviewed ==
  mishaps = 0 /\ vacuums = 0 =>
    \A i \in DOMAIN runs :
      runs[i].change \in Unwanted /\ runs[i].attempt = 1 => runs[i].status = "skipped"

\* At most this many runs are ever inserted.
Ids == 1..(N * (MaxAttempts + MaxRetries + MaxVacuums))
StatusOf(i) == IF i \in DOMAIN runs THEN runs[i].status ELSE "none"

\* Fewer older runs of other repositories are queued than a drain lists.
OthersBefore(i) ==
  {j \in DOMAIN runs : j < i /\ runs[j].status = "queued" /\ RepoOf[runs[j].change] # RepoOf[runs[i].change]}
Listable(i) == StatusOf(i) = "queued" => Cardinality(OthersBefore(i)) < Limit
Allowed(i) == StatusOf(i) = "queued" => RepoOf[runs[i].change] \notin held

=============================================================================
