----------------------------- MODULE Workspace -----------------------------
(***************************************************************************)
(* The tree a run is reviewed in: its scratch directory (revlocal-vcs,     *)
(* scratch.rs), the commands that materialise its change into it           *)
(* (git/materialize.rs, svn/materialize.rs), what those leave running when *)
(* they are cut off (git/cmd.rs, svn/cmd.rs), and what is left of it all   *)
(* when the run is over (executor.rs, execute_one).                        *)
(*                                                                         *)
(* Rows of runs come and go: a vacuum deletes old ones, and a new run gets *)
(* the id after the highest there is.  Directories, and the worktrees git  *)
(* has registered, are named after ids and outlive the rows.               *)
(***************************************************************************)
EXTENDS Integers, VcsCommand, FiniteSets, FiniteSetsExt

CONSTANTS
  Ids,            \* bound: run ids
  MaxRuns,        \* bound: runs there ever are; the n-th reviews change n
  Files,          \* of each change, its files: [path, letter, props, binary]
  KeepOnFailure   \* keep_scratch_on_failure

ASSUME RunIdsAssumption == IsFiniteSet(Ids) /\ Ids = 1..Cardinality(Ids)

Nothing == 0

VARIABLES
  tool,      \* "git", "bare" (a bare git repository) or "svn"
  row,       \* of each id, the change its run reviews, or Nothing
  step,      \* of each id: "none", "new", a command, "ready", "succeeded", "failed"
  dir,       \* of each id, the changes whose files its scratch holds; {} if absent
  whole,     \* ids whose tree is complete
  worktrees, \* ids git has a worktree registered for
  child,     \* of each id, the command that runs for it: "none" or "running"
  helpers,   \* ids whose command has started a process of its own
  context,   \* of each id, the files the reviewer is told of
  strays,    \* ids a process of which runs on though nothing waits for it
  crashed,   \* ids whose process died under them
  created

wsVars == <<tool, row, step, dir, whole, worktrees, child, helpers, context,
            strays, crashed, created>>

-----------------------------------------------------------------------------
(* The commands, in order.                                                 *)

Commands ==
  CASE tool = "git"  -> <<"is_bare", "worktree_add", "parents", "message", "diff", "numstat", "name_status">>
    [] tool = "bare" -> <<"is_bare", "archive", "parents", "message", "diff", "numstat", "name_status">>
    [] tool = "svn"  -> <<"export", "diff", "summarize", "log", "binaries">>

Writes == {"worktree_add", "archive", "export"}
Position(s) == CHOOSE k \in DOMAIN Commands : Commands[k] = s
After(s) == IF Position(s) = Len(Commands) THEN "ready" ELSE Commands[Position(s) + 1]
Running(s) == s \in {Commands[k] : k \in DOMAIN Commands}
Over(s) == s \in {"none", "succeeded", "failed"}

\* status_from_letter, and ChangedPath::status
Status(letter) ==
  CASE letter = "A" -> "Added" [] letter = "D" -> "Deleted"
    [] letter = "R" /\ tool # "svn" -> "Renamed" [] letter = "C" /\ tool # "svn" -> "Copied"
    [] letter = "T" /\ tool # "svn" -> "TypeChanged" [] OTHER -> "Modified"

\* A file svn cannot show, or of which only properties changed, is told of in a note.
Noted(f) == tool = "svn" /\ (f.binary \/ (f.letter = "none" /\ f.props))

\* file_diffs, and the loop of svn's materialize.
FileDiffs(c) ==
  {[path |-> f.path, status |-> Status(f.letter), binary |-> f.binary, note |-> Noted(f)] : f \in Files[c]}

-----------------------------------------------------------------------------
WorkspaceInit ==
  /\ tool \in {"git", "bare", "svn"}
  /\ row = [i \in Ids |-> Nothing] /\ step = [i \in Ids |-> "none"]
  /\ dir = [i \in Ids |-> {}] /\ whole = {} /\ worktrees = {}
  /\ child = [i \in Ids |-> "none"] /\ helpers = {}
  /\ context = [i \in Ids |-> {}]
  /\ strays = {} /\ crashed = {} /\ created = 0

Rows == {i \in Ids : row[i] # Nothing}
NextId == IF Rows = {} THEN 1 ELSE Max(Rows) + 1

NewRun ==
  /\ created < MaxRuns /\ NextId \in Ids
  /\ created' = created + 1
  /\ row' = [row EXCEPT ![NextId] = created + 1]
  /\ step' = [step EXCEPT ![NextId] = "new"]
  /\ UNCHANGED <<tool, dir, whole, worktrees, child, helpers, context, strays, crashed>>

\* What the scratch of a run comes to when its guard is dropped.
WillBeKept(outcome) == KeepOnFailure /\ outcome = "failed"
Settle(i, outcome) ==
  /\ step' = [step EXCEPT ![i] = outcome]
  /\ IF WillBeKept(outcome) THEN UNCHANGED <<dir, whole>>
     ELSE dir' = [dir EXCEPT ![i] = {}] /\ whole' = whole \ {i}

\* ScratchDir::create: a directory that exists is another run's.
\* (With a defect, it is used as it is.)
RefusedNever(i) == FALSE
Refused(i) == dir[i] # {}
Create(i) ==
  /\ step[i] = "new"
  /\ IF Refused(i)
     THEN step' = [step EXCEPT ![i] = "failed"] /\ UNCHANGED dir
     ELSE step' = [step EXCEPT ![i] = Commands[1]] /\ dir' = [dir EXCEPT ![i] = @ \cup {Nothing}]
  /\ UNCHANGED <<tool, row, whole, worktrees, child, helpers, context, strays, crashed, created>>

\* A command starts, with or without a process of its own (ssh, a hook).
Spawn(i) ==
  /\ Running(step[i]) /\ child[i] = "none"
  /\ child' = [child EXCEPT ![i] = "running"]
  /\ helpers' \in {helpers, helpers \cup {i}}
  /\ UNCHANGED <<tool, row, step, dir, whole, worktrees, context, strays, crashed, created>>

\* A command came to nothing, and with it the run; but that a file's size or type
\* is not to be had fails nothing.
ComesToNothing(i) ==
  IF step[i] = "binaries"
  THEN /\ step' = [step EXCEPT ![i] = "ready"]
       /\ context' = [context EXCEPT ![i] = FileDiffs(row[i])]
       /\ UNCHANGED <<dir, whole>>
  ELSE Settle(i, "failed") /\ UNCHANGED context

\* There is no such tool, or the process cannot be started.
SpawnFails(i) ==
  /\ Running(step[i]) /\ child[i] = "none"
  /\ ComesToNothing(i)
  /\ UNCHANGED <<tool, row, worktrees, child, helpers, strays, crashed, created>>

Ended(i) == child' = [child EXCEPT ![i] = "none"] /\ helpers' = helpers \ {i}

\* git refuses a worktree it has registered before; export --force and the
\* unpacking of an archive write over what is there.
Refuses(i) == step[i] = "worktree_add" /\ i \in worktrees

Succeeds(i) ==
  /\ child[i] = "running" /\ ~Refuses(i)
  /\ Ended(i)
  /\ IF step[i] \in Writes
     THEN /\ dir' = [dir EXCEPT ![i] = @ \cup {row[i]}]
          /\ whole' = whole \cup {i}
          /\ worktrees' = IF step[i] = "worktree_add" THEN worktrees \cup {i} ELSE worktrees
     ELSE UNCHANGED <<dir, whole, worktrees>>
  /\ step' = [step EXCEPT ![i] = After(step[i])]
  /\ context' = IF After(step[i]) = "ready" THEN [context EXCEPT ![i] = FileDiffs(row[i])] ELSE context
  /\ UNCHANGED <<tool, row, strays, crashed, created>>

\* A command exits with an error.
Fails(i) ==
  /\ child[i] = "running"
  /\ Ended(i) /\ ComesToNothing(i)
  /\ UNCHANGED <<tool, row, worktrees, strays, crashed, created>>

\* The time limit: git's whole process group is killed, of svn's only the process
\* itself.  A worktree that was being added may stay registered.
KillGroup(i) == tool # "svn"
TimesOut(i) ==
  /\ child[i] = "running"
  /\ Ended(i)
  /\ strays' = IF i \in helpers /\ ~KillGroup(i) THEN strays \cup {i} ELSE strays
  /\ ComesToNothing(i)
  /\ worktrees' \in IF step[i] = "worktree_add" THEN {worktrees, worktrees \cup {i}} ELSE {worktrees}
  /\ UNCHANGED <<tool, row, crashed, created>>

\* The review of the tree ends, well or not.
Reviewed(i) ==
  /\ step[i] = "ready"
  /\ \E outcome \in {"succeeded", "failed"} : Settle(i, outcome)
  /\ UNCHANGED <<tool, row, worktrees, child, helpers, context, strays, crashed, created>>

\* rev-local dies: no guard is dropped, and its commands run on in groups of their own.
Crash ==
  /\ crashed = {} /\ \E i \in Ids : ~Over(step[i])
  /\ LET live == {i \in Ids : ~Over(step[i])} IN
     /\ crashed' = live
     /\ step' = [i \in Ids |-> IF i \in live THEN "failed" ELSE step[i]]
     /\ strays' = strays \cup {i \in live : child[i] = "running"}
  /\ child' = [i \in Ids |-> "none"] /\ helpers' = {}
  /\ UNCHANGED <<tool, row, dir, whole, worktrees, context, created>>

\* Rows of runs that are over are deleted; nothing else is.
Vacuum ==
  /\ \E gone \in SUBSET {i \in Rows : Over(step[i])} :
       /\ gone # {}
       /\ row' = [i \in Ids |-> IF i \in gone THEN Nothing ELSE row[i]]
       /\ step' = [i \in Ids |-> IF i \in gone THEN "none" ELSE step[i]]
       /\ context' = [i \in Ids |-> IF i \in gone THEN {} ELSE context[i]]
  /\ UNCHANGED <<tool, dir, whole, worktrees, child, helpers, strays, crashed, created>>

\* release_worktree and prune_worktrees, which tests call.
Release(i) ==
  /\ i \in worktrees /\ step[i] = "ready"
  /\ worktrees' = worktrees \ {i}
  /\ Settle(i, "succeeded")
  /\ UNCHANGED <<tool, row, child, helpers, context, strays, crashed, created>>
PruneWorktrees ==
  /\ \E i \in worktrees : dir[i] = {}
  /\ worktrees' = {i \in worktrees : dir[i] # {}}
  /\ UNCHANGED <<tool, row, step, dir, whole, child, helpers, context, strays, crashed, created>>

RunStep(i) ==
  Create(i) \/ Spawn(i) \/ SpawnFails(i) \/ Succeeds(i) \/ Fails(i) \/ TimesOut(i) \/ Reviewed(i)

WorkspaceNext ==
  \/ NewRun \/ Vacuum \/ Crash \/ PruneWorktrees
  \/ \E i \in Ids : RunStep(i) \/ Release(i)

WorkspaceSpec == WorkspaceInit /\ [][WorkspaceNext]_wsVars

-----------------------------------------------------------------------------
\* A run is reviewed in a whole tree that holds its own change alone, and told of the
\* files of that change: not of what a run before it left under the same id, over
\* which an export or an archive would have been laid (ScratchDir::create).
OwnTree ==
  \A i \in Ids : step[i] = "ready" =>
    /\ dir[i] = {Nothing, row[i]} /\ i \in whole
    /\ {f.path : f \in context[i]} = {f.path : f \in Files[row[i]]}

\* When a run is over, nothing of git's runs on for it and only a failed run's tree is
\* kept, and that only if configured; but for a run that rev-local died under
\* (kill_process_group, Drop for ScratchDir).
TidyAfterwards ==
  \A i \in Ids \ crashed :
    /\ i \in strays => tool = "svn"
    /\ step[i] = "succeeded" => dir[i] = {}
    /\ step[i] = "failed" /\ ~KeepOnFailure => dir[i] = {} \/ ~(row[i] \in dir[i])

\* A run has its own tree to work in and leaves none behind (scratch.rs).
TreesKept == OwnTree /\ TidyAfterwards
=============================================================================
