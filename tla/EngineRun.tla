------------------------------ MODULE EngineRun ------------------------------
(***************************************************************************)
(* One review by an engine: the supervised child process (supervise.rs),   *)
(* what the runner makes of its end (runner.rs, ladder.rs), and the one    *)
(* re-run at `deep` (pipeline.rs, depth.rs).                               *)
(*                                                                         *)
(* The child may start a helper, which may keep the child's output pipes,  *)
(* leave the child's process group, and outlive it.  Time is counted in    *)
(* seconds; the supervisor acts within the second in which it can, while   *)
(* the child and its helper act when they like, or never.                  *)
(*                                                                         *)
(* Abstracted: output is one of a few kinds of text, a result file is      *)
(* known by the attempt that wrote it and by whether it reports something  *)
(* severe.  This is the Unix build; no caller asks for a repair pass.      *)
(***************************************************************************)
EXTENDS Naturals

CONSTANTS
  Timeouts,        \* supervise.rs timeout_for: seconds by depth
  Grace,           \* GRACE: from SIGTERM to SIGKILL after a timeout
  CancelGrace,     \* CANCEL_GRACE: the same after a cancellation
  DrainGrace,      \* DRAIN_GRACE: wait for the pipes of a killed child
  ExitDrainGrace,  \* EXIT_DRAIN_GRACE: of one that exited
  Feeding          \* the prompt goes by "none", "fits" or "blocks" on stdin

Depths == {"summary", "standard", "deep"}

ASSUME TimeoutsAssumption == Timeouts \in [Depths -> Nat \ {0}]
ASSUME GracesAssumption ==
  /\ Grace \in Nat /\ CancelGrace \in Nat
  /\ DrainGrace \in Nat /\ ExitDrainGrace \in Nat
ASSUME FeedingAssumption == Feeding \in {"none", "fits", "blocks"}

VARIABLES
  pc,         \* where the review is
  depth,      \* depth of this attempt
  attempt,    \* 1, or 2 once escalated
  child,      \* the engine's process
  helper,     \* a process the engine started; "holding" has its pipes
  escaped,    \* the helper has left the process group
  stray,      \* a helper of the first attempt is still about in the second
  file,       \* result.json in the output directory
  said,       \* what was written to stdout
  heard,      \* what the reader task has of it
  cut,        \* output_truncated, of what the supervisor hands over
  killed,     \* why the child was killed, or "no"
  cancelled,  \* the cancellation token
  clock,      \* seconds in this stage
  age,        \* seconds since the child was first waited for
  stopAt,     \* age when the decision to kill was taken
  report      \* what the review says

process == <<child, helper, escaped, stray>>
output == <<said, heard, cut>>
time == <<clock, age, stopAt>>
vars == <<pc, depth, attempt, process, file, output, killed, cancelled, time, report>>

-----------------------------------------------------------------------------
Kinds == {"nothing", "noise", "fenced", "whole"}
Files == [state : {"missing", "invalid", "valid"}, by : 0..2, severe : BOOLEAN]
NoFile == [state |-> "missing", by |-> 0, severe |-> FALSE]

Reports == [status : {"none", "failed", "done"}, depth : Depths, by : 0..2,
            degraded : BOOLEAN]
NoReport == [status |-> "none", depth |-> "summary", by |-> 0, degraded |-> FALSE]

Init ==
  /\ pc = "preparing" /\ depth \in Depths /\ attempt = 1
  /\ child = "none" /\ helper = "none" /\ escaped = FALSE /\ stray = FALSE
  /\ file = NoFile
  /\ said = "nothing" /\ heard = "nothing" /\ cut = FALSE
  /\ killed = "no" /\ cancelled = FALSE
  /\ clock = 0 /\ age = 0 /\ stopAt = 0
  /\ report = NoReport

Fail == report' = [status |-> "failed", depth |-> depth, by |-> 0, degraded |-> FALSE]

\* SIGTERM to SIGKILL.
GraceFor(reason) == IF reason = "timeout" THEN Grace ELSE CancelGrace

\* How long the readers get once the child is gone.
DrainForBoth(reason) ==
  IF reason = "no" THEN ExitDrainGrace + ExitDrainGrace ELSE DrainGrace + DrainGrace
DrainFor(reason) == IF reason = "no" THEN ExitDrainGrace ELSE DrainGrace

\* End of file: nobody holds the write end any more.
Closed == child = "exited" /\ helper # "holding"

Enter(stage) == pc' = stage /\ clock' = 0

-----------------------------------------------------------------------------
(* The engine and what it starts, at their own pace.                       *)

Speak(text) ==
  /\ child = "running" \/ helper = "holding"
  /\ said' = text
  /\ UNCHANGED <<pc, depth, attempt, process, file, heard, cut, killed, cancelled, time, report>>

WriteResult(state, severe) ==
  /\ child = "running"
  /\ file' = [state |-> state, by |-> attempt, severe |-> severe]
  /\ UNCHANGED <<pc, depth, attempt, process, output, killed, cancelled, time, report>>

\* A helper left over from the first attempt knows the same directory.
StrayWrites(severe) ==
  /\ stray
  /\ file' = [state |-> "valid", by |-> 1, severe |-> severe]
  /\ UNCHANGED <<pc, depth, attempt, process, output, killed, cancelled, time, report>>

StartHelper(kind, leaves) ==
  /\ child = "running" /\ helper = "none"
  /\ helper' = kind /\ escaped' = leaves
  /\ UNCHANGED <<pc, depth, attempt, child, stray, file, output, killed, cancelled, time, report>>

HelperEnds ==
  /\ helper \in {"holding", "loose"}
  /\ helper' = "gone"
  /\ UNCHANGED <<pc, depth, attempt, child, escaped, stray, file, output, killed, cancelled,
                 time, report>>

ChildExits ==
  /\ child = "running"
  /\ child' = "exited"
  /\ UNCHANGED <<pc, depth, attempt, helper, escaped, stray, file, output, killed, cancelled,
                 time, report>>

\* The engine reads the whole of its input.
TakeInput ==
  /\ pc = "feeding" /\ child = "running"
  /\ Enter("watching")
  /\ UNCHANGED <<depth, attempt, process, file, output, killed, cancelled, age, stopAt, report>>

\* What happens once the review is over is not followed.
Engine ==
  /\ pc # "over"
  /\ \/ \E text \in Kinds : Speak(text)
     \/ \E state \in {"invalid", "valid"}, severe \in BOOLEAN : WriteResult(state, severe)
     \/ \E severe \in BOOLEAN : StrayWrites(severe)
     \/ \E kind \in {"holding", "loose"}, leaves \in BOOLEAN : StartHelper(kind, leaves)
     \/ HelperEnds \/ ChildExits \/ TakeInput

-----------------------------------------------------------------------------
(* The supervisor.                                                         *)

\* The output directory is created when it is missing and never emptied.
Spawn ==
  /\ pc = "preparing"
  /\ child' = "running"
  /\ Enter(IF Feeding = "none" THEN "watching" ELSE "feeding")
  /\ UNCHANGED <<depth, attempt, helper, escaped, stray, file, output, killed, cancelled, age,
                 stopAt, report>>

NotInstalled ==
  /\ pc = "preparing"
  /\ Enter("over")
  /\ Fail
  /\ UNCHANGED <<depth, attempt, process, file, output, killed, cancelled, age, stopAt>>

\* The prompt is written before anything is waited for: no timer runs, and the
\* readers have not been started.  A prompt the pipe holds is written at once,
\* a longer one when the engine reads it, or never will.
Feed ==
  /\ pc = "feeding"
  /\ Feeding = "fits" \/ child = "exited"
  /\ Enter("watching")
  /\ UNCHANGED <<depth, attempt, process, file, output, killed, cancelled, age, stopAt, report>>

\* The reader tasks.
Read ==
  /\ pc \in {"watching", "terminating", "draining"}
  /\ heard # said
  /\ heard' = said
  /\ UNCHANGED <<pc, depth, attempt, process, file, said, cut, killed, cancelled, time, report>>

\* The three branches of the select; any that is ready may win.
SeeExit ==
  /\ pc = "watching" /\ child = "exited"
  /\ Enter("draining")
  /\ UNCHANGED <<depth, attempt, process, file, output, killed, cancelled, age, stopAt, report>>

StopFor(reason) ==
  /\ pc = "watching"
  /\ killed' = reason
  /\ stopAt' = age
  /\ Enter("terminating")
  /\ UNCHANGED <<depth, attempt, process, file, output, cancelled, age, report>>

TimeOut == clock >= Timeouts[depth] /\ StopFor("timeout")
ObeyCancel == cancelled /\ StopFor("cancelled")

\* The child is polled for: once it is gone, nothing more is signalled.
SeeItGone ==
  /\ pc = "terminating" /\ child = "exited"
  /\ Enter("draining")
  /\ UNCHANGED <<depth, attempt, process, file, output, killed, cancelled, age, stopAt, report>>

\* SIGKILL reaches the group.
ForceKill ==
  /\ pc = "terminating" /\ clock >= GraceFor(killed)
  /\ child' = "exited"
  /\ helper' = IF helper # "none" /\ ~escaped THEN "gone" ELSE helper
  /\ Enter("draining")
  /\ UNCHANGED <<depth, attempt, escaped, stray, file, output, killed, cancelled, age, stopAt,
                 report>>

\* The readers come to the end of the pipes ...
Drained ==
  /\ pc = "draining" /\ Closed
  /\ heard' = said
  /\ Enter("judging")
  /\ UNCHANGED <<depth, attempt, process, file, said, cut, killed, cancelled, age, stopAt, report>>

\* ... or are given up on, and what arrived is kept and marked.
GiveUpOnKilled ==
  /\ pc = "draining" /\ ~Closed /\ killed # "no" /\ clock >= DrainFor(killed)
  /\ cut' = TRUE
  /\ Enter("judging")
  /\ UNCHANGED <<depth, attempt, process, file, said, heard, killed, cancelled, age, stopAt,
                 report>>
GiveUpSilently ==
  /\ pc = "draining" /\ ~Closed /\ clock >= DrainFor(killed)
  /\ Enter("judging")
  /\ UNCHANGED <<depth, attempt, process, file, output, killed, cancelled, age, stopAt, report>>
GiveUp ==
  /\ pc = "draining" /\ ~Closed /\ clock >= DrainFor(killed)
  /\ cut' = TRUE
  /\ Enter("judging")
  /\ UNCHANGED <<depth, attempt, process, file, said, heard, killed, cancelled, age, stopAt,
                 report>>

-----------------------------------------------------------------------------
(* The runner and the pipeline.                                            *)

\* Ladder: the file, the last fenced block of stdout, the whole of stdout.
Rung ==
  CASE file.state = "valid" -> "file"
    [] file.state # "valid" /\ heard \in {"fenced", "whole"} -> heard
    [] OTHER -> "none"

\* A killed engine is an error whatever it wrote; so is one that cannot be read.
Unusable ==
  /\ pc = "judging"
  /\ killed # "no" \/ Rung = "none"
  /\ Enter("over")
  /\ Fail
  /\ UNCHANGED <<depth, attempt, process, file, output, killed, cancelled, age, stopAt>>

\* Only a standard review that found something severe is run again.
Escalates(severe) == depth = "standard" /\ severe

Resolved(severe) ==
  /\ pc = "judging" /\ killed = "no" /\ Rung # "none"
  /\ Rung = "file" => severe = file.severe

RunAgain(severe) ==
  /\ Resolved(severe)
  /\ Escalates(severe)
  /\ depth' = "deep" /\ attempt' = 2
  /\ child' = "none" /\ helper' = "none" /\ escaped' = FALSE
  /\ stray' = (helper \in {"holding", "loose"})
  /\ said' = "nothing" /\ heard' = "nothing" /\ cut' = FALSE
  /\ age' = 0 /\ stopAt' = 0
  /\ Enter("preparing")
  /\ UNCHANGED <<file, killed, cancelled, report>>

\* Whether the output was cut is not asked here, and a report has no word for it.
Conclude(severe) ==
  /\ Resolved(severe)
  /\ ~Escalates(severe)
  /\ report' = [status |-> "done", depth |-> depth,
                by |-> IF Rung = "file" THEN file.by ELSE attempt,
                degraded |-> Rung # "file"]
  /\ Enter("over")
  /\ UNCHANGED <<depth, attempt, process, file, output, killed, cancelled, age, stopAt>>

-----------------------------------------------------------------------------
\* A person cancels the run, or engages the kill switch.
Cancel ==
  /\ ~cancelled /\ pc # "over"
  /\ cancelled' = TRUE
  /\ UNCHANGED <<pc, depth, attempt, process, file, output, killed, time, report>>

\* Something the supervisor does at once.
Due ==
  \/ pc = "watching" /\ (child = "exited" \/ cancelled \/ clock >= Timeouts[depth])
  \/ pc = "terminating" /\ (child = "exited" \/ clock >= GraceFor(killed))
  \/ pc = "draining" /\ (Closed \/ clock >= DrainFor(killed))

Tick ==
  /\ pc \in {"watching", "terminating", "draining"}
  /\ ~Due
  /\ clock' = clock + 1 /\ age' = age + 1
  /\ UNCHANGED <<pc, depth, attempt, process, file, output, killed, cancelled, stopAt, report>>

Supervise ==
  \/ Spawn \/ NotInstalled \/ Feed
  \/ SeeExit \/ TimeOut \/ ObeyCancel \/ SeeItGone \/ ForceKill \/ Drained \/ GiveUp
  \/ Unusable \/ \E severe \in BOOLEAN : RunAgain(severe) \/ Conclude(severe)

Next == Engine \/ Supervise \/ Read \/ Cancel \/ Tick

Spec == Init /\ [][Next]_vars

\* The supervisor runs and time passes.  The engine owes nothing.
FairSpec == Spec /\ WF_vars(Supervise) /\ WF_vars(Tick)

-----------------------------------------------------------------------------
(* Properties.                                                             *)

TypeOK ==
  /\ pc \in {"preparing", "feeding", "watching", "terminating", "draining", "judging", "over"}
  /\ depth \in Depths /\ attempt \in {1, 2}
  /\ child \in {"none", "running", "exited"}
  /\ helper \in {"none", "holding", "loose", "gone"}
  /\ escaped \in BOOLEAN /\ stray \in BOOLEAN
  /\ file \in Files
  /\ said \in Kinds /\ heard \in Kinds /\ cut \in BOOLEAN
  /\ killed \in {"no", "timeout", "cancelled"} /\ cancelled \in BOOLEAN
  /\ clock \in Nat /\ age \in Nat /\ stopAt \in Nat
  /\ report \in Reports

\* Once the prompt is delivered an attempt is bounded by the limits alone,
\* whatever the engine and its helpers ignore or hold on to: its timeout, then
\* one grace before SIGKILL and one for the pipes, which are waited for together.
WithinLimits ==
  /\ killed = "no" => age <= Timeouts[depth] + ExitDrainGrace
  /\ killed # "no" =>
       /\ stopAt <= Timeouts[depth]
       /\ age <= stopAt + GraceFor(killed) + DrainGrace

\* Output that the supervisor hands over is all the engine and its helpers wrote
\* before the pipes closed, or is marked as cut (supervise.rs, output_truncated).
CutIsShown ==
  pc = "judging" /\ ~cut => heard = said /\ Closed

\* No review is built on what an engine wrote that had to be killed, and none is
\* published while the engine's own process is still running.
NothingFromKilled ==
  report.status = "done" => killed = "no" /\ child = "exited"

\* What the supervisor hands over is whole or says that it is not, and no review is
\* made of the output of an engine that was killed, however its end, the timeout, a
\* cancellation and a helper that keeps the pipes fall (supervise.rs, finish;
\* runner.rs, run_with_repair).  The mark goes no further: run_with_repair does not
\* read it, so a review may be of what was cut.
HandedOverWhole == CutIsShown /\ NothingFromKilled

\* A review costs at most two engine runs, and a second one only to look deeper.
OnceDeeper ==
  [][attempt' # attempt => depth = "standard" /\ depth' = "deep" /\ attempt' = 2]_vars

\* Every review ends although the engine may do nothing at all.
ReviewEnds == <>(pc = "over")

\* The depth a report names is the depth its findings were found at
\* (pipeline.rs, ReviewReport::depth: "The depth actually reviewed at").
DepthActuallyReviewed == report.status = "done" => report.by = attempt
=============================================================================
