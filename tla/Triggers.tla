------------------------------ MODULE Triggers ------------------------------
(***************************************************************************)
(* From a trigger to a discovery pass: the hook and webhook receivers      *)
(* (trigger_receiver.rs, webhook.rs), the bus that folds the events of a   *)
(* repository together (triggers.rs), and the scheduler that lets a pass   *)
(* start (scheduler.rs).                                                   *)
(*                                                                         *)
(* The caller of the bus is any loop that keeps every pass it is given     *)
(* until the scheduler names it, reads the repository once for it and then *)
(* reports it finished.  Events are numbered as they are admitted, and an  *)
(* event stands for its source: a set of numbers is a list of sources in   *)
(* arrival order.  Timestamps are in units of which Window make a window.  *)
(*                                                                         *)
(* Abstracted: secrets and signatures are right or wrong, hints (advisory  *)
(* in the code) are left out, no thread panics with the bus in hand, and a *)
(* slot is always free, as watch.rs tells the scheduler.                   *)
(***************************************************************************)
EXTENDS Integers, Sequences

CONSTANTS
  Repos,        \* repository ids, which order what is due
  Window,       \* the coalescing window; 0 for none
  Deliveries,   \* ids of webhook deliveries
  SentTo,       \* delivery -> its repository
  Unroutable,   \* deliveries of a kind the daemon does not act on
  OptedIn,      \* repositories with a secret that take webhooks
  Memory,       \* DELIVERY_MEMORY
  Capped,       \* repositories with a budget that can be spent
  Lag,          \* how long a handler may take from its timestamp to the bus
  MaxEvents, Horizon, MaxStepsBack   \* bounds of the model

ASSUME ReposAssumption == Repos \subseteq Nat
ASSUME SchedulingAssumption ==
  /\ Window \in Nat /\ Lag \in Nat
  /\ MaxEvents \in Nat /\ Horizon \in Nat /\ MaxStepsBack \in Nat
ASSUME WebhookAssumption ==
  /\ SentTo \in [Deliveries -> Repos]
  /\ Unroutable \subseteq Deliveries
  /\ OptedIn \subseteq Repos
  /\ Memory \in Nat \ {0}

VARIABLES
  now,        \* the wall clock
  opened,     \* window_opened_at
  pending,    \* pending_sources
  running,    \* pass_running
  followUp,   \* follow_up_scheduled
  late,       \* follow_up_sources
  events,     \* how many events were admitted
  heard,      \* the last event of each repository
  seen,       \* the last event that a read of the repository came after
  credited,   \* events named as a source of a pass
  pass,       \* the pass of each repository, in the caller's hands
  log,        \* delivery ids remembered, oldest first
  acted,      \* deliveries that reached the bus
  killed,     \* the kill switch
  spent,      \* repositories over their budget
  stepsBack   \* how often the clock was set back

bus == <<opened, pending, running, followUp, late>>
admitted == <<events, heard>>
world == <<killed, spent>>
hooks == <<log, acted>>
clock == <<now, stepsBack>>
vars == <<bus, admitted, seen, credited, pass, world, hooks, clock>>

-----------------------------------------------------------------------------
NoTime == -1
Passes == {"none", "waiting", "reading", "read"}

Init ==
  /\ now = 0 /\ stepsBack = 0
  /\ opened = [r \in Repos |-> NoTime]
  /\ pending = [r \in Repos |-> {}]
  /\ running = [r \in Repos |-> FALSE]
  /\ followUp = [r \in Repos |-> FALSE]
  /\ late = [r \in Repos |-> {}]
  /\ events = 0
  /\ heard = [r \in Repos |-> 0] /\ seen = [r \in Repos |-> 0]
  /\ credited = {}
  /\ pass = [r \in Repos |-> "none"]
  /\ log = <<>> /\ acted = {}
  /\ killed = FALSE /\ spent = {}

\* A time before the window opened is inside it.
Within(start, time) == time < start + Window

-----------------------------------------------------------------------------
(* The bus.                                                                *)

\* A pass is running, and may or may not see what the event is about.
JoinFollowUp(r, e) ==
  /\ running[r]
  /\ followUp' = [followUp EXCEPT ![r] = TRUE]
  /\ late' = [late EXCEPT ![r] = @ \cup {e}]
  /\ UNCHANGED <<opened, pending, running>>

FoldIn(r, e, time) ==
  /\ ~running[r]
  /\ opened[r] # NoTime /\ Within(opened[r], time)
  /\ pending' = [pending EXCEPT ![r] = @ \cup {e}]
  /\ UNCHANGED <<opened, running, followUp, late>>

\* There is no window, or one that has closed and was not collected.
OpenWindow(r, e, time) ==
  /\ ~running[r]
  /\ ~(opened[r] # NoTime /\ Within(opened[r], time))
  /\ opened' = [opened EXCEPT ![r] = time]
  /\ pending' = [pending EXCEPT ![r] = {e}]
  /\ UNCHANGED <<running, followUp, late>>

AdmitIgnoringBusy(r, time) ==
  /\ events < MaxEvents /\ now <= Horizon
  /\ events' = events + 1
  /\ heard' = [heard EXCEPT ![r] = events + 1]
  /\ IF running[r] THEN UNCHANGED bus
     ELSE FoldIn(r, events + 1, time) \/ OpenWindow(r, events + 1, time)
Admit(r, time) ==
  /\ events < MaxEvents /\ now <= Horizon
  /\ events' = events + 1
  /\ heard' = [heard EXCEPT ![r] = events + 1]
  /\ \/ JoinFollowUp(r, events + 1)
     \/ FoldIn(r, events + 1, time)
     \/ OpenWindow(r, events + 1, time)

Due(r) ==
  /\ ~running[r] /\ pending[r] # {}
  /\ opened[r] # NoTime /\ ~Within(opened[r], now)

\* Every pass whose window has closed, marked as running.
DuePasses ==
  LET due == {r \in Repos : Due(r)} IN
  /\ due # {}
  /\ running' = [r \in Repos |-> running[r] \/ r \in due]
  /\ pass' = [r \in Repos |-> IF r \in due THEN "waiting" ELSE pass[r]]
  /\ credited' = credited \cup UNION {pending[r] : r \in due}
  /\ UNCHANGED <<opened, pending, followUp, late, admitted, seen, world, hooks, clock>>

\* Events came while the pass ran: one more follows at once, which needs no window.
FollowKeepingSources(r) ==
  /\ followUp[r]
  /\ followUp' = [followUp EXCEPT ![r] = FALSE]
  /\ opened' = [opened EXCEPT ![r] = now]
  /\ pending' = [pending EXCEPT ![r] = late[r]]
  /\ credited' = credited \cup late[r]
  /\ pass' = [pass EXCEPT ![r] = "waiting"]
  /\ UNCHANGED <<late, running>>
Follow(r) ==
  /\ followUp[r]
  /\ followUp' = [followUp EXCEPT ![r] = FALSE]
  /\ late' = [late EXCEPT ![r] = {}]
  /\ opened' = [opened EXCEPT ![r] = now]
  /\ pending' = [pending EXCEPT ![r] = late[r]]
  /\ credited' = credited \cup late[r]
  /\ pass' = [pass EXCEPT ![r] = "waiting"]
  /\ UNCHANGED running

RestMarked(r) ==
  /\ ~followUp[r]
  /\ opened' = [opened EXCEPT ![r] = NoTime]
  /\ pending' = [pending EXCEPT ![r] = {}]
  /\ pass' = [pass EXCEPT ![r] = "none"]
  /\ UNCHANGED <<running, followUp, late, credited>>
Rest(r) ==
  /\ ~followUp[r]
  /\ running' = [running EXCEPT ![r] = FALSE]
  /\ opened' = [opened EXCEPT ![r] = NoTime]
  /\ pending' = [pending EXCEPT ![r] = {}]
  /\ pass' = [pass EXCEPT ![r] = "none"]
  /\ UNCHANGED <<followUp, late, credited>>

PassFinished(r) ==
  /\ pass[r] = "read"
  /\ Follow(r) \/ Rest(r)
  /\ UNCHANGED <<admitted, seen, world, hooks, clock>>

-----------------------------------------------------------------------------
(* Where events come from.  A handler takes its timestamp before it has    *)
(* the bus, so timestamps may reach the bus out of order.                  *)

Timestamps == {time \in 0..now : time + Lag >= now}

\* A poll, or a hook with the repository's secret.
Trigger(r) ==
  /\ \E time \in Timestamps : Admit(r, time)
  /\ UNCHANGED <<seen, credited, pass, world, hooks, clock>>

Remembered(d) == \E i \in DOMAIN log : log[i] = d
Remember(d) == log' = Append(IF Len(log) >= Memory THEN Tail(log) ELSE log, d)

\* A delivery, sent for the first time or again; whatever is not authentic is
\* turned away before the ids are looked at.
DeliverUnchecked(d, authentic) ==
  /\ ~Remembered(d)
  /\ Remember(d)
  /\ IF d \in Unroutable \/ SentTo[d] \notin OptedIn \/ ~authentic
     THEN UNCHANGED <<bus, admitted, acted>>
     ELSE /\ \E time \in Timestamps : Admit(SentTo[d], time)
          /\ acted' = acted \cup {d}
  /\ UNCHANGED <<seen, credited, pass, world, clock>>
Deliver(d, authentic) ==
  /\ authentic /\ SentTo[d] \in OptedIn
  /\ ~Remembered(d)
  /\ Remember(d)
  /\ IF d \in Unroutable
     THEN UNCHANGED <<bus, admitted, acted>>
     ELSE /\ \E time \in Timestamps : Admit(SentTo[d], time)
          /\ acted' = acted \cup {d}
  /\ UNCHANGED <<seen, credited, pass, world, clock>>

-----------------------------------------------------------------------------
(* The scheduler: the kill switch first, and then the budget of the        *)
(* repository that is first; the others wait behind it.                    *)

Waiting == {r \in Repos : pass[r] = "waiting"}

Discover(r) ==
  /\ ~killed
  /\ r \in Waiting /\ \A s \in Waiting : r <= s
  /\ r \notin spent
  /\ pass' = [pass EXCEPT ![r] = "reading"]
  /\ UNCHANGED <<bus, admitted, seen, credited, world, hooks, clock>>

\* The moment at which the pass looks at the repository.
Read(r) ==
  /\ pass[r] = "reading"
  /\ pass' = [pass EXCEPT ![r] = "read"]
  /\ seen' = [seen EXCEPT ![r] = heard[r]]
  /\ UNCHANGED <<bus, admitted, credited, world, hooks, clock>>

-----------------------------------------------------------------------------
(* People, budgets and the clock.                                          *)

SetKilled ==
  /\ killed' = ~killed
  /\ UNCHANGED <<bus, admitted, seen, credited, pass, spent, hooks, clock>>

SetSpent(r) ==
  /\ r \in Capped
  /\ spent' = IF r \in spent THEN spent \ {r} ELSE spent \cup {r}
  /\ UNCHANGED <<bus, admitted, seen, credited, pass, killed, hooks, clock>>

Tick ==
  /\ now < Horizon + Window
  /\ now' = now + 1
  /\ UNCHANGED <<bus, admitted, seen, credited, pass, world, hooks, stepsBack>>

\* The clock is corrected.
StepBack ==
  /\ stepsBack < MaxStepsBack
  /\ stepsBack' = stepsBack + 1
  /\ now' \in 0..(now - 1)
  /\ UNCHANGED <<bus, admitted, seen, credited, pass, world, hooks>>

Next ==
  \/ DuePasses \/ Tick \/ StepBack \/ SetKilled
  \/ \E r \in Repos :
       Trigger(r) \/ PassFinished(r) \/ Discover(r) \/ Read(r) \/ SetSpent(r)
  \/ \E d \in Deliveries, authentic \in BOOLEAN : Deliver(d, authentic)

Spec == Init /\ [][Next]_vars

\* Time passes, the loop collects and asks, and a pass that started ends.
FairSpec ==
  /\ Spec
  /\ WF_vars(Tick) /\ WF_vars(DuePasses)
  /\ \A r \in Repos : WF_vars(Discover(r)) /\ WF_vars(Read(r) \/ PassFinished(r))

-----------------------------------------------------------------------------
(* Properties.                                                             *)

TypeOK ==
  /\ now \in Nat /\ stepsBack \in Nat
  /\ opened \in [Repos -> Nat \cup {NoTime}]
  /\ pending \in [Repos -> SUBSET (1..events)]
  /\ late \in [Repos -> SUBSET (1..events)]
  /\ running \in [Repos -> BOOLEAN] /\ followUp \in [Repos -> BOOLEAN]
  /\ events \in Nat
  /\ heard \in [Repos -> 0..events] /\ seen \in [Repos -> 0..events]
  /\ credited \subseteq 1..events
  /\ pass \in [Repos -> Passes]
  /\ log \in Seq(Deliveries) /\ Len(log) <= Memory /\ acted \subseteq Deliveries
  /\ killed \in BOOLEAN /\ spent \subseteq Repos

\* A read of the repository is still to come.
WillBeRead(r) ==
  \/ ~running[r] /\ opened[r] # NoTime /\ pending[r] # {}
  \/ pass[r] \in {"waiting", "reading"}
  \/ pass[r] = "read" /\ followUp[r]

\* No trigger is lost: whatever a repository was triggered for and has not been
\* read for since, in any order of events, passes and clock steps, it has a
\* window open, a pass that is still to read it, or a follow-up to come.
NoTriggerLost == \A r \in Repos : seen[r] < heard[r] => WillBeRead(r)

\* The bus and its caller agree on what is running: a repository is never
\* given out twice, and none stays marked with nobody working on it.
OnePassAtATime == \A r \in Repos : running[r] <=> pass[r] # "none"

\* A pass is earned: it carries at least one event that no pass was given out
\* for before, and none that one was, so a burst is read for once and the bus
\* does not go on re-reading.
PassesAreEarned ==
  [][\A r \in Repos :
       pass'[r] = "waiting" /\ pass[r] # "waiting" =>
         pending'[r] # {} /\ pending'[r] \cap credited = {}]_vars

\* A delivery is only remembered, and its repetitions dropped, once it was acted
\* on or found to be of no interest (webhook.rs: ids are recorded "Only now").
RememberedIsActedOn ==
  \A d \in Deliveries : Remembered(d) => d \in acted \cup Unroutable

\* Whatever a repository is triggered for is read in the end, if people and
\* budgets let passes start in the end.
TriggersAreRead ==
  <>[](~killed /\ spent = {}) => \A r \in Repos : seen[r] < heard[r] ~> seen[r] = heard[r]

\* Every event is named by the pass that is given out for it
\* (triggers.rs, DiscoveryPass::sources).
EverySourceContributes ==
  \A e \in 1..events :
    e \in credited \/ \E r \in Repos : e \in pending[r] \cup late[r]
=============================================================================
