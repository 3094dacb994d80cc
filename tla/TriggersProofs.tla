--------------------------- MODULE TriggersProofs ---------------------------
(***************************************************************************)
(* Proofs about Triggers, for any repositories, window, deliveries and     *)
(* bounds.                                                                 *)
(***************************************************************************)
EXTENDS Triggers, TLAPS

USE DEF NoTime, Passes

-----------------------------------------------------------------------------
(* What the steps do to the log of deliveries.                             *)

\* Remembering a delivery adds it, and may forget the oldest.
LEMMA RememberEffect ==
  ASSUME log \in Seq(Deliveries), Len(log) <= Memory, NEW d \in Deliveries, Remember(d)
  PROVE  /\ log' \in Seq(Deliveries) /\ Len(log') <= Memory
         /\ \A i \in DOMAIN log' : log'[i] = d \/ \E j \in DOMAIN log : log'[i] = log[j]
<1> USE WebhookAssumption
<1> DEFINE kept == IF Len(log) >= Memory THEN Tail(log) ELSE log
<1>1. kept \in Seq(Deliveries) /\ Len(kept) < Memory
  <2>1. CASE Len(log) >= Memory
    BY <2>1
  <2>2. CASE ~(Len(log) >= Memory)
    BY <2>2
  <2>3. QED
    BY <2>1, <2>2
<1>2. \A i \in DOMAIN kept : \E j \in DOMAIN log : kept[i] = log[j]
  <2>1. CASE Len(log) >= Memory
    <3>1. kept = Tail(log) /\ log # <<>>
      BY <2>1
    <3>2. Len(kept) = Len(log) - 1 /\ \A i \in 1..Len(kept) : kept[i] = log[i + 1]
      BY <3>1
    <3>3. QED
      BY <3>1, <3>2, <1>1
  <2>2. CASE ~(Len(log) >= Memory)
    BY <2>2
  <2>3. QED
    BY <2>1, <2>2
<1>3. log' = Append(kept, d)
  BY DEF Remember
<1> HIDE DEF kept
<1>4. \A i \in DOMAIN log' : log'[i] = d \/ (i \in DOMAIN kept /\ log'[i] = kept[i])
  BY <1>1, <1>3
<1>5. QED
  BY <1>1, <1>2, <1>3, <1>4

-----------------------------------------------------------------------------
(* Types.                                                                  *)

\* The part of the type invariant that a step of the bus can disturb.
BusTyped ==
  /\ opened \in [Repos -> Nat \cup {NoTime}]
  /\ pending \in [Repos -> SUBSET (1..events)]
  /\ late \in [Repos -> SUBSET (1..events)]
  /\ running \in [Repos -> BOOLEAN] /\ followUp \in [Repos -> BOOLEAN]
  /\ events \in Nat
  /\ heard \in [Repos -> 0..events]

LEMMA AdmitType ==
  ASSUME BusTyped, NEW r \in Repos, NEW time \in Nat, Admit(r, time)
  PROVE  BusTyped' /\ events' = events + 1
<1>1. /\ events' = events + 1 /\ events' \in Nat
      /\ 1..events \subseteq 1..events' /\ 0..events \subseteq 0..events'
      /\ events + 1 \in 1..events' /\ events + 1 \in 0..events'
  BY DEF Admit, BusTyped
<1>2. heard' \in [Repos -> 0..events']
  BY <1>1 DEF Admit, BusTyped
<1>3. CASE JoinFollowUp(r, events + 1)
  BY <1>1, <1>2, <1>3 DEF JoinFollowUp, BusTyped
<1>4. CASE FoldIn(r, events + 1, time)
  BY <1>1, <1>2, <1>4 DEF FoldIn, BusTyped
<1>5. CASE OpenWindow(r, events + 1, time)
  BY <1>1, <1>2, <1>5 DEF OpenWindow, BusTyped
<1>6. QED
  BY <1>1, <1>3, <1>4, <1>5 DEF Admit

LEMMA TypeInit == Init => TypeOK
<1>1. <<>> \in Seq(Deliveries) /\ Len(<<>>) <= Memory
  BY WebhookAssumption
<1>2. ASSUME Init PROVE TypeOK
  <2>1. /\ now \in Nat /\ stepsBack \in Nat /\ events = 0 /\ credited = {}
        /\ log \in Seq(Deliveries) /\ Len(log) <= Memory /\ acted = {}
        /\ killed \in BOOLEAN /\ spent = {}
    BY <1>1, <1>2 DEF Init
  <2>2. /\ running \in [Repos -> BOOLEAN] /\ followUp \in [Repos -> BOOLEAN]
        /\ pass \in [Repos -> Passes]
        /\ opened \in [Repos -> Nat \cup {NoTime}]
    BY <1>2 DEF Init
  <2>3. /\ heard \in [Repos -> 0..events] /\ seen \in [Repos -> 0..events]
        /\ pending \in [Repos -> SUBSET (1..events)]
        /\ late \in [Repos -> SUBSET (1..events)]
    BY <1>2, <2>1 DEF Init
  <2>4. QED
    BY <2>1, <2>2, <2>3 DEF TypeOK
<1>3. QED
  BY <1>2

LEMMA TypeStep == TypeOK /\ [Next]_vars => TypeOK'
<1> SUFFICES ASSUME TypeOK, [Next]_vars PROVE TypeOK'
  OBVIOUS
<1>0. BusTyped
  BY DEF TypeOK, BusTyped
<1>1. CASE UNCHANGED vars
  BY <1>1 DEF TypeOK, vars, bus, admitted, world, hooks, clock
<1>2. CASE DuePasses
  <2>1. UNION {pending[r] : r \in {x \in Repos : Due(x)}} \subseteq 1..events
    BY DEF TypeOK
  <2>2. QED
    BY <1>2, <2>1 DEF DuePasses, TypeOK, admitted, world, hooks, clock
<1>3. CASE Tick \/ StepBack \/ SetKilled
  <2>1. now' \in Nat /\ stepsBack' \in Nat
    <3>1. now \in Nat /\ stepsBack \in Nat
      BY DEF TypeOK
    <3>2. CASE Tick
      BY <3>1, <3>2 DEF Tick
    <3>3. CASE StepBack
      BY <3>1, <3>3 DEF StepBack
    <3>4. CASE SetKilled
      BY <3>1, <3>4 DEF SetKilled, clock
    <3>5. QED
      BY <1>3, <3>2, <3>3, <3>4
  <2>0. killed' \in BOOLEAN
    BY <1>3, Zenon DEF Tick, StepBack, SetKilled, TypeOK, world
  <2>2. UNCHANGED <<bus, admitted, seen, credited, pass, hooks, spent>>
    BY <1>3 DEF Tick, StepBack, SetKilled, world
  <2>3. QED
    BY <2>0, <2>1, <2>2 DEF TypeOK, bus, admitted, hooks
<1>4. ASSUME NEW r \in Repos, Trigger(r) PROVE TypeOK'
  <2>1. PICK time \in Nat : Admit(r, time)
    BY <1>4 DEF Trigger, Timestamps
  <2>2. BusTyped' /\ events' = events + 1
    BY <1>0, <2>1, AdmitType
  <2>3. QED
    BY <1>4, <2>2 DEF Trigger, TypeOK, BusTyped, world, hooks, clock
<1>5. ASSUME NEW r \in Repos, PassFinished(r) PROVE TypeOK'
  <2>1. CASE Follow(r)
    BY <1>5, <2>1 DEF PassFinished, Follow, TypeOK, admitted, world, hooks, clock
  <2>2. CASE Rest(r)
    BY <1>5, <2>2 DEF PassFinished, Rest, TypeOK, admitted, world, hooks, clock
  <2>3. QED
    BY <1>5, <2>1, <2>2 DEF PassFinished
<1>6. ASSUME NEW r \in Repos, Discover(r) \/ Read(r) PROVE TypeOK'
  BY <1>6 DEF Discover, Read, TypeOK, bus, admitted, world, hooks, clock
<1>7. ASSUME NEW r \in Repos, SetSpent(r) PROVE TypeOK'
  BY <1>7 DEF SetSpent, TypeOK, bus, admitted, hooks, clock
<1>8. ASSUME NEW d \in Deliveries, NEW authentic \in BOOLEAN, Deliver(d, authentic)
      PROVE  TypeOK'
  <2>1. log' \in Seq(Deliveries) /\ Len(log') <= Memory
    BY <1>8, RememberEffect DEF Deliver, TypeOK
  <2>2. CASE d \in Unroutable
    BY <1>8, <2>1, <2>2 DEF Deliver, TypeOK, bus, admitted, world, clock
  <2>3. CASE d \notin Unroutable
    <3>1. PICK time \in Nat : Admit(SentTo[d], time)
      BY <1>8, <2>3 DEF Deliver, Timestamps
    <3>2. BusTyped' /\ events' = events + 1
      BY <1>0, <3>1, AdmitType, WebhookAssumption
    <3>3. QED
      BY <1>8, <2>1, <2>3, <3>2 DEF Deliver, TypeOK, BusTyped, world, clock
  <2>4. QED
    BY <2>2, <2>3
<1>9. QED
  BY <1>1, <1>2, <1>3, <1>4, <1>5, <1>6, <1>7, <1>8 DEF Next

\* Every reachable state is typed, and the log of deliveries keeps to its size.
THEOREM TypeCorrect == Spec => []TypeOK
  BY TypeInit, TypeStep, PTL DEF Spec

-----------------------------------------------------------------------------
(* The bus.                                                                *)

\* What holds of one repository: the bus and the caller agree; there are late
\* events exactly when a follow-up is due; the events of a running pass have been
\* given out and no others have; and what was not read will be.
RepoInv(r) ==
  /\ running[r] <=> pass[r] # "none"
  /\ followUp[r] => running[r]
  /\ followUp[r] <=> late[r] # {}
  /\ ~running[r] => pending[r] \cap credited = {}
  /\ late[r] \cap credited = {}
  /\ seen[r] < heard[r] => WillBeRead(r)

\* Events belong to one repository.
Apart ==
  \A r, s \in Repos : r # s =>
    (pending[r] \cup late[r]) \cap (pending[s] \cup late[s]) = {}

BusInv == TypeOK /\ Apart /\ \A r \in Repos : RepoInv(r)

\* An event that is admitted is new, and belongs to its repository alone.
LEMMA AdmitKeeps ==
  ASSUME BusInv, NEW r \in Repos, NEW time \in Nat, Admit(r, time),
         UNCHANGED <<seen, credited, pass>>
  PROVE  Apart' /\ \A s \in Repos : RepoInv(s)'
<1> DEFINE e == events + 1
<1>1. /\ e \notin credited
      /\ \A s \in Repos : e \notin pending[s] /\ e \notin late[s]
  BY DEF BusInv, TypeOK
<1>2. heard' = [heard EXCEPT ![r] = e]
  BY DEF Admit
<1>3. ASSUME NEW s \in Repos, s # r PROVE RepoInv(s)'
  <2>1. /\ pending'[s] = pending[s] /\ late'[s] = late[s] /\ opened'[s] = opened[s]
        /\ running'[s] = running[s] /\ followUp'[s] = followUp[s] /\ heard'[s] = heard[s]
    BY <1>2, <1>3 DEF Admit, JoinFollowUp, FoldIn, OpenWindow, BusInv, TypeOK
  <2>2. RepoInv(s)
    BY DEF BusInv
  <2>3. QED
    BY <2>1, <2>2 DEF RepoInv, WillBeRead
<1>4. RepoInv(r) /\ time # NoTime
  BY DEF BusInv
<1>5. CASE JoinFollowUp(r, e)
  <2>1. /\ running[r] /\ followUp'[r] /\ late'[r] = late[r] \cup {e}
        /\ opened' = opened /\ pending' = pending /\ running' = running
        /\ \A s \in Repos : s # r => late'[s] = late[s]
    BY <1>5 DEF JoinFollowUp, BusInv, TypeOK
  <2>2. RepoInv(r)'
    BY <1>1, <1>4, <2>1 DEF RepoInv, WillBeRead, BusInv, TypeOK
  <2>3. Apart'
    BY <1>1, <2>1 DEF Apart, BusInv
  <2>4. QED
    BY <1>3, <2>2, <2>3
<1>6. CASE FoldIn(r, e, time) \/ OpenWindow(r, e, time)
  <2>1. /\ ~running[r] /\ opened'[r] # NoTime
        /\ pending'[r] \in {pending[r] \cup {e}, {e}}
        /\ late' = late /\ running' = running /\ followUp' = followUp
        /\ \A s \in Repos : s # r => pending'[s] = pending[s]
    BY <1>4, <1>6 DEF FoldIn, OpenWindow, BusInv, TypeOK
  <2>2. RepoInv(r)'
    BY <1>1, <1>4, <2>1 DEF RepoInv, WillBeRead
  <2>3. Apart'
    BY <1>1, <2>1 DEF Apart, BusInv
  <2>4. QED
    BY <1>3, <2>2, <2>3
<1>7. QED
  BY <1>5, <1>6 DEF Admit

\* Giving out what is due credits the events of those repositories only.
LEMMA DueKeeps ==
  ASSUME BusInv, DuePasses
  PROVE  Apart' /\ \A s \in Repos : RepoInv(s)'
<1> DEFINE due == {r \in Repos : Due(r)}
<1>1. /\ running' = [r \in Repos |-> running[r] \/ r \in due]
      /\ pass' = [r \in Repos |-> IF r \in due THEN "waiting" ELSE pass[r]]
      /\ credited' = credited \cup UNION {pending[r] : r \in due}
      /\ UNCHANGED <<opened, pending, followUp, late, heard, seen>>
  BY DEF DuePasses, admitted
<1>2. Apart'
  BY <1>1 DEF Apart, BusInv
<1>3. ASSUME NEW s \in Repos PROVE RepoInv(s)'
  <2>1. RepoInv(s)
    BY DEF BusInv
  <2>2. CASE s \in due
    <3>1. ~running[s] /\ late[s] = {} /\ ~followUp[s]
      BY <2>1, <2>2 DEF Due, RepoInv
    <3>2. running'[s]
      BY <1>1, <2>2, Zenon
    <3>3. pass'[s] = "waiting"
      BY <1>1, <2>2
    <3>4. QED
      BY <1>1, <2>1, <3>1, <3>2, <3>3 DEF RepoInv, WillBeRead
  <2>3. CASE s \notin due
    <3>1. running'[s] <=> running[s]
      BY <1>1, <2>3, Zenon
    <3>2. pass'[s] = pass[s]
      BY <1>1, <2>3
    <3>3. ASSUME NEW r \in due PROVE (pending[s] \cup late[s]) \cap pending[r] = {}
      BY <2>3 DEF Apart, BusInv
    <3>4. /\ pending[s] \cap credited = {} => pending[s] \cap credited' = {}
          /\ late[s] \cap credited = {} => late[s] \cap credited' = {}
      BY <1>1, <3>3
    <3>5. QED
      BY <1>1, <2>1, <3>1, <3>2, <3>4 DEF RepoInv, WillBeRead
  <2>4. QED
    BY <2>2, <2>3
<1>4. QED
  BY <1>2, <1>3

\* A follow-up credits the late events of its repository only, and a repository
\* that rests has been read for everything.
LEMMA FinishKeeps ==
  ASSUME BusInv, NEW r \in Repos, PassFinished(r)
  PROVE  Apart' /\ \A s \in Repos : RepoInv(s)'
<1>1. pass[r] = "read" /\ RepoInv(r) /\ UNCHANGED <<heard, seen>>
  BY DEF PassFinished, BusInv, admitted
<1>2. CASE Follow(r)
  <2>1. /\ followUp[r] /\ ~followUp'[r] /\ late'[r] = {} /\ pending'[r] = late[r]
        /\ credited' = credited \cup late[r] /\ pass'[r] = "waiting"
        /\ running' = running
    BY <1>2 DEF Follow, BusInv, TypeOK
  <2>2. ASSUME NEW s \in Repos, s # r
        PROVE  /\ followUp'[s] = followUp[s] /\ late'[s] = late[s]
               /\ pending'[s] = pending[s] /\ pass'[s] = pass[s] /\ opened'[s] = opened[s]
    BY <1>2, <2>2 DEF Follow, BusInv, TypeOK
  <2>3. RepoInv(r)'
    BY <1>1, <2>1 DEF RepoInv, WillBeRead
  <2>4. ASSUME NEW s \in Repos, s # r PROVE RepoInv(s)'
    <3>1. RepoInv(s) /\ (pending[s] \cup late[s]) \cap late[r] = {}
      BY <2>4 DEF BusInv, Apart
    <3>2. QED
      BY <1>1, <2>1, <2>2, <2>4, <3>1 DEF RepoInv, WillBeRead
  <2>5. Apart'
    BY <2>1, <2>2 DEF Apart, BusInv
  <2>6. QED
    BY <2>3, <2>4, <2>5
<1>3. CASE Rest(r)
  <2>1. /\ ~followUp[r] /\ ~running'[r] /\ pending'[r] = {} /\ pass'[r] = "none"
        /\ followUp' = followUp /\ late' = late /\ credited' = credited
    BY <1>3 DEF Rest, BusInv, TypeOK
  <2>2. ASSUME NEW s \in Repos, s # r
        PROVE  /\ running'[s] = running[s]
               /\ pending'[s] = pending[s] /\ pass'[s] = pass[s] /\ opened'[s] = opened[s]
    BY <1>3, <2>2 DEF Rest, BusInv, TypeOK
  <2>3. RepoInv(r)'
    BY <1>1, <2>1 DEF RepoInv, WillBeRead
  <2>4. ASSUME NEW s \in Repos, s # r PROVE RepoInv(s)'
    <3>1. RepoInv(s)
      BY DEF BusInv
    <3>2. QED
      BY <1>1, <2>1, <2>2, <2>4, <3>1 DEF RepoInv, WillBeRead
  <2>5. Apart'
    BY <2>1, <2>2 DEF Apart, BusInv
  <2>6. QED
    BY <2>3, <2>4, <2>5
<1>4. QED
  BY <1>2, <1>3 DEF PassFinished

\* The caller's own steps.
LEMMA CallerKeeps ==
  ASSUME BusInv, NEW r \in Repos, Discover(r) \/ Read(r)
  PROVE  Apart' /\ \A s \in Repos : RepoInv(s)'
<1>1. UNCHANGED <<opened, pending, running, followUp, late, heard, credited>>
  BY DEF Discover, Read, bus, admitted
<1>2. Apart'
  BY <1>1 DEF Apart, BusInv
<1>3. ASSUME NEW s \in Repos PROVE RepoInv(s)'
  <2>1. RepoInv(s) /\ RepoInv(r)
    BY DEF BusInv
  <2>2. CASE Discover(r)
    <3>1. /\ pass[r] = "waiting" /\ pass'[r] = "reading" /\ seen' = seen
          /\ s # r => pass'[s] = pass[s]
      BY <2>2 DEF Discover, Waiting, BusInv, TypeOK
    <3>2. QED
      BY <1>1, <2>1, <3>1 DEF RepoInv, WillBeRead
  <2>3. CASE Read(r)
    <3>1. /\ pass[r] = "reading" /\ pass'[r] = "read" /\ seen'[r] = heard[r]
          /\ heard[r] \in Nat
          /\ s # r => pass'[s] = pass[s] /\ seen'[s] = seen[s]
      BY <2>3 DEF Read, BusInv, TypeOK
    <3>2. QED
      BY <1>1, <2>1, <3>1 DEF RepoInv, WillBeRead
  <2>4. QED
    BY <2>2, <2>3
<1>4. QED
  BY <1>2, <1>3

LEMMA BusInit == Init => BusInv
<1> SUFFICES ASSUME Init PROVE BusInv
  OBVIOUS
<1>1. TypeOK
  BY TypeInit
<1>2. \A r \in Repos :
        /\ pending[r] = {} /\ late[r] = {} /\ ~running[r] /\ ~followUp[r]
        /\ pass[r] = "none" /\ heard[r] = 0 /\ seen[r] = 0
  BY DEF Init
<1>3. QED
  BY <1>1, <1>2 DEF BusInv, Apart, RepoInv

LEMMA BusStep == BusInv /\ [Next]_vars => BusInv'
<1> SUFFICES ASSUME BusInv, [Next]_vars PROVE BusInv'
  OBVIOUS
<1>1. TypeOK'
  BY TypeStep DEF BusInv
<1>2. Apart' /\ \A s \in Repos : RepoInv(s)'
  <2>1. ASSUME UNCHANGED <<bus, admitted, seen, credited, pass>>
        PROVE  Apart' /\ \A s \in Repos : RepoInv(s)'
    BY <2>1 DEF BusInv, Apart, RepoInv, WillBeRead, bus, admitted
  <2>2. CASE DuePasses
    BY <2>2, DueKeeps
  <2>3. CASE Tick \/ StepBack \/ SetKilled
    BY <2>1, <2>3 DEF Tick, StepBack, SetKilled
  <2>4. ASSUME NEW r \in Repos, Trigger(r) PROVE Apart' /\ \A s \in Repos : RepoInv(s)'
    <3>1. PICK time \in Nat : Admit(r, time)
      BY <2>4 DEF Trigger, Timestamps
    <3>2. QED
      BY <2>4, <3>1, AdmitKeeps DEF Trigger
  <2>5. ASSUME NEW r \in Repos, PassFinished(r) PROVE Apart' /\ \A s \in Repos : RepoInv(s)'
    BY <2>5, FinishKeeps
  <2>6. ASSUME NEW r \in Repos, Discover(r) \/ Read(r)
        PROVE  Apart' /\ \A s \in Repos : RepoInv(s)'
    BY <2>6, CallerKeeps
  <2>7. ASSUME NEW r \in Repos, SetSpent(r) PROVE Apart' /\ \A s \in Repos : RepoInv(s)'
    BY <2>1, <2>7 DEF SetSpent
  <2>8. ASSUME NEW d \in Deliveries, NEW authentic \in BOOLEAN, Deliver(d, authentic)
        PROVE  Apart' /\ \A s \in Repos : RepoInv(s)'
    <3>1. CASE d \in Unroutable
      BY <2>1, <2>8, <3>1 DEF Deliver
    <3>2. CASE d \notin Unroutable
      <4>1. PICK time \in Nat : Admit(SentTo[d], time)
        BY <2>8, <3>2 DEF Deliver, Timestamps
      <4>2. SentTo[d] \in Repos /\ UNCHANGED <<seen, credited, pass>>
        BY <2>8, WebhookAssumption DEF Deliver
      <4>3. QED
        BY <4>1, <4>2, AdmitKeeps
    <3>3. QED
      BY <3>1, <3>2
  <2>9. CASE UNCHANGED vars
    BY <2>1, <2>9 DEF vars
  <2>10. QED
    BY <2>2, <2>3, <2>4, <2>5, <2>6, <2>7, <2>8, <2>9 DEF Next
<1>3. QED
  BY <1>1, <1>2 DEF BusInv

LEMMA BusCorrect == Spec => []BusInv
  BY BusInit, BusStep, PTL DEF Spec

-----------------------------------------------------------------------------
(* The theorems.                                                           *)

\* No trigger is lost, whatever the order of events, passes and clock steps.
THEOREM NothingLost == Spec => []NoTriggerLost
<1>1. BusInv => NoTriggerLost
  BY DEF BusInv, RepoInv, NoTriggerLost
<1>2. QED
  BY <1>1, BusCorrect, PTL

\* The bus has a repository marked as running exactly while the caller has a
\* pass of it.
THEOREM OneAtATime == Spec => []OnePassAtATime
<1>1. BusInv => OnePassAtATime
  BY DEF BusInv, RepoInv, OnePassAtATime
<1>2. QED
  BY <1>1, BusCorrect, PTL

\* A pass that is given out carries an event, and none that another pass carried.
THEOREM Earned == Spec => PassesAreEarned
<1>1. ASSUME BusInv, [Next]_vars, NEW r \in Repos, pass'[r] = "waiting", pass[r] # "waiting"
      PROVE  pending'[r] # {} /\ pending'[r] \cap credited = {}
  <2>1. RepoInv(r)
    BY <1>1 DEF BusInv
  <2>2. CASE DuePasses
    <3>1. Due(r) /\ pending' = pending
      BY <1>1, <2>2 DEF DuePasses
    <3>2. QED
      BY <2>1, <3>1 DEF Due, RepoInv
  <2>3. ASSUME NEW s \in Repos, PassFinished(s)
        PROVE  pending'[r] # {} /\ pending'[r] \cap credited = {}
    <3>1. CASE Follow(s)
      <4>1. s = r
        BY <1>1, <3>1 DEF Follow, BusInv, TypeOK
      <4>2. followUp[r] /\ pending'[r] = late[r]
        BY <1>1, <3>1, <4>1 DEF Follow, BusInv, TypeOK
      <4>3. QED
        BY <2>1, <4>2 DEF RepoInv
    <3>2. CASE Rest(s)
      BY <1>1, <3>2 DEF Rest, BusInv, TypeOK
    <3>3. QED
      BY <2>3, <3>1, <3>2 DEF PassFinished
  <2>4. ASSUME NEW s \in Repos, Discover(s) \/ Read(s) PROVE FALSE
    BY <1>1, <2>4 DEF Discover, Read, BusInv, TypeOK
  <2>5. pass' # pass
    BY <1>1
  <2>6. QED
    BY <1>1, <2>2, <2>3, <2>4, <2>5
    DEF Next, Tick, StepBack, SetKilled, Trigger, SetSpent, Deliver, vars
<1>2. BusInv /\ [Next]_vars =>
        [\A r \in Repos : pass'[r] = "waiting" /\ pass[r] # "waiting" =>
           pending'[r] # {} /\ pending'[r] \cap credited = {}]_vars
  BY <1>1
<1>3. QED
  BY <1>2, BusCorrect, PTL DEF Spec, PassesAreEarned

\* A delivery whose repetitions are dropped was acted on, or is of no interest.
THEOREM ActedOn == Spec => []RememberedIsActedOn
<1> DEFINE I == TypeOK /\ RememberedIsActedOn
<1>1. Init => I
  <2>1. Init => RememberedIsActedOn
    BY DEF Init, RememberedIsActedOn, Remembered
  <2>2. QED
    BY <2>1, TypeInit
<1>2. I /\ [Next]_vars => I'
  <2> SUFFICES ASSUME I, [Next]_vars PROVE RememberedIsActedOn'
    BY TypeStep
  <2>1. CASE UNCHANGED hooks
    BY <2>1 DEF hooks, RememberedIsActedOn, Remembered
  <2>2. ASSUME NEW d \in Deliveries, NEW authentic \in BOOLEAN, Deliver(d, authentic)
        PROVE  RememberedIsActedOn'
    <3>1. \A i \in DOMAIN log' : log'[i] = d \/ \E j \in DOMAIN log : log'[i] = log[j]
      BY <2>2, RememberEffect DEF Deliver, TypeOK
    <3>2. d \in acted' \cup Unroutable /\ acted \subseteq acted'
      BY <2>2 DEF Deliver
    <3>3. QED
      BY <3>1, <3>2 DEF RememberedIsActedOn, Remembered
  <2>3. QED
    BY <2>1, <2>2
    DEF Next, DuePasses, Tick, StepBack, SetKilled, Trigger, PassFinished, Discover, Read,
        SetSpent, vars
<1>3. QED
  BY <1>1, <1>2, PTL DEF Spec
=============================================================================
