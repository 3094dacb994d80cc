---------------------------- MODULE SourcesProofs ----------------------------
(***************************************************************************)
(* Where changes come from, for every history: no cursor steps over a      *)
(* change (GitSource, SvnSource), a run is reviewed in its own tree and    *)
(* leaves none behind (Workspace), a backfill goes through the past        *)
(* without a gap (Backfill), and a finding on a branch gives way just to   *)
(* one on the branch's merge (SvnSource).                                  *)
(***************************************************************************)
EXTENDS MCSources, FiniteSetTheorems, SequenceTheorems, WellFoundedInduction, TLAPS

-----------------------------------------------------------------------------
(* The smallest and the largest of a set of numbers.                       *)

\* A set of natural numbers that is not empty has a smallest element.
LEMMA Smallest ==
  ASSUME NEW S \in SUBSET Nat, S # {}
  PROVE  \E m \in S : \A i \in S : m <= i
<1> DEFINE Less == {ss \in Nat \X Nat : ss[1] < ss[2]}
<1>1. IsWellFoundedOn(Less, Nat)
  BY NatLessThanWellFounded DEF OpToRel
<1>2. \A i, j \in Nat : i < j => <<i, j>> \in Less
  OBVIOUS
<1> HIDE DEF Less
<1>3. PICK m \in S : \A i \in S : <<i, m>> \notin Less
  BY <1>1, WFMin
<1>4. ASSUME NEW i \in S PROVE m <= i
  <2>1. i \in Nat /\ m \in Nat
    OBVIOUS
  <2>2. ~(i < m)
    BY <1>2, <1>3, <2>1
  <2> QED
    BY <2>1, <2>2
<1> QED
  BY <1>4

\* One that has an upper bound has a largest.
LEMMA Largest ==
  ASSUME NEW n \in Nat, NEW S \in SUBSET (0..n), S # {}
  PROVE  \E m \in S : \A i \in S : i <= m
<1> DEFINE T == {n - i : i \in S}
<1>0. \A i \in S : i \in Nat /\ n - i \in Nat /\ n - i \in T
  OBVIOUS
<1>1. T \in SUBSET Nat /\ T # {}
  BY <1>0
<1>2. PICK k \in T : \A j \in T : k <= j
  BY <1>1, Smallest
<1>3. PICK m \in S : k = n - m
  BY <1>2
<1>4. \A i \in S : i <= m
  <2> TAKE i \in S
  <2>1. n - m <= n - i /\ i \in Nat /\ m \in Nat
    BY <1>0, <1>2, <1>3
  <2> QED
    BY <2>1
<1> QED
  BY <1>4

-----------------------------------------------------------------------------
(* Trees under review.                                                     *)

Bare == {"is_bare", "worktree_add", "archive", "export"}
Laid == {"parents", "message", "diff", "numstat", "name_status", "summarize", "log", "binaries"}

WorkspaceTypeOK ==
  /\ tool \in {"git", "bare", "svn"} /\ created \in Nat
  /\ row \in [Ids -> 0..created] /\ dir \in [Ids -> SUBSET (0..created)]
  /\ step \in [Ids -> {"none", "new", "ready", "succeeded", "failed"} \cup Bare \cup Laid]
  /\ child \in [Ids -> {"none", "running"}]
  /\ context = [i \in Ids |-> context[i]]

\* What the step of a run says of its tree: before the command that writes there is
\* nothing in it, after it there is the change of its row, and what another run may
\* have left under its id is not of that change.
TreeOf(i) ==
  /\ step[i] = "new" => row[i] \notin dir[i]
  /\ step[i] \in Bare => dir[i] = {Nothing}
  /\ step[i] \in Laid \cup {"ready"} => dir[i] = {Nothing, row[i]} /\ i \in whole
  /\ step[i] = "succeeded" => dir[i] = {}
  /\ step[i] = "failed" /\ ~KeepOnFailure /\ i \notin crashed => dir[i] = {} \/ row[i] \notin dir[i]

RunOf(i) ==
  /\ Over(step[i]) \/ row[i] # Nothing
  /\ step[i] \in {"none", "new", "ready", "succeeded", "failed"} \/ Running(step[i])
  /\ child[i] = "running" => Running(step[i])
  /\ step[i] = "ready" => context[i] = FileDiffs(row[i])
  /\ i \in strays /\ i \notin crashed => tool = "svn"

WorkspaceInv == WorkspaceTypeOK /\ \A i \in Ids : TreeOf(i) /\ RunOf(i)

\* The order of the commands of each tool: one writes, those before it do not need
\* what it writes.
LEMMA Order ==
  ASSUME tool \in {"git", "bare", "svn"}, NEW s, Running(s)
  PROVE  /\ s \in Bare \cup Laid
         /\ s \in Writes => After(s) \in Laid /\ Running(After(s))
         /\ s \in Bare \ Writes => After(s) \in Bare /\ Running(After(s))
         /\ s \in Laid => After(s) = "ready" \/ (After(s) \in Laid /\ Running(After(s)))
<1>1. CASE tool = "git"
  <2>1. Commands = <<"is_bare", "worktree_add", "parents", "message", "diff", "numstat", "name_status">>
    BY <1>1 DEF Commands
  <2>2. DOMAIN Commands = 1..7 /\ Len(Commands) = 7
    BY <2>1
  <2>3. PICK k \in 1..7 : Commands[k] = s
    BY <2>2 DEF Running
  <2>4. \A j, l \in 1..7 : Commands[j] = Commands[l] => j = l
    BY <2>1
  <2>5. Position(s) = k
    BY <2>2, <2>3, <2>4 DEF Position
  <2>6. After(s) = IF k = 7 THEN "ready" ELSE Commands[k + 1]
    BY <2>2, <2>5 DEF After
  <2>7. k < 7 => Running(After(s))
    BY <2>2, <2>6 DEF Running
  <2>8. k \in {1, 2, 3, 4, 5, 6, 7}
    OBVIOUS
  <2> QED
    BY <2>1, <2>3, <2>6, <2>7, <2>8 DEF Bare, Laid, Writes
<1>2. CASE tool = "bare"
  <2>1. Commands = <<"is_bare", "archive", "parents", "message", "diff", "numstat", "name_status">>
    BY <1>2 DEF Commands
  <2>2. DOMAIN Commands = 1..7 /\ Len(Commands) = 7
    BY <2>1
  <2>3. PICK k \in 1..7 : Commands[k] = s
    BY <2>2 DEF Running
  <2>4. \A j, l \in 1..7 : Commands[j] = Commands[l] => j = l
    BY <2>1
  <2>5. Position(s) = k
    BY <2>2, <2>3, <2>4 DEF Position
  <2>6. After(s) = IF k = 7 THEN "ready" ELSE Commands[k + 1]
    BY <2>2, <2>5 DEF After
  <2>7. k < 7 => Running(After(s))
    BY <2>2, <2>6 DEF Running
  <2>8. k \in {1, 2, 3, 4, 5, 6, 7}
    OBVIOUS
  <2> QED
    BY <2>1, <2>3, <2>6, <2>7, <2>8 DEF Bare, Laid, Writes
<1>3. CASE tool = "svn"
  <2>1. Commands = <<"export", "diff", "summarize", "log", "binaries">>
    BY <1>3 DEF Commands
  <2>2. DOMAIN Commands = 1..5 /\ Len(Commands) = 5
    BY <2>1
  <2>3. PICK k \in 1..5 : Commands[k] = s
    BY <2>2 DEF Running
  <2>4. \A j, l \in 1..5 : Commands[j] = Commands[l] => j = l
    BY <2>1
  <2>5. Position(s) = k
    BY <2>2, <2>3, <2>4 DEF Position
  <2>6. After(s) = IF k = 5 THEN "ready" ELSE Commands[k + 1]
    BY <2>2, <2>5 DEF After
  <2>7. k < 5 => Running(After(s))
    BY <2>2, <2>6 DEF Running
  <2>8. k \in {1, 2, 3, 4, 5}
    OBVIOUS
  <2> QED
    BY <2>1, <2>3, <2>6, <2>7, <2>8 DEF Bare, Laid, Writes
<1> QED
  BY <1>1, <1>2, <1>3

LEMMA FirstIsBare == tool \in {"git", "bare", "svn"} => Running(Commands[1]) /\ Commands[1] \in Bare
<1>1. tool \in {"git", "bare", "svn"} => 1 \in DOMAIN Commands /\ Commands[1] \in Bare
  BY DEF Commands, Bare
<1> QED
  BY <1>1 DEF Running

\* What happens to one run leaves the others as they are.
LEMMA OthersStay ==
  ASSUME NEW j \in Ids, TreeOf(j), RunOf(j), tool' = tool, row'[j] = row[j], step'[j] = step[j],
         dir'[j] = dir[j], j \in whole => j \in whole', child'[j] = child[j], context'[j] = context[j],
         j \in strays' => j \in strays, crashed' = crashed
  PROVE  TreeOf(j)' /\ RunOf(j)'
<1>1. TreeOf(j)'
  BY DEF TreeOf
<1>2. FileDiffs(row[j])' = FileDiffs(row[j]) /\ \A s : Running(s)' = Running(s)
  BY DEF FileDiffs, Noted, Status, Running, Commands
<1>3. RunOf(j)'
  BY <1>2 DEF RunOf, Over, Running, Commands, FileDiffs, Noted, Status
<1> QED
  BY <1>1, <1>3

\* A command, or the run with it, comes to nothing.
LEMMA NothingInv ==
  ASSUME WorkspaceInv, NEW i \in Ids, Running(step[i]), ComesToNothing(i),
         tool' = tool, row' = row, created' = created, crashed' = crashed,
         child'[i] = "none", child' \in {child, [child EXCEPT ![i] = "none"]},
         strays' = strays \/ (strays' = strays \cup {i} /\ tool = "svn")
  PROVE  WorkspaceInv'
<1>1. WorkspaceTypeOK /\ TreeOf(i) /\ RunOf(i)
  BY DEF WorkspaceInv
<1>2. step[i] \in Bare \cup Laid
  BY <1>1, Order DEF WorkspaceTypeOK
<1>3. \/ /\ step[i] = "binaries" /\ step' = [step EXCEPT ![i] = "ready"] /\ dir' = dir /\ whole' = whole
         /\ context' = [context EXCEPT ![i] = FileDiffs(row[i])]
      \/ /\ step' = [step EXCEPT ![i] = "failed"] /\ context' = context
         /\ \/ KeepOnFailure /\ dir' = dir /\ whole' = whole
            \/ dir' = [dir EXCEPT ![i] = {}] /\ whole' = whole \ {i}
  BY DEF ComesToNothing, Settle, WillBeKept
<1>4. WorkspaceTypeOK'
  BY <1>1, <1>3 DEF WorkspaceTypeOK
<1>5. TreeOf(i)'
  BY <1>1, <1>2, <1>3 DEF TreeOf, WorkspaceTypeOK, Bare, Laid
<1>6. RunOf(i)'
  <2>1. FileDiffs(row[i])' = FileDiffs(row[i])
    BY DEF FileDiffs, Noted, Status
  <2>2. Over(step[i]) = FALSE /\ row[i] # Nothing
    BY <1>1, <1>2 DEF Over, RunOf, Bare, Laid
  <2>3. step'[i] \in {"ready", "failed"}
    BY <1>1, <1>3 DEF WorkspaceTypeOK
  <2>4. step'[i] = "ready" => context'[i] = FileDiffs(row[i])
    BY <1>1, <1>3 DEF WorkspaceTypeOK
  <2>5. i \in strays' /\ i \notin crashed => tool = "svn"
    BY <1>1 DEF RunOf
  <2> QED
    BY <2>1, <2>2, <2>3, <2>4, <2>5 DEF RunOf
<1>7. ASSUME NEW j \in Ids, j # i PROVE TreeOf(j)' /\ RunOf(j)'
  <2>1. TreeOf(j) /\ RunOf(j)
    BY DEF WorkspaceInv
  <2>2. row'[j] = row[j] /\ step'[j] = step[j] /\ dir'[j] = dir[j] /\ child'[j] = child[j] /\ context'[j] = context[j]
    BY <1>1, <1>3, <1>7 DEF WorkspaceTypeOK
  <2>3. (j \in whole => j \in whole') /\ (j \in strays' => j \in strays)
    BY <1>3, <1>7
  <2> QED
    BY <2>1, <2>2, <2>3, OthersStay
<1> QED
  BY <1>4, <1>5, <1>6, <1>7 DEF WorkspaceInv

LEMMA CreateInv == ASSUME WorkspaceInv, NEW i \in Ids, Create(i) PROVE WorkspaceInv'
<1>1. WorkspaceTypeOK /\ TreeOf(i) /\ RunOf(i)
  BY DEF WorkspaceInv
<1>2. /\ step[i] = "new" /\ UNCHANGED <<tool, row, whole, child, context, strays, crashed, created>>
      /\ \/ dir[i] # {} /\ step' = [step EXCEPT ![i] = "failed"] /\ dir' = dir
         \/ dir[i] = {} /\ step' = [step EXCEPT ![i] = Commands[1]] /\ dir' = [dir EXCEPT ![i] = @ \cup {Nothing}]
  BY DEF Create, Refused
<1>3. Running(Commands[1]) /\ Commands[1] \in Bare
  BY <1>1, FirstIsBare DEF WorkspaceTypeOK
<1>4. WorkspaceTypeOK'
  BY <1>1, <1>2, <1>3 DEF WorkspaceTypeOK, Nothing
<1>5. TreeOf(i)'
  BY <1>1, <1>2, <1>3 DEF TreeOf, WorkspaceTypeOK, Bare, Laid
<1>6. RunOf(i)'
  <2>1. step'[i] = "failed" \/ (step'[i] = Commands[1] /\ Commands[1] \in Bare)
    BY <1>1, <1>2, <1>3 DEF WorkspaceTypeOK
  <2>2. Running(Commands[1])'
    BY <1>2, <1>3 DEF Running, Commands
  <2>3. Commands' = Commands
    BY <1>2 DEF Commands
  <2>4. row[i] # Nothing
    BY <1>1, <1>2 DEF RunOf, Over
  <2>5. child[i] # "running"
    <3>1. ~Running("new")
      <4>1. "new" \notin Bare \cup Laid
        BY DEF Bare, Laid
      <4> QED
        BY <1>1, <4>1, Order DEF WorkspaceTypeOK
    <3> QED
      BY <1>1, <1>2, <3>1 DEF RunOf
  <2>6. step'[i] \notin {"ready"}
    BY <2>1 DEF Bare
  <2> QED
    BY <1>1, <1>2, <2>1, <2>2, <2>3, <2>4, <2>5, <2>6 DEF RunOf
<1>7. ASSUME NEW j \in Ids, j # i PROVE TreeOf(j)' /\ RunOf(j)'
  <2>1. TreeOf(j) /\ RunOf(j)
    BY DEF WorkspaceInv
  <2>2. step'[j] = step[j] /\ dir'[j] = dir[j]
    BY <1>1, <1>2, <1>7 DEF WorkspaceTypeOK
  <2> QED
    BY <1>2, <2>1, <2>2, OthersStay
<1> QED
  BY <1>4, <1>5, <1>6, <1>7 DEF WorkspaceInv

LEMMA SpawnInv == ASSUME WorkspaceInv, NEW i \in Ids, Spawn(i) PROVE WorkspaceInv'
<1>1. WorkspaceTypeOK /\ TreeOf(i) /\ RunOf(i)
  BY DEF WorkspaceInv
<1>2. /\ Running(step[i]) /\ child' = [child EXCEPT ![i] = "running"]
      /\ UNCHANGED <<tool, row, step, dir, whole, context, strays, crashed, created>>
  BY DEF Spawn
<1>3. WorkspaceTypeOK'
  BY <1>1, <1>2 DEF WorkspaceTypeOK
<1>4. TreeOf(i)'
  BY <1>1, <1>2 DEF TreeOf
<1>5. RunOf(i)'
  <2>1. FileDiffs(row[i])' = FileDiffs(row[i]) /\ Running(step[i])' /\ Over(step[i])' = Over(step[i])
    BY <1>2 DEF FileDiffs, Noted, Status, Running, Commands, Over
  <2> QED
    BY <1>1, <1>2, <2>1 DEF RunOf
<1>6. ASSUME NEW j \in Ids, j # i PROVE TreeOf(j)' /\ RunOf(j)'
  <2>1. TreeOf(j) /\ RunOf(j)
    BY DEF WorkspaceInv
  <2>2. child'[j] = child[j]
    BY <1>1, <1>2, <1>6 DEF WorkspaceTypeOK
  <2> QED
    BY <1>2, <2>1, <2>2, OthersStay
<1> QED
  BY <1>3, <1>4, <1>5, <1>6 DEF WorkspaceInv

LEMMA SucceedsInv == ASSUME WorkspaceInv, NEW i \in Ids, Succeeds(i) PROVE WorkspaceInv'
<1>1. WorkspaceTypeOK /\ TreeOf(i) /\ RunOf(i)
  BY DEF WorkspaceInv
<1>2. /\ child[i] = "running" /\ child' = [child EXCEPT ![i] = "none"]
      /\ step' = [step EXCEPT ![i] = After(step[i])]
      /\ context' = IF After(step[i]) = "ready" THEN [context EXCEPT ![i] = FileDiffs(row[i])] ELSE context
      /\ UNCHANGED <<tool, row, strays, crashed, created>>
      /\ \/ /\ step[i] \in Writes /\ dir' = [dir EXCEPT ![i] = @ \cup {row[i]}] /\ whole' = whole \cup {i}
         \/ step[i] \notin Writes /\ dir' = dir /\ whole' = whole
  BY DEF Succeeds, Ended
<1>3. Running(step[i])
  BY <1>1, <1>2 DEF RunOf
<1>4. /\ step[i] \in Bare \cup Laid
      /\ step[i] \in Writes => After(step[i]) \in Laid /\ Running(After(step[i]))
      /\ step[i] \in Bare \ Writes => After(step[i]) \in Bare /\ Running(After(step[i]))
      /\ step[i] \in Laid => After(step[i]) = "ready" \/ (After(step[i]) \in Laid /\ Running(After(step[i])))
  BY <1>1, <1>3, Order DEF WorkspaceTypeOK
<1>5. Writes \subseteq Bare /\ Bare \cap Laid = {} /\ "ready" \notin Bare \cup Laid
  BY DEF Writes, Bare, Laid
<1>6. WorkspaceTypeOK'
  BY <1>1, <1>2, <1>4 DEF WorkspaceTypeOK
<1>7. TreeOf(i)'
  <2>1. step'[i] = After(step[i])
    BY <1>1, <1>2 DEF WorkspaceTypeOK
  <2>2. CASE step[i] \in Writes
    <3>1. dir'[i] = {Nothing, row[i]} /\ i \in whole' /\ step'[i] \in Laid
      BY <1>1, <1>2, <1>4, <1>5, <2>1, <2>2 DEF TreeOf, WorkspaceTypeOK
    <3> QED
      BY <1>2, <3>1 DEF TreeOf, Bare, Laid
  <2>3. CASE step[i] \in Bare \ Writes
    <3>1. dir'[i] = {Nothing} /\ step'[i] \in Bare
      BY <1>1, <1>2, <1>4, <1>5, <2>1, <2>3 DEF TreeOf
    <3> QED
      BY <1>2, <3>1 DEF TreeOf, Bare, Laid
  <2>4. CASE step[i] \in Laid
    <3>1. dir'[i] = {Nothing, row[i]} /\ i \in whole' /\ step'[i] \in Laid \cup {"ready"}
      BY <1>1, <1>2, <1>4, <1>5, <2>1, <2>4 DEF TreeOf
    <3> QED
      BY <1>2, <3>1 DEF TreeOf, Bare, Laid
  <2> QED
    BY <1>4, <2>2, <2>3, <2>4
<1>8. RunOf(i)'
  <2>1. step'[i] = After(step[i]) /\ child'[i] = "none"
    BY <1>1, <1>2 DEF WorkspaceTypeOK
  <2>2. step'[i] = "ready" \/ Running(step'[i])
    BY <1>4, <1>5, <2>1
  <2>3. FileDiffs(row[i])' = FileDiffs(row[i]) /\ Commands' = Commands
    BY <1>2 DEF FileDiffs, Noted, Status, Commands
  <2>4. step'[i] = "ready" => context'[i] = FileDiffs(row[i])
    BY <1>1, <1>2, <2>1 DEF WorkspaceTypeOK
  <2>5. row[i] # Nothing
    BY <1>1, <1>4 DEF RunOf, Over, Bare, Laid
  <2> QED
    BY <1>1, <1>2, <2>1, <2>2, <2>3, <2>4, <2>5 DEF RunOf, Running
<1>9. ASSUME NEW j \in Ids, j # i PROVE TreeOf(j)' /\ RunOf(j)'
  <2>1. TreeOf(j) /\ RunOf(j)
    BY DEF WorkspaceInv
  <2>2. step'[j] = step[j] /\ dir'[j] = dir[j] /\ child'[j] = child[j] /\ context'[j] = context[j]
    BY <1>1, <1>2, <1>9 DEF WorkspaceTypeOK
  <2>3. j \in whole => j \in whole'
    BY <1>2
  <2> QED
    BY <1>2, <2>1, <2>2, <2>3, OthersStay
<1> QED
  BY <1>6, <1>7, <1>8, <1>9 DEF WorkspaceInv

\* A run that is ready comes to its end, with or without git's leave.
LEMMA SettledInv ==
  ASSUME WorkspaceInv, NEW i \in Ids, step[i] = "ready", NEW outcome \in {"succeeded", "failed"},
         Settle(i, outcome), UNCHANGED <<tool, row, child, context, strays, crashed, created>>
  PROVE  WorkspaceInv'
<1>1. WorkspaceTypeOK /\ TreeOf(i) /\ RunOf(i)
  BY DEF WorkspaceInv
<1>2. /\ step' = [step EXCEPT ![i] = outcome]
      /\ \/ KeepOnFailure /\ outcome = "failed" /\ dir' = dir /\ whole' = whole
         \/ dir' = [dir EXCEPT ![i] = {}] /\ whole' = whole \ {i}
  BY DEF Settle, WillBeKept
<1>3. WorkspaceTypeOK'
  BY <1>1, <1>2 DEF WorkspaceTypeOK
<1>4. TreeOf(i)'
  BY <1>1, <1>2 DEF TreeOf, WorkspaceTypeOK, Bare, Laid
<1>5. RunOf(i)'
  <2>1. ~Running("ready")
    <3>1. "ready" \notin Bare \cup Laid
      BY DEF Bare, Laid
    <3> QED
      BY <1>1, <3>1, Order DEF WorkspaceTypeOK
  <2>2. step'[i] = outcome /\ child[i] # "running" /\ row[i] # Nothing
    BY <1>1, <1>2, <2>1 DEF RunOf, Over, WorkspaceTypeOK
  <2> QED
    BY <1>1, <2>2 DEF RunOf
<1>6. ASSUME NEW j \in Ids, j # i PROVE TreeOf(j)' /\ RunOf(j)'
  <2>1. TreeOf(j) /\ RunOf(j)
    BY DEF WorkspaceInv
  <2>2. step'[j] = step[j] /\ dir'[j] = dir[j] /\ (j \in whole => j \in whole')
    BY <1>1, <1>2, <1>6 DEF WorkspaceTypeOK
  <2> QED
    BY <2>1, <2>2, OthersStay
<1> QED
  BY <1>3, <1>4, <1>5, <1>6 DEF WorkspaceInv

\* The id of a new run is not that of a row.
LEMMA NewIdIsFree == ASSUME NextId \in Ids PROVE row[NextId] = Nothing
<1>1. CASE Rows = {}
  BY <1>1 DEF Rows
<1>2. CASE Rows # {}
  <2>1. PICK top \in Nat : Ids = 1..top
    BY RunIdsAssumption, FS_CardinalityType
  <2>2. Rows \in SUBSET (0..top)
    BY <2>1 DEF Rows
  <2>3. PICK m \in Rows : \A i \in Rows : i <= m
    BY <1>2, <2>1, <2>2, Largest
  <2>4. m \in Nat /\ \A i \in Rows : i \in Nat
    BY <2>2
  <2>5. Max(Rows) = m
    <3>1. \A i \in Rows : m >= i
      BY <2>3, <2>4
    <3>2. \A n \in Rows : (\A i \in Rows : n >= i) => n = m
      BY <2>3, <2>4
    <3> QED
      BY <3>1, <3>2 DEF Max
  <2>6. m + 1 \notin Rows
    BY <2>3, <2>4
  <2> QED
    BY <1>2, <2>5, <2>6 DEF NextId, Rows
<1> QED
  BY <1>1, <1>2

LEMMA NewRunInv == ASSUME WorkspaceInv, NewRun PROVE WorkspaceInv'
<1>0. PICK i \in Ids : i = NextId
  BY DEF NewRun
<1>1. WorkspaceTypeOK /\ TreeOf(i) /\ RunOf(i) /\ row[i] = Nothing
  BY <1>0, NewIdIsFree DEF NewRun, WorkspaceInv
<1>2. /\ created' = created + 1 /\ row' = [row EXCEPT ![i] = created + 1] /\ step' = [step EXCEPT ![i] = "new"]
      /\ UNCHANGED <<tool, dir, whole, child, context, strays, crashed>>
  BY <1>0 DEF NewRun
<1>3. WorkspaceTypeOK'
  <2>1. created' \in Nat /\ (0..created) \subseteq 0..created' /\ created + 1 \in 0..created'
    BY <1>1, <1>2 DEF WorkspaceTypeOK
  <2> QED
    BY <1>1, <1>2, <2>1 DEF WorkspaceTypeOK
<1>4. row'[i] = created + 1 /\ step'[i] = "new" /\ child[i] # "running"
  <2>1. ~Running(step[i])
    BY <1>1, Order DEF RunOf, Over, WorkspaceTypeOK, Bare, Laid
  <2> QED
    BY <1>1, <1>2, <2>1 DEF WorkspaceTypeOK, RunOf
<1>5. TreeOf(i)'
  <2>1. created + 1 \notin dir[i]
    BY <1>1 DEF WorkspaceTypeOK
  <2> QED
    BY <1>2, <1>4, <2>1 DEF TreeOf, Bare, Laid
<1>6. RunOf(i)'
  <2>1. created + 1 # Nothing
    BY <1>1 DEF WorkspaceTypeOK, Nothing
  <2> QED
    BY <1>1, <1>2, <1>4, <2>1 DEF RunOf
<1>7. ASSUME NEW j \in Ids, j # i PROVE TreeOf(j)' /\ RunOf(j)'
  <2>1. TreeOf(j) /\ RunOf(j)
    BY DEF WorkspaceInv
  <2>2. row'[j] = row[j] /\ step'[j] = step[j]
    BY <1>1, <1>2, <1>7 DEF WorkspaceTypeOK
  <2> QED
    BY <1>2, <2>1, <2>2, OthersStay
<1> QED
  BY <1>3, <1>5, <1>6, <1>7 DEF WorkspaceInv

LEMMA VacuumInv == ASSUME WorkspaceInv, Vacuum PROVE WorkspaceInv'
<1>1. WorkspaceTypeOK
  BY DEF WorkspaceInv
<1>2. PICK over \in SUBSET {i \in Rows : Over(step[i])} :
       /\ row' = [i \in Ids |-> IF i \in over THEN Nothing ELSE row[i]]
       /\ step' = [i \in Ids |-> IF i \in over THEN "none" ELSE step[i]]
       /\ context' = [i \in Ids |-> IF i \in over THEN {} ELSE context[i]]
  BY DEF Vacuum
<1>3. UNCHANGED <<tool, dir, whole, child, strays, crashed, created>>
  BY DEF Vacuum
<1>4. WorkspaceTypeOK'
  <2>1. row' \in [Ids -> 0..created] /\ step' \in [Ids -> {"none", "new", "ready", "succeeded", "failed"} \cup Bare \cup Laid]
    BY <1>1, <1>2 DEF WorkspaceTypeOK, Nothing
  <2>2. context' = [i \in Ids |-> context'[i]]
    BY <1>2
  <2> QED
    BY <1>1, <1>3, <2>1, <2>2 DEF WorkspaceTypeOK
<1>5. ASSUME NEW i \in over PROVE TreeOf(i)' /\ RunOf(i)'
  <2>1. i \in Ids /\ Over(step[i]) /\ step'[i] = "none" /\ RunOf(i)
    BY <1>2 DEF Rows, WorkspaceInv
  <2>2. child[i] # "running"
    <3>1. ~Running(step[i])
      BY <1>1, <2>1, Order DEF Over, WorkspaceTypeOK, Bare, Laid
    <3> QED
      BY <2>1, <3>1 DEF RunOf
  <2> QED
    BY <1>3, <2>1, <2>2 DEF TreeOf, RunOf, Over, Bare, Laid
<1>6. ASSUME NEW j \in Ids, j \notin over PROVE TreeOf(j)' /\ RunOf(j)'
  <2>1. TreeOf(j) /\ RunOf(j)
    BY DEF WorkspaceInv
  <2>2. row'[j] = row[j] /\ step'[j] = step[j] /\ context'[j] = context[j]
    BY <1>2, <1>6
  <2> QED
    BY <1>3, <2>1, <2>2, OthersStay
<1> QED
  BY <1>4, <1>5, <1>6 DEF WorkspaceInv

LEMMA CrashInv == ASSUME WorkspaceInv, Crash PROVE WorkspaceInv'
<1> DEFINE over == {i \in Ids : ~Over(step[i])}
<1>1. WorkspaceTypeOK /\ \A i \in Ids : TreeOf(i) /\ RunOf(i)
  BY DEF WorkspaceInv
<1>2. /\ crashed = {} /\ crashed' = over
      /\ step' = [i \in Ids |-> IF i \in over THEN "failed" ELSE step[i]]
      /\ strays' = strays \cup {i \in over : child[i] = "running"}
      /\ child' = [i \in Ids |-> "none"]
      /\ UNCHANGED <<tool, row, dir, whole, context, created>>
  BY DEF Crash
<1>3. WorkspaceTypeOK'
  BY <1>1, <1>2 DEF WorkspaceTypeOK
<1>4. ASSUME NEW i \in Ids PROVE TreeOf(i)' /\ RunOf(i)'
  <2>0. TreeOf(i) /\ RunOf(i) /\ i \notin crashed /\ child'[i] = "none"
    BY <1>1, <1>2
  <2>1. CASE i \in over
    <3>1. step'[i] = "failed" /\ i \in crashed' /\ ~Over(step[i])
      BY <1>2, <2>1
    <3>2. row[i] # Nothing
      BY <2>0, <3>1 DEF RunOf
    <3> QED
      BY <1>2, <2>0, <3>1, <3>2 DEF TreeOf, RunOf, Bare, Laid
  <2>2. CASE i \notin over
    <3>1. step'[i] = step[i] /\ Over(step[i]) /\ (i \in strays' => i \in strays)
      BY <1>2, <2>2
    <3>2. step[i] \in {"none", "succeeded", "failed"}
      BY <3>1 DEF Over
    <3>3. TreeOf(i)'
      BY <1>2, <2>0, <3>1, <3>2 DEF TreeOf, Bare, Laid
    <3> QED
      BY <1>2, <2>0, <3>1, <3>2, <3>3 DEF RunOf, Over
  <2> QED
    BY <2>1, <2>2
<1> QED
  BY <1>3, <1>4 DEF WorkspaceInv

LEMMA WorkspaceStays ==
  ASSUME WorkspaceInv, UNCHANGED <<tool, row, step, dir, whole, child, context, strays, crashed, created>>
  PROVE  WorkspaceInv'
<1>1. WorkspaceTypeOK'
  BY DEF WorkspaceInv, WorkspaceTypeOK
<1>2. ASSUME NEW j \in Ids PROVE TreeOf(j)' /\ RunOf(j)'
  <2>1. TreeOf(j) /\ RunOf(j)
    BY DEF WorkspaceInv
  <2> QED
    BY <2>1, OthersStay
<1> QED
  BY <1>1, <1>2 DEF WorkspaceInv

LEMMA RunStepInv == ASSUME WorkspaceInv, NEW i \in Ids, RunStep(i) \/ Release(i) PROVE WorkspaceInv'
<1>0. WorkspaceTypeOK /\ RunOf(i)
  BY DEF WorkspaceInv
<1>1. CASE SpawnFails(i)
  <2>1. child[i] = "none"
    BY <1>1 DEF SpawnFails
  <2> QED
    BY <1>1, <2>1, NothingInv DEF SpawnFails
<1>2. CASE Fails(i) \/ TimesOut(i)
  <2>1. child[i] = "running" /\ child' = [child EXCEPT ![i] = "none"] /\ Running(step[i])
    BY <1>0, <1>2 DEF Fails, TimesOut, Ended, RunOf
  <2>2. child'[i] = "none"
    BY <1>0, <2>1 DEF WorkspaceTypeOK
  <2>3. strays' = strays \/ (strays' = strays \cup {i} /\ tool = "svn")
    BY <1>2 DEF Fails, TimesOut, KillGroup
  <2>4. ComesToNothing(i) /\ tool' = tool /\ row' = row /\ created' = created /\ crashed' = crashed
    BY <1>2 DEF Fails, TimesOut
  <2> QED
    BY <2>1, <2>2, <2>3, <2>4, NothingInv
<1>3. CASE Reviewed(i)
  BY <1>3, SettledInv DEF Reviewed
<1>4. CASE Release(i)
  BY <1>4, SettledInv DEF Release
<1> QED
  BY <1>1, <1>2, <1>3, <1>4, CreateInv, SpawnInv, SucceedsInv DEF RunStep

\* The invariant holds of the workspace (scratch.rs, materialize.rs).
THEOREM WorkspaceInvariant == WorkspaceSpec => []WorkspaceInv
<1>1. WorkspaceInit => WorkspaceInv
  BY DEF WorkspaceInit, WorkspaceInv, WorkspaceTypeOK, TreeOf, RunOf, Over, Nothing, Bare, Laid
<1>2. WorkspaceInv /\ [WorkspaceNext]_wsVars => WorkspaceInv'
  <2> SUFFICES ASSUME WorkspaceInv, [WorkspaceNext]_wsVars PROVE WorkspaceInv'
    OBVIOUS
  <2>1. CASE UNCHANGED wsVars
    BY <2>1, WorkspaceStays DEF wsVars
  <2>2. CASE PruneWorktrees
    BY <2>2, WorkspaceStays DEF PruneWorktrees
  <2> QED
    BY <2>1, <2>2, NewRunInv, VacuumInv, CrashInv, RunStepInv DEF WorkspaceNext
<1> QED
  BY <1>1, <1>2, PTL DEF WorkspaceSpec

\* Each run is reviewed in a whole tree of its own change and told of that change's
\* files, and what is over leaves no tree that was not asked for and, but for svn's
\* helpers and a crash, no process, whatever is interrupted, timed out or vacuumed
\* before (ScratchDir::create, Drop for ScratchDir, kill_process_group).
THEOREM Trees == WorkspaceSpec => []TreesKept
<1>1. WorkspaceInv => TreesKept
  <2> SUFFICES ASSUME WorkspaceInv PROVE TreesKept
    OBVIOUS
  <2>1. ASSUME NEW i \in Ids, step[i] = "ready"
        PROVE  /\ dir[i] = {Nothing, row[i]} /\ i \in whole
               /\ {f.path : f \in context[i]} = {f.path : f \in Files[row[i]]}
    <3>1. TreeOf(i) /\ context[i] = FileDiffs(row[i])
      BY <2>1 DEF WorkspaceInv, RunOf
    <3>2. {f.path : f \in FileDiffs(row[i])} = {f.path : f \in Files[row[i]]}
      <4> DEFINE Told(f) == [path |-> f.path, status |-> Status(f.letter), binary |-> f.binary, note |-> Noted(f)]
      <4>1. FileDiffs(row[i]) = {Told(f) : f \in Files[row[i]]}
        BY DEF FileDiffs
      <4>2. \A f : Told(f).path = f.path
        OBVIOUS
      <4> HIDE DEF Told
      <4>3. ASSUME NEW p \in {f.path : f \in FileDiffs(row[i])} PROVE p \in {f.path : f \in Files[row[i]]}
        BY <4>1, <4>2
      <4>4. ASSUME NEW p \in {f.path : f \in Files[row[i]]} PROVE p \in {f.path : f \in FileDiffs(row[i])}
        BY <4>1, <4>2
      <4> QED
        BY <4>3, <4>4
    <3> QED
      BY <2>1, <3>1, <3>2 DEF TreeOf
  <2>2. OwnTree
    BY <2>1 DEF OwnTree
  <2>3. TidyAfterwards
    BY DEF WorkspaceInv, TreeOf, RunOf, TidyAfterwards
  <2> QED
    BY <2>2, <2>3 DEF TreesKept
<1> QED
  BY <1>1, WorkspaceInvariant, PTL

-----------------------------------------------------------------------------
(* Backfills.                                                              *)

Past == UNION {Range(h) : h \in Histories}
Enumerated == IF Len(history) < EnumerationCap THEN Len(history) ELSE EnumerationCap

BackfillTypeOK ==
  /\ history \in Histories /\ limit \in Nat /\ crashes \in Nat /\ at \in Nat
  /\ finished \in BOOLEAN /\ rewritten \in BOOLEAN
  /\ plan \in [items : Seq(Past), excluded : Int]
  /\ reviewing \in Past \cup {NoCursor} /\ reviews \in Seq(Past)

\* The first k changes are recorded: what is left of the plan goes on from there, the
\* change under review is the next one, and what was reviewed has nothing missing
\* before it.
WalkAt(k) ==
  /\ k \in 0..Enumerated
  /\ place = (IF k = 0 THEN NoCursor ELSE history[k])
  /\ plan # NoPlan =>
       /\ at <= Len(plan.items) /\ k + (Len(plan.items) - at) <= Enumerated
       /\ \A j \in 1..(Len(plan.items) - at) : plan.items[at + j] = history[k + j]
  /\ reviewing # NoCursor => plan # NoPlan /\ at < Len(plan.items) /\ reviewing = history[k + 1]
  /\ finished => reviewing # NoCursor /\ \E m \in DOMAIN reviews : reviews[m] = reviewing
  /\ \A j \in 1..k : \E m \in DOMAIN reviews : reviews[m] = history[j]
  /\ Len(reviews) <= k + crashes + (IF finished THEN 1 ELSE 0)
  /\ \A m \in DOMAIN reviews : \A i \in DOMAIN history : history[i] = reviews[m] =>
       \A j \in 1..(i - 1) : \E l \in 1..(m - 1) : reviews[l] = history[j]

BackfillInv == BackfillTypeOK /\ (~rewritten => \E k \in Nat : WalkAt(k))

\* What is left of a sequence after its first k elements.
LEMMA Suffix ==
  ASSUME NEW S, NEW s \in Seq(S), NEW k \in 0..Len(s)
  PROVE  /\ SubSeq(s, k + 1, Len(s)) \in Seq(S) /\ Len(SubSeq(s, k + 1, Len(s))) = Len(s) - k
         /\ \A j \in 1..(Len(s) - k) : SubSeq(s, k + 1, Len(s))[j] = s[k + j]
<1>1. k + 1 \in Int /\ Len(s) \in Int /\ \A i \in (k + 1)..Len(s) : s[i] \in S
  OBVIOUS
<1>2. /\ SubSeq(s, k + 1, Len(s)) \in Seq(S)
      /\ Len(SubSeq(s, k + 1, Len(s))) = IF k + 1 <= Len(s) THEN Len(s) - (k + 1) + 1 ELSE 0
      /\ \A i \in 1..(Len(s) - (k + 1) + 1) : SubSeq(s, k + 1, Len(s))[i] = s[(k + 1) + i - 1]
  BY <1>1, SubSeqProperties
<1>3. k \in Nat /\ Len(s) \in Nat /\ k <= Len(s)
  OBVIOUS
<1>4. ASSUME NEW j \in 1..(Len(s) - k) PROVE SubSeq(s, k + 1, Len(s))[j] = s[k + j]
  <2>1. j \in 1..(Len(s) - (k + 1) + 1) /\ (k + 1) + j - 1 = k + j
    BY <1>3
  <2> QED
    BY <1>2, <2>1
<1>5. Len(SubSeq(s, k + 1, Len(s))) = Len(s) - k
  BY <1>2, <1>3
<1> QED
  BY <1>2, <1>4, <1>5

LEMMA TheHistory ==
  ASSUME history \in Histories
  PROVE  /\ history \in Seq(Past) /\ Len(history) \in Nat /\ DOMAIN history = 1..Len(history)
         /\ \A i \in DOMAIN history : history[i] # NoCursor /\ history[i] \in Past
         /\ \A i, j \in DOMAIN history : history[i] = history[j] => i = j
         /\ Enumerated \in Nat /\ Enumerated <= Len(history)
<1>1. /\ history \in Seq(Range(history)) /\ NoCursor \notin Range(history)
      /\ \A i, j \in DOMAIN history : history[i] = history[j] => i = j
      /\ EnumerationCap \in Nat
  BY HistoriesAssumption
<1>2. Range(history) \subseteq Past
  BY DEF Past
<1>3. \A i \in DOMAIN history : history[i] \in Range(history)
  BY DEF Range
<1> QED
  BY <1>1, <1>2, <1>3 DEF Enumerated

\* A walk that is planned anew goes on after what is recorded.
LEMMA RemainingIs ==
  ASSUME history \in Histories, NEW k \in 0..Enumerated, place = IF k = 0 THEN NoCursor ELSE history[k]
  PROVE  LET rest == Remaining(Candidates, place) IN
         /\ rest \in Seq(Past) /\ Len(rest) = Enumerated - k
         /\ \A j \in 1..(Enumerated - k) : rest[j] = history[k + j]
<1> DEFINE cand == Candidates
<1>1. cand = SubSeq(history, 1, Enumerated)
  BY DEF Candidates, Enumerated
<1>2. /\ cand \in Seq(Past) /\ Len(cand) = Enumerated /\ DOMAIN cand = 1..Enumerated
      /\ \A i \in 1..Enumerated : cand[i] = history[i]
  BY <1>1, TheHistory
<1>3. k \in Nat /\ Enumerated \in Nat /\ 1..Enumerated \subseteq DOMAIN history
  BY TheHistory
<1> HIDE DEF cand
<1>4. CASE k = 0
  <2>1. place \notin Range(cand)
    BY <1>2, <1>3, <1>4, TheHistory DEF Range
  <2>2. Remaining(cand, place) = cand
    BY <2>1 DEF Remaining
  <2> QED
    BY <1>2, <1>3, <1>4, <2>2 DEF cand
<1>5. CASE k # 0
  <2>1. k \in DOMAIN cand /\ cand[k] = place
    BY <1>2, <1>3, <1>5
  <2>2. place \in Range(cand)
    BY <2>1 DEF Range
  <2>3. {i \in 1..Len(cand) : cand[i] = place} = {k}
    BY <1>2, <1>3, <2>1, TheHistory
  <2>4. Min({k}) = k
    BY <1>3 DEF Min
  <2>5. SelectInSeq(cand, LAMBDA c : c = place) = k
    BY <2>3, <2>4 DEF SelectInSeq
  <2>6. Remaining(cand, place) = SubSeq(cand, k + 1, Len(cand))
    BY <2>2, <2>5 DEF Remaining
  <2>7. /\ Remaining(cand, place) \in Seq(Past) /\ Len(Remaining(cand, place)) = Enumerated - k
        /\ \A j \in 1..(Enumerated - k) : Remaining(cand, place)[j] = cand[k + j]
    <3>1. k \in 0..Len(cand) /\ Len(cand) - k = Enumerated - k
      BY <1>2, <1>3
    <3>2. /\ SubSeq(cand, k + 1, Len(cand)) \in Seq(Past)
          /\ Len(SubSeq(cand, k + 1, Len(cand))) = Len(cand) - k
          /\ \A j \in 1..(Len(cand) - k) : SubSeq(cand, k + 1, Len(cand))[j] = cand[k + j]
      BY <1>2, <3>1, Suffix
    <3> QED
      BY <2>6, <3>1, <3>2
  <2> QED
    BY <1>2, <1>3, <2>7 DEF cand
<1> QED
  BY <1>4, <1>5

LEMMA PlanInv == ASSUME BackfillInv, PlanBackfill PROVE BackfillInv'
<1> DEFINE rest == Remaining(Candidates, place)
<1>1. /\ plan = NoPlan /\ plan' = Planned(rest) /\ at' = 0
      /\ UNCHANGED <<history, limit, place, reviewing, finished, reviews, rewritten, crashes>>
  BY DEF PlanBackfill
<1>2. BackfillTypeOK
  BY DEF BackfillInv
<1>3. Past' = Past /\ Enumerated' = Enumerated
  BY <1>1 DEF Past, Enumerated
<1>4. rest \in Seq(Past)
  <2>1. Candidates \in Seq(Past)
    BY <1>2, TheHistory DEF Candidates, BackfillTypeOK, Enumerated
  <2>2. CASE place \in Range(Candidates)
    <3>1. SelectInSeq(Candidates, LAMBDA c : c = place) \in 1..Len(Candidates)
      <4> DEFINE here == {i \in 1..Len(Candidates) : Candidates[i] = place}
      <4>1. here # {} /\ here \in SUBSET Nat
        BY <2>1, <2>2 DEF Range
      <4>2. Min(here) \in here
        BY <4>1, Smallest DEF Min
      <4> QED
        BY <4>1, <4>2 DEF SelectInSeq
    <3>2. PICK k \in 1..Len(Candidates) : Remaining(Candidates, place) = SubSeq(Candidates, k + 1, Len(Candidates))
      BY <2>2, <3>1 DEF Remaining
    <3> QED
      BY <2>1, <3>2, Suffix
  <2>3. CASE place \notin Range(Candidates)
    BY <2>1, <2>3 DEF Remaining
  <2> QED
    BY <2>2, <2>3
<1> HIDE DEF rest
<1>5. \/ plan' = [items |-> SubSeq(rest, 1, limit), excluded |-> Len(rest) - limit] /\ limit > 0 /\ limit < Len(rest)
      \/ plan' = [items |-> rest, excluded |-> 0]
  BY <1>1, <1>2, <1>4 DEF Planned, BackfillTypeOK
<1>6. /\ plan' \in [items : Seq(Past), excluded : Int]
      /\ Len(plan'.items) <= Len(rest) /\ \A j \in 1..Len(plan'.items) : plan'.items[j] = rest[j]
  <2>1. CASE plan' = [items |-> rest, excluded |-> 0]
    BY <1>4, <2>1
  <2>2. CASE plan' = [items |-> SubSeq(rest, 1, limit), excluded |-> Len(rest) - limit] /\ limit > 0 /\ limit < Len(rest)
    <3>1. limit \in Nat /\ Len(rest) \in Nat /\ \A i \in 1..limit : rest[i] \in Past
      BY <1>2, <1>4, <2>2 DEF BackfillTypeOK
    <3>2. /\ SubSeq(rest, 1, limit) \in Seq(Past) /\ Len(SubSeq(rest, 1, limit)) = limit
          /\ \A i \in 1..limit : SubSeq(rest, 1, limit)[i] = rest[i]
      BY <1>4, <2>2, <3>1
    <3> QED
      BY <2>2, <3>1, <3>2
  <2> QED
    BY <1>5, <2>1, <2>2
<1>7. BackfillTypeOK'
  BY <1>1, <1>2, <1>3, <1>6 DEF BackfillTypeOK
<1>8. ASSUME ~rewritten, NEW k \in Nat, WalkAt(k) PROVE WalkAt(k)'
  <2>1. /\ k \in 0..Enumerated /\ place = (IF k = 0 THEN NoCursor ELSE history[k])
        /\ reviewing = NoCursor /\ ~finished
    BY <1>1, <1>2, <1>8 DEF WalkAt, BackfillTypeOK
  <2>2. Len(rest) = Enumerated - k /\ \A j \in 1..(Enumerated - k) : rest[j] = history[k + j]
    BY <1>2, <2>1, RemainingIs DEF BackfillTypeOK, rest
  <2>3. /\ at' <= Len(plan'.items) /\ k + (Len(plan'.items) - at') <= Enumerated
        /\ \A j \in 1..(Len(plan'.items) - at') : plan'.items[at' + j] = history[k + j]
    <3>1. Len(plan'.items) \in Nat /\ Enumerated \in Nat
      BY <1>2, <1>6, TheHistory DEF BackfillTypeOK
    <3> QED
      BY <1>1, <1>6, <2>1, <2>2, <3>1
  <2> QED
    BY <1>1, <1>3, <1>8, <2>1, <2>3 DEF WalkAt
<1> QED
  BY <1>1, <1>7, <1>8 DEF BackfillInv

LEMMA NextStepInv == ASSUME BackfillInv, NextStep PROVE BackfillInv'
<1>1. /\ plan # NoPlan /\ reviewing = NoCursor /\ at < Len(plan.items) /\ reviewing' = plan.items[at + 1]
      /\ UNCHANGED <<history, limit, place, plan, at, finished, reviews, rewritten, crashes>>
  BY DEF NextStep
<1>2. BackfillTypeOK
  BY DEF BackfillInv
<1>3. Past' = Past /\ Enumerated' = Enumerated /\ NoPlan' = NoPlan
  BY <1>1 DEF Past, Enumerated, NoPlan
<1>4. BackfillTypeOK'
  BY <1>1, <1>2, <1>3 DEF BackfillTypeOK
<1>5. ASSUME NEW k \in Nat, WalkAt(k) PROVE WalkAt(k)'
  <2>1. ~finished
    BY <1>1, <1>2, <1>5 DEF WalkAt, BackfillTypeOK
  <2>2. reviewing' = history[k + 1]
    BY <1>1, <1>2, <1>5 DEF WalkAt, BackfillTypeOK
  <2> QED
    BY <1>1, <1>3, <1>5, <2>1, <2>2 DEF WalkAt
<1> QED
  BY <1>1, <1>4, <1>5 DEF BackfillInv

LEMMA ReviewInv == ASSUME BackfillInv, Review PROVE BackfillInv'
<1>1. /\ reviewing # NoCursor /\ ~finished /\ reviews' = Append(reviews, reviewing) /\ finished' = TRUE
      /\ UNCHANGED <<history, limit, place, plan, at, reviewing, rewritten, crashes>>
  BY DEF Review
<1>2. BackfillTypeOK
  BY DEF BackfillInv
<1>3. Past' = Past /\ Enumerated' = Enumerated /\ NoPlan' = NoPlan
  BY <1>1 DEF Past, Enumerated, NoPlan
<1>4. BackfillTypeOK'
  BY <1>1, <1>2, <1>3 DEF BackfillTypeOK
<1>5. /\ reviews' \in Seq(Past) /\ Len(reviews') = Len(reviews) + 1 /\ Len(reviews) \in Nat
      /\ DOMAIN reviews' = 1..(Len(reviews) + 1) /\ DOMAIN reviews = 1..Len(reviews)
      /\ \A m \in DOMAIN reviews : reviews'[m] = reviews[m]
      /\ reviews'[Len(reviews) + 1] = reviewing
  BY <1>1, <1>2 DEF BackfillTypeOK
<1>6. ASSUME NEW k \in Nat, WalkAt(k) PROVE WalkAt(k)'
  <2>1. \E m \in DOMAIN reviews' : reviews'[m] = reviewing
    BY <1>5
  <2>2. ASSUME NEW j \in 1..k PROVE \E m \in DOMAIN reviews' : reviews'[m] = history[j]
    <3>1. PICK m \in DOMAIN reviews : reviews[m] = history[j]
      BY <1>6 DEF WalkAt
    <3> QED
      BY <1>5, <3>1
  <2>3. Len(reviews') <= k + crashes + 1
    BY <1>1, <1>2, <1>5, <1>6 DEF WalkAt, BackfillTypeOK
  <2>4. ASSUME NEW m \in DOMAIN reviews', NEW i \in DOMAIN history, history[i] = reviews'[m], NEW j \in 1..(i - 1)
        PROVE  \E l \in 1..(m - 1) : reviews'[l] = history[j]
    <3>1. CASE m \in DOMAIN reviews
      <4>1. PICK l \in 1..(m - 1) : reviews[l] = history[j]
        BY <1>5, <1>6, <2>4, <3>1 DEF WalkAt
      <4> QED
        BY <1>5, <3>1, <4>1
    <3>2. CASE m = Len(reviews) + 1
      <4>1. /\ reviewing = history[k + 1] /\ at < Len(plan.items) /\ k + (Len(plan.items) - at) <= Enumerated
            /\ Len(plan.items) \in Nat /\ at \in Nat
        BY <1>1, <1>2, <1>6 DEF WalkAt, BackfillTypeOK
      <4>2. k + 1 \in DOMAIN history
        BY <1>2, <4>1, TheHistory DEF BackfillTypeOK
      <4>3. i = k + 1
        BY <1>2, <1>5, <2>4, <3>2, <4>1, <4>2, TheHistory DEF BackfillTypeOK
      <4>4. PICK l \in DOMAIN reviews : reviews[l] = history[j]
        BY <1>6, <2>4, <4>3 DEF WalkAt
      <4> QED
        BY <1>5, <3>2, <4>4
    <3> QED
      BY <1>5, <3>1, <3>2
  <2>5. \A m \in DOMAIN reviews' : \A i \in DOMAIN history : history[i] = reviews'[m] =>
           \A j \in 1..(i - 1) : \E l \in 1..(m - 1) : reviews'[l] = history[j]
    BY <2>4
  <2>6. \A j \in 1..k : \E m \in DOMAIN reviews' : reviews'[m] = history[j]
    BY <2>2
  <2>7. /\ k \in 0..Enumerated /\ place = (IF k = 0 THEN NoCursor ELSE history[k])
        /\ plan # NoPlan =>
             /\ at <= Len(plan.items) /\ k + (Len(plan.items) - at) <= Enumerated
             /\ \A j \in 1..(Len(plan.items) - at) : plan.items[at + j] = history[k + j]
        /\ plan # NoPlan /\ at < Len(plan.items) /\ reviewing = history[k + 1]
    BY <1>1, <1>6 DEF WalkAt
  <2> QED
    BY <1>1, <1>3, <2>1, <2>3, <2>5, <2>6, <2>7 DEF WalkAt
<1> QED
  BY <1>1, <1>4, <1>6 DEF BackfillInv

LEMMA RecordedInv == ASSUME BackfillInv, Recorded PROVE BackfillInv'
<1>1. /\ finished /\ at' = at + 1 /\ place' = reviewing /\ reviewing' = NoCursor /\ finished' = FALSE
      /\ UNCHANGED <<history, limit, plan, reviews, rewritten, crashes>>
  BY DEF Recorded
<1>2. BackfillTypeOK
  BY DEF BackfillInv
<1>3. Past' = Past /\ Enumerated' = Enumerated /\ NoPlan' = NoPlan
  BY <1>1 DEF Past, Enumerated, NoPlan
<1>4. BackfillTypeOK'
  <2>1. at' \in Nat
    BY <1>1, <1>2 DEF BackfillTypeOK
  <2>2. finished' \in BOOLEAN /\ rewritten' \in BOOLEAN
    BY <1>1, <1>2 DEF BackfillTypeOK
  <2> QED
    BY <1>1, <1>2, <1>3, <2>1, <2>2 DEF BackfillTypeOK
<1>5. ASSUME NEW k \in Nat, WalkAt(k) PROVE WalkAt(k + 1)'
  <2>1. /\ reviewing # NoCursor /\ plan # NoPlan /\ at < Len(plan.items) /\ reviewing = history[k + 1]
        /\ k + (Len(plan.items) - at) <= Enumerated
        /\ \A j \in 1..(Len(plan.items) - at) : plan.items[at + j] = history[k + j]
    BY <1>1, <1>5 DEF WalkAt
  <2>2. Len(plan.items) \in Nat /\ at \in Nat /\ Enumerated \in Nat /\ crashes \in Nat /\ Len(reviews) \in Nat
    BY <1>2, TheHistory DEF BackfillTypeOK
  <2>3. k + 1 \in 0..Enumerated /\ k + 1 # 0
    BY <2>1, <2>2
  <2>4. /\ at' <= Len(plan.items) /\ (k + 1) + (Len(plan.items) - at') <= Enumerated
        /\ \A j \in 1..(Len(plan.items) - at') : plan.items[at' + j] = history[(k + 1) + j]
    <3>1. ASSUME NEW j \in 1..(Len(plan.items) - at') PROVE plan.items[at' + j] = history[(k + 1) + j]
      <4>1. j + 1 \in 1..(Len(plan.items) - at) /\ at' + j = at + (j + 1) /\ (k + 1) + j = k + (j + 1)
        BY <1>1, <2>2
      <4> QED
        BY <2>1, <4>1
    <3>2. at' = at + 1 /\ at < Len(plan.items) /\ k + (Len(plan.items) - at) <= Enumerated
      BY <1>1, <2>1
    <3>3. \A l, i, e \in Nat : i < l /\ k + (l - i) <= e => i + 1 <= l /\ (k + 1) + (l - (i + 1)) <= e
      OBVIOUS
    <3>4. at + 1 <= Len(plan.items) /\ (k + 1) + (Len(plan.items) - (at + 1)) <= Enumerated
      BY <2>2, <3>2, <3>3
    <3> QED
      BY <3>1, <3>2, <3>4
  <2>5. ASSUME NEW j \in 1..(k + 1) PROVE \E m \in DOMAIN reviews : reviews[m] = history[j]
    <3>1. CASE j = k + 1
      BY <1>1, <1>5, <2>1, <3>1 DEF WalkAt
    <3>2. CASE j # k + 1
      BY <1>5, <3>2 DEF WalkAt
    <3> QED
      BY <3>1, <3>2
  <2>6. Len(reviews) <= (k + 1) + crashes + 0
    BY <1>1, <1>5, <2>2 DEF WalkAt
  <2> QED
    BY <1>1, <1>3, <1>5, <2>1, <2>3, <2>4, <2>5, <2>6 DEF WalkAt
<1>6. \A k \in Nat : k + 1 \in Nat
  OBVIOUS
<1> QED
  BY <1>1, <1>4, <1>5, <1>6 DEF BackfillInv

LEMMA DoneInv == ASSUME BackfillInv, Done \/ Dies PROVE BackfillInv'
<1>1. /\ plan' = NoPlan /\ at' = 0 /\ reviewing' = NoCursor /\ UNCHANGED <<history, limit, place, reviews, rewritten>>
      /\ \/ reviewing = NoCursor /\ finished' = finished /\ crashes' = crashes
         \/ finished' = FALSE /\ crashes' = crashes + 1
  BY DEF Done, Dies
<1>2. BackfillTypeOK
  BY DEF BackfillInv
<1>3. Past' = Past /\ Enumerated' = Enumerated /\ NoPlan' = NoPlan
  BY <1>1 DEF Past, Enumerated, NoPlan
<1>4. BackfillTypeOK'
  <2>1. NoPlan \in [items : Seq(Past), excluded : Int]
    BY DEF NoPlan
  <2>2. finished' \in BOOLEAN
    BY <1>1, <1>2 DEF BackfillTypeOK
  <2>3. crashes' \in Nat /\ at' \in Nat
    <3>1. crashes' = crashes \/ crashes' = crashes + 1
      BY <1>1
    <3> QED
      BY <1>1, <1>2, <3>1 DEF BackfillTypeOK
  <2> QED
    BY <1>1, <1>2, <1>3, <2>1, <2>2, <2>3 DEF BackfillTypeOK
<1>5. ASSUME NEW k \in Nat, WalkAt(k) PROVE WalkAt(k)'
  <2>1. ~finished'
    BY <1>1, <1>5 DEF WalkAt
  <2>2. Len(reviews) <= k + crashes' + 0
    <3>1. Len(reviews) \in Nat /\ crashes \in Nat /\ finished \in BOOLEAN
      BY <1>2 DEF BackfillTypeOK
    <3>2. Len(reviews) <= k + crashes + (IF finished THEN 1 ELSE 0) /\ (finished => reviewing # NoCursor)
      BY <1>5 DEF WalkAt
    <3>3. CASE reviewing = NoCursor /\ crashes' = crashes
      BY <3>1, <3>2, <3>3
    <3>4. CASE crashes' = crashes + 1
      BY <3>1, <3>2, <3>4
    <3> QED
      BY <1>1, <3>3, <3>4
  <2> QED
    BY <1>1, <1>3, <1>5, <2>1, <2>2 DEF WalkAt
<1> QED
  BY <1>1, <1>4, <1>5 DEF BackfillInv

LEMMA WeatherInv == ASSUME BackfillInv, Weather \/ UNCHANGED bfVars PROVE BackfillInv'
<1>1. /\ UNCHANGED <<limit, place, plan, at, reviewing, finished, reviews, crashes>>
      /\ \/ rewritten' = TRUE /\ history' \in Histories
         \/ rewritten' = rewritten /\ history' = history
  BY DEF Weather, bfVars
<1>2. BackfillTypeOK
  BY DEF BackfillInv
<1>3. Past' = Past
  BY DEF Past
<1>4. BackfillTypeOK'
  <2>1. rewritten' \in BOOLEAN
    BY <1>1, <1>2 DEF BackfillTypeOK
  <2> QED
    BY <1>1, <1>2, <1>3, <2>1 DEF BackfillTypeOK
<1>5. ASSUME history' = history, NEW k \in Nat, WalkAt(k) PROVE WalkAt(k)'
  <2>1. Enumerated' = Enumerated /\ NoPlan' = NoPlan
    BY <1>5 DEF Enumerated, NoPlan
  <2> QED
    BY <1>1, <1>5, <2>1 DEF WalkAt
<1>6. CASE rewritten' = TRUE
  BY <1>4, <1>6 DEF BackfillInv
<1>7. CASE rewritten' = rewritten /\ history' = history
  BY <1>4, <1>5, <1>7 DEF BackfillInv
<1> QED
  BY <1>1, <1>6, <1>7

\* The invariant holds of a backfill (cli backfill.rs, daemon backfill.rs).
THEOREM BackfillInvariant == BackfillSpec => []BackfillInv
<1>1. BackfillInit => BackfillInv
  <2> SUFFICES ASSUME BackfillInit PROVE BackfillInv
    OBVIOUS
  <2>1. BackfillTypeOK
    <3>1. history \in Histories /\ limit \in Nat /\ crashes \in Nat /\ at \in Nat
      BY HistoriesAssumption DEF BackfillInit
    <3>2. finished \in BOOLEAN /\ rewritten \in BOOLEAN
      BY DEF BackfillInit
    <3>3. plan \in [items : Seq(Past), excluded : Int] /\ reviewing \in Past \cup {NoCursor} /\ reviews \in Seq(Past)
      BY DEF BackfillInit, NoPlan
    <3> QED
      BY <3>1, <3>2, <3>3 DEF BackfillTypeOK
  <2>2. Enumerated \in Nat
    BY TheHistory DEF BackfillInit
  <2>3. WalkAt(0)
    BY <2>2 DEF BackfillInit, WalkAt
  <2> QED
    BY <2>1, <2>3 DEF BackfillInv
<1>2. BackfillInv /\ [BackfillNext]_bfVars => BackfillInv'
  BY PlanInv, NextStepInv, ReviewInv, RecordedInv, DoneInv, WeatherInv DEF BackfillNext
<1> QED
  BY <1>1, <1>2, PTL DEF BackfillSpec

\* While the history stands, a backfill reviews it in order from its beginning with no
\* gap, however often it is limited, interrupted or resumed, and does over only what
\* a walk that died had not recorded (plan, Backfill::recorded).
THEOREM InOrder == BackfillSpec => []InOrderWithoutGaps
<1>1. BackfillInv => InOrderWithoutGaps
  <2> SUFFICES ASSUME BackfillInv, ~rewritten PROVE InOrderWithoutGaps
    BY DEF InOrderWithoutGaps
  <2>1. PICK k \in Nat : WalkAt(k)
    BY DEF BackfillInv
  <2>2. /\ BackfillTypeOK /\ reviews \in Seq(Past) /\ Len(reviews) \in Nat /\ DOMAIN reviews = 1..Len(reviews)
        /\ crashes \in Nat /\ finished \in BOOLEAN
    BY DEF BackfillInv, BackfillTypeOK
  <2>3. ASSUME NEW m \in DOMAIN reviews, NEW i \in DOMAIN history, history[i] = reviews[m]
        PROVE  {history[j] : j \in 1..(i - 1)} \subseteq {reviews[j] : j \in 1..(m - 1)}
    <3>1. \A j \in 1..(i - 1) : \E l \in 1..(m - 1) : reviews[l] = history[j]
      BY <2>1, <2>3 DEF WalkAt
    <3> QED
      BY <3>1
  <2> DEFINE n == k + (IF finished THEN 1 ELSE 0)
             first == [j \in 1..n |-> history[j]]
  <2>4. n \in Nat /\ Len(reviews) <= n + crashes
    <3>1. Len(reviews) <= k + crashes + (IF finished THEN 1 ELSE 0)
      BY <2>1 DEF WalkAt
    <3> QED
      BY <2>2, <3>1
  <2>5. n <= Enumerated /\ \A j \in 1..n : \E m \in DOMAIN reviews : reviews[m] = history[j]
    <3>1. k \in 0..Enumerated /\ \A j \in 1..k : \E m \in DOMAIN reviews : reviews[m] = history[j]
      BY <2>1 DEF WalkAt
    <3>2. Enumerated \in Nat
      BY <2>2, TheHistory DEF BackfillTypeOK
    <3>3. CASE ~finished
      BY <3>1, <3>2, <3>3
    <3>4. CASE finished
      <4>1. /\ \E m \in DOMAIN reviews : reviews[m] = history[k + 1]
            /\ at < Len(plan.items) /\ k + (Len(plan.items) - at) <= Enumerated
        BY <2>1, <3>4 DEF WalkAt
      <4>2. at \in Nat /\ Len(plan.items) \in Nat
        BY <2>2 DEF BackfillTypeOK
      <4>3. k + 1 <= Enumerated /\ n = k + 1
        BY <3>2, <3>4, <4>1, <4>2
      <4>4. \A j \in 1..n : j \in 1..k \/ j = k + 1
        BY <4>3
      <4> QED
        BY <3>1, <4>1, <4>3, <4>4
    <3> QED
      BY <2>2, <3>3, <3>4
  <2> HIDE DEF n
  <2>6. 1..n \subseteq DOMAIN history
    BY <2>2, <2>4, <2>5, TheHistory DEF BackfillTypeOK
  <2>7. first \in Injection(1..n, Range(reviews))
    <3>1. \A j \in 1..n : history[j] \in Range(reviews)
      BY <2>5 DEF Range
    <3>2. \A i, j \in 1..n : history[i] = history[j] => i = j
      BY <2>2, <2>6, TheHistory DEF BackfillTypeOK
    <3> QED
      BY <3>1, <3>2 DEF Injection, IsInjective
  <2>8. IsFiniteSet(Range(reviews)) /\ Cardinality(Range(reviews)) \in Nat
    <3>1. reviews \in Surjection(1..Len(reviews), Range(reviews))
      BY <2>2 DEF Surjection, Range
    <3>2. IsFiniteSet(1..Len(reviews))
      BY <2>2, FS_Interval
    <3>3. IsFiniteSet(Range(reviews))
      BY <3>1, <3>2, FS_Surjection
    <3> QED
      BY <3>3, FS_CardinalityType
  <2>9. n <= Cardinality(Range(reviews))
    <3>1. Cardinality(1..n) = n
      BY <2>4, FS_Interval
    <3>2. Cardinality(1..n) <= Cardinality(Range(reviews))
      BY <2>7, <2>8, FS_Injection
    <3> QED
      BY <3>1, <3>2
  <2>10. Len(reviews) - Cardinality(Range(reviews)) <= crashes
    BY <2>2, <2>4, <2>8, <2>9
  <2> QED
    BY <2>3, <2>10 DEF InOrderWithoutGaps
<1> QED
  BY <1>1, BackfillInvariant, PTL

-----------------------------------------------------------------------------
(* Subversion.                                                             *)

Words == {"trunk", "branch", "site", "nothing", "merge"}
Revision == [path : Words, defects : SUBSET Defects, copyfrom : Nat, gains : SUBSET Nat,
             says : Words, files : Nat]
Finding == [defect : Defects, of : Nat, merge : BOOLEAN, loud : BOOLEAN]

SvnTypeOK ==
  /\ log \in Seq(Revision) /\ Len(log) <= MaxRevs
  /\ revision \in 0..Len(log)
  /\ seen \in [1..MaxRevs -> {"none", "reviewable", "filtered"}]
  /\ reviewed \subseteq Revs /\ merges \subseteq Revs
  /\ planned = [r \in 1..MaxRevs |-> planned[r]]
  /\ filed \subseteq Finding

\* What is merged was committed before, and just the revisions up to the cursor are seen.
LogInv ==
  /\ \A k \in Revs : \A g \in log[k].gains : g \in 1..(k - 1)
  /\ \A r \in 1..MaxRevs : (seen[r] # "none") <=> (r <= revision)

\* What holds of each finding: a merge's is loud, and a constituent's that had been
\* reviewed when the merge was is not, beside it; what is quiet is so for a merge.
Kept(f, all, done, joined, plans) ==
  /\ f.of \in Revs
  /\ ~f.merge => f.of \in done
  /\ f.merge => /\ f.loud /\ Forks # {} /\ f.of \in joined /\ plans[f.of] \subseteq done
                /\ \A g \in all : ~g.merge /\ g.loud /\ g.defect = f.defect /\ g.of \in Constituents(Detect(f.of))
                                    => g.of \notin plans[f.of]
  /\ ~f.loud => \E g \in all : /\ g.merge /\ g.loud /\ g.defect = f.defect
                               /\ ~f.merge /\ f.of \in Constituents(Detect(g.of))

FiledInv == \A f \in filed : Kept(f, filed, reviewed, merges, planned)

SvnInv == SvnTypeOK /\ LogInv /\ FiledInv

LEMMA MaxIs ==
  ASSUME NEW n \in Nat, NEW S \in SUBSET (0..n), S # {}
  PROVE  Max(S) \in S /\ \A i \in S : i <= Max(S)
<1>1. PICK m \in S : \A i \in S : i <= m
  BY Largest
<1>2. m \in Nat /\ \A i \in S : i \in Nat
  OBVIOUS
<1>3. \A i \in S : m >= i
  BY <1>1, <1>2
<1>4. Max(S) \in S /\ \A i \in S : Max(S) >= i
  BY <1>1, <1>3 DEF Max
<1> QED
  BY <1>2, <1>4

LEMMA ContentIsDefects ==
  ASSUME log \in Seq(Revision), NEW path, NEW r \in 0..Len(log)
  PROVE  Content(path, r) \in SUBSET Defects
<1> DEFINE there == {k \in 1..r : log[k].path = path}
<1>0. r \in Nat /\ Len(log) \in Nat /\ there \in SUBSET (0..r) /\ there \in SUBSET (1..Len(log))
  OBVIOUS
<1>1. Content(path, r) = IF there = {} THEN {} ELSE log[Max(there)].defects
  BY DEF Content
<1> HIDE DEF there
<1>2. CASE there = {}
  BY <1>1, <1>2
<1>3. CASE there # {}
  <2>1. Max(there) \in there
    BY <1>0, <1>3, MaxIs
  <2>2. Max(there) \in 1..Len(log)
    BY <1>0, <2>1
  <2>3. log[Max(there)] \in Revision
    BY <2>2
  <2> QED
    BY <1>1, <1>3, <2>3 DEF Revision
<1> QED
  BY <1>2, <1>3

\* A merge is of what was on the branch before it.
LEMMA DetectedBefore ==
  ASSUME SvnTypeOK, LogInv, NEW r \in Revs
  PROVE  Detect(r) \in 0..r
<1>1. r \in Nat /\ r \in 1..Len(log)
  BY DEF Revs, SvnTypeOK
<1>2. MergeInfoAt(r) \in SUBSET (0..r)
  <2>1. ASSUME NEW k \in 1..r, NEW g \in log[k].gains PROVE g \in 0..r
    <3>1. k \in Revs
      BY <1>1 DEF Revs
    <3>2. g \in 1..(k - 1)
      BY <3>1 DEF LogInv
    <3> QED
      BY <1>1, <3>2
  <2> QED
    BY <2>1 DEF MergeInfoAt
<1>3. Highest(MergeInfoAt(r)) \in 0..r
  <2>1. CASE MergeInfoAt(r) = {}
    BY <1>1, <2>1 DEF Highest
  <2>2. CASE MergeInfoAt(r) # {}
    <3>1. Max(MergeInfoAt(r)) \in MergeInfoAt(r)
      BY <1>1, <1>2, <2>2, MaxIs
    <3> QED
      BY <1>2, <2>2, <3>1 DEF Highest
  <2> QED
    BY <2>1, <2>2
<1>4. GainedThrough(r) \in 0..r
  BY <1>1, <1>3 DEF GainedThrough
<1> QED
  BY <1>1, <1>4 DEF Detect

\* Commits are added at the end.
LEMMA WorkAppends ==
  ASSUME SvnTypeOK, LogInv, Work
  PROVE  \E x \in Revision : /\ log' = Append(log, x) /\ \A g \in x.gains : g \in 1..Len(log)
                             /\ Forks # {} => x.copyfrom = 0
<1>1. log \in Seq(Revision) /\ Len(log) \in Nat /\ Len(log) \in 0..Len(log)
  BY DEF SvnTypeOK
<1>2. \A path : Content(path, Len(log)) \in SUBSET Defects
  BY <1>1, ContentIsDefects
<1>3. \A picks \in SUBSET (OnBranch \ MergeInfoAt(Len(log))) : \A g \in picks : g \in 1..Len(log) /\ g \in Nat
  BY <1>1 DEF OnBranch, Revs
<1> DEFINE Goal == \E x \in Revision : /\ log' = Append(log, x) /\ \A g \in x.gains : g \in 1..Len(log)
                                       /\ Forks # {} => x.copyfrom = 0
<1>4. ASSUME NEW path \in Words, NEW d \in SUBSET Defects, NEW copyfrom \in Nat, NEW gains \in SUBSET (1..Len(log)),
             NEW says \in Words, NEW files \in Nat, Forks # {} => copyfrom = 0,
             Commit(path, d, copyfrom, gains, says, files)
      PROVE  Goal
  <2> DEFINE x == [path |-> path, defects |-> d, copyfrom |-> copyfrom, gains |-> gains, says |-> says, files |-> files]
  <2>1. gains \in SUBSET Nat
    BY <1>1
  <2>2. x \in Revision
    BY <2>1 DEF Revision
  <2>3. log' = Append(log, x) /\ x.gains = gains /\ x.copyfrom = copyfrom
    BY <1>4 DEF Commit
  <2>4. (\A g \in x.gains : g \in 1..Len(log)) /\ (Forks # {} => x.copyfrom = 0)
    BY <1>4, <2>3
  <2> HIDE DEF x
  <2> QED
    BY <2>2, <2>3, <2>4
<1> HIDE DEF Goal
<1>5. /\ {} \in SUBSET Defects /\ {} \in SUBSET (1..Len(log)) /\ 0 \in Nat /\ 1 \in Nat /\ MinFiles \in Nat
      /\ Trunk \in Words /\ Branch \in Words /\ "site" \in Words
      /\ "nothing" \in Words /\ "merge" \in Words /\ "branch" \in Words
  <2>1. {} \in SUBSET Defects /\ {} \in SUBSET (1..Len(log))
    OBVIOUS
  <2>2. 0 \in Nat /\ 1 \in Nat /\ MinFiles \in Nat
    BY SvnAssumption
  <2>3. Trunk \in Words /\ Branch \in Words
    BY DEF Trunk, Branch, Words
  <2>4. "site" \in Words /\ "nothing" \in Words /\ "merge" \in Words /\ "branch" \in Words
    BY DEF Words
  <2> QED
    BY <2>1, <2>2, <2>3, <2>4
<1>6. ASSUME NEW path \in {Trunk} \cup (IF Forks = {} THEN {} ELSE {Branch}), NEW d \in SUBSET Defects,
             Commit(path, d, 0, {}, "nothing", 1)
      PROVE  Goal
  <2>1. path \in Words
    BY <1>5
  <2> QED
    BY <1>4, <1>5, <1>6, <2>1
<1>7. ASSUME Commit("site", {}, 0, {}, "nothing", 1) PROVE Goal
  BY <1>4, <1>5, <1>7
<1>8. ASSUME Forks = {}, Commit(Branch, Content(Trunk, Len(log)), Len(log), {}, "nothing", 1) PROVE Goal
  BY <1>1, <1>2, <1>4, <1>5, <1>8
<1>9. ASSUME NEW picks \in SUBSET (OnBranch \ MergeInfoAt(Len(log))),
             \/ Commit(Trunk, Content(Branch, Len(log)), 0, picks, "nothing", 1)
             \/ Commit(Trunk, Content(Branch, Len(log)), 0, picks, "merge", 1)
             \/ Commit(Trunk, Content(Branch, Len(log)), 0, picks, "branch", MinFiles)
             \/ Commit(Trunk, Content(Trunk, Len(log)), 0, picks, "nothing", 0)
      PROVE  Goal
  <2>1. picks \in SUBSET (1..Len(log)) /\ Content(Branch, Len(log)) \in SUBSET Defects
        /\ Content(Trunk, Len(log)) \in SUBSET Defects
    BY <1>2, <1>3
  <2>2. CASE Commit(Trunk, Content(Branch, Len(log)), 0, picks, "nothing", 1)
    BY <1>4, <1>5, <2>1, <2>2
  <2>3. CASE Commit(Trunk, Content(Branch, Len(log)), 0, picks, "merge", 1)
    BY <1>4, <1>5, <2>1, <2>3
  <2>4. CASE Commit(Trunk, Content(Branch, Len(log)), 0, picks, "branch", MinFiles)
    BY <1>4, <1>5, <2>1, <2>4
  <2>5. CASE Commit(Trunk, Content(Trunk, Len(log)), 0, picks, "nothing", 0)
    BY <1>4, <1>5, <2>1, <2>5
  <2> QED
    BY <1>9, <2>2, <2>3, <2>4, <2>5
<1>10. Goal
  BY <1>6, <1>7, <1>8, <1>9 DEF Work
<1> QED
  BY <1>10 DEF Goal

\* A commit changes nothing of the revisions there are: not what was merged in one,
\* nor what a merge stands for.
LEMMA WorkKeeps ==
  ASSUME SvnTypeOK, LogInv, Work
  PROVE  /\ Len(log') = Len(log) + 1 /\ log' \in Seq(Revision)
         /\ \A k \in Revs : k \in Revs' /\ log'[k] = log[k]
         /\ \A g \in log'[Len(log) + 1].gains : g \in 1..Len(log)
         /\ \A r \in Revs : Detect(r)' = Detect(r)
         /\ Forks # {} => /\ Forks' # {}
                          /\ \A t \in 0..Len(log) : Constituents(t)' = Constituents(t)
<1>1. log \in Seq(Revision) /\ Len(log) \in Nat
  BY DEF SvnTypeOK
<1>2. PICK x \in Revision : /\ log' = Append(log, x) /\ \A g \in x.gains : g \in 1..Len(log)
                            /\ Forks # {} => x.copyfrom = 0
  BY WorkAppends
<1>3. /\ Len(log') = Len(log) + 1 /\ log' \in Seq(Revision)
      /\ \A k \in 1..Len(log) : log'[k] = log[k]
      /\ log'[Len(log) + 1] = x
  BY <1>1, <1>2
<1>4. /\ Revs = 1..Len(log) /\ Revs' = 1..(Len(log) + 1)
      /\ \A k \in Revs : k \in Revs' /\ log'[k] = log[k]
  BY <1>1, <1>3 DEF Revs
<1>5. \A r \in 0..Len(log) : MergeInfoAt(r)' = MergeInfoAt(r)
  <2> TAKE r \in 0..Len(log)
  <2>1. r \in Nat /\ \A k \in 1..r : log'[k] = log[k]
    BY <1>1, <1>3
  <2> DEFINE then == {k \in 1..r : log[k].path = Trunk}
  <2>2. {k \in 1..r : log'[k].path = Trunk} = then
    BY <2>1
  <2>3. then \subseteq 1..r
    OBVIOUS
  <2> HIDE DEF then
  <2>4. UNION {log'[k].gains : k \in then} = UNION {log[k].gains : k \in then}
    <3>1. \A k \in then : log'[k].gains = log[k].gains
      BY <2>1, <2>3
    <3>2. {log'[k].gains : k \in then} = {log[k].gains : k \in then}
      BY <3>1
    <3> QED
      BY <3>2
  <2> QED
    BY <2>2, <2>4 DEF MergeInfoAt, then
<1>6. \A r \in Revs : GainedThrough(r)' = GainedThrough(r)
  <2> TAKE r \in Revs
  <2>1. r \in 0..Len(log) /\ r - 1 \in 0..Len(log)
    BY <1>1, <1>4
  <2>2. MergeInfoAt(r)' = MergeInfoAt(r) /\ MergeInfoAt(r - 1)' = MergeInfoAt(r - 1)
    BY <1>5, <2>1
  <2> QED
    BY <2>2 DEF GainedThrough, Highest
<1>7. \A k \in Revs : (k \in Forks' <=> k \in Forks) /\ (k \in OnBranch' <=> k \in OnBranch)
  BY <1>4 DEF Forks, OnBranch
<1>8. \A r \in Revs : BranchHead(r)' = BranchHead(r)
  <2> TAKE r \in Revs
  <2>1. \A k : k \in OnBranch /\ k < r => k \in Revs
    BY DEF OnBranch
  <2>2. \A k : k \in OnBranch' /\ k < r => k \in Revs
    <3> SUFFICES ASSUME NEW k \in OnBranch', k < r PROVE k \in Revs
      OBVIOUS
    <3>1. k \in 1..(Len(log) + 1) /\ r \in 1..Len(log)
      BY <1>4 DEF OnBranch
    <3> QED
      BY <1>1, <1>4, <3>1
  <2>3. {k \in OnBranch' : k < r} = {k \in OnBranch : k < r}
    BY <1>7, <2>1, <2>2
  <2> QED
    BY <2>3 DEF BranchHead, Highest
<1>9. \A r \in Revs : Detect(r)' = Detect(r)
  <2> TAKE r \in Revs
  <2>1. log'[r] = log[r] /\ GainedThrough(r)' = GainedThrough(r) /\ BranchHead(r)' = BranchHead(r)
    BY <1>4, <1>6, <1>8
  <2>2. /\ IsReintegration(r)' <=> IsReintegration(r)
        /\ SaysMerged(r)' <=> SaysMerged(r)
        /\ ManyFiles(r)' <=> ManyFiles(r)
    BY <2>1 DEF IsReintegration, SaysMerged, ManyFiles
  <2> QED
    BY <2>1, <2>2 DEF Detect
<1>10. ASSUME Forks # {}
       PROVE  Forks' # {} /\ \A t \in 0..Len(log) : Constituents(t)' = Constituents(t)
  <2>1. Forks' = Forks
    <3>1. \A k \in Revs' : k \in Revs \/ k = Len(log) + 1
      BY <1>1, <1>4
    <3>2. ~(log'[Len(log) + 1].copyfrom > 0)
      BY <1>2, <1>3, <1>10
    <3>3. \A k \in Forks' : k \in Revs' /\ log'[k].copyfrom > 0
      BY DEF Forks
    <3>4. \A k \in Forks' : k \in Forks
      BY <1>7, <3>1, <3>2, <3>3
    <3>5. \A k \in Forks : k \in Forks'
      BY <1>7 DEF Forks
    <3> QED
      BY <3>4, <3>5
  <2>2. Forks' # {}
    BY <1>10, <2>1
  <2>3. ASSUME NEW t \in 0..Len(log)
        PROVE  {k \in Revs' : log'[k].path = Branch /\ k <= t} = {k \in Revs : log[k].path = Branch /\ k <= t}
    <3>1. \A k \in Revs' : k <= t => k \in Revs
      BY <1>1, <1>4
    <3> QED
      BY <1>4, <3>1
  <2>4. \A t \in 0..Len(log) : Constituents(t)' = Constituents(t)
    BY <2>1, <2>3 DEF Constituents, Branch
  <2> QED
    BY <2>2, <2>4
<1>11. \A g \in log'[Len(log) + 1].gains : g \in 1..Len(log)
  BY <1>2, <1>3
<1> QED
  BY <1>3, <1>4, <1>9, <1>10, <1>11

\* What holds of each finding is what is asked of them all.
LEMMA KeptIsQuiet == FiledInv => QuietBehindItsMerge
<1> SUFFICES ASSUME FiledInv PROVE QuietBehindItsMerge
  OBVIOUS
<1>1. \A f \in filed : ~f.loud =>
        \E g \in filed : /\ g.merge /\ g.loud /\ g.defect = f.defect
                         /\ ~f.merge /\ f.of \in Constituents(Detect(g.of))
  BY DEF FiledInv, Kept
<1>2. \A f, g \in filed :
        f.merge /\ ~g.merge /\ g.loud /\ g.defect = f.defect /\ g.of \in Constituents(Detect(f.of))
          => g.of \notin planned[f.of]
  BY DEF FiledInv, Kept
<1> QED
  BY <1>1, <1>2 DEF QuietBehindItsMerge

LEMMA WorkKeepsInv ==
  ASSUME SvnInv, Len(log) < MaxRevs, Work
  PROVE  SvnInv'
<1>1. /\ SvnTypeOK /\ LogInv /\ FiledInv
      /\ log \in Seq(Revision) /\ Len(log) \in Nat /\ MaxRevs \in Nat
      /\ UNCHANGED <<revision, seen, reviewed, merges, planned, filed>>
  BY SvnAssumption DEF SvnInv, SvnTypeOK, Work
<1>2. /\ Len(log') = Len(log) + 1 /\ log' \in Seq(Revision)
      /\ \A k \in Revs : k \in Revs' /\ log'[k] = log[k]
      /\ \A g \in log'[Len(log) + 1].gains : g \in 1..Len(log)
      /\ \A r \in Revs : Detect(r)' = Detect(r)
      /\ Forks # {} => /\ Forks' # {}
                       /\ \A t \in 0..Len(log) : Constituents(t)' = Constituents(t)
  BY <1>1, WorkKeeps
<1>3. SvnTypeOK'
  <2>1. revision \in 0..Len(log) /\ reviewed \subseteq Revs /\ merges \subseteq Revs
    BY <1>1 DEF SvnTypeOK
  <2>2. reviewed \subseteq Revs' /\ merges \subseteq Revs'
    BY <1>2, <2>1
  <2>3. revision' \in 0..Len(log') /\ Len(log') <= MaxRevs
    BY <1>1, <1>2, <2>1
  <2> QED
    BY <1>1, <1>2, <2>2, <2>3 DEF SvnTypeOK
<1>4. LogInv'
  <2>1. ASSUME NEW k \in Revs' PROVE \A g \in log'[k].gains : g \in 1..(k - 1)
    <3>1. k \in 1..(Len(log) + 1)
      BY <1>2 DEF Revs
    <3>2. CASE k \in 1..Len(log)
      BY <1>1, <1>2, <3>2 DEF LogInv, Revs
    <3>3. CASE k = Len(log) + 1
      BY <1>1, <1>2, <3>3
    <3> QED
      BY <1>1, <3>1, <3>2, <3>3
  <2>2. \A r \in 1..MaxRevs : (seen'[r] # "none") <=> (r <= revision')
    BY <1>1 DEF LogInv
  <2> QED
    BY <2>1, <2>2 DEF LogInv
<1>5. FiledInv'
  <2>1. ASSUME NEW f \in filed
        PROVE  /\ f.of \in Revs /\ f.of \in Revs' /\ Detect(f.of)' = Detect(f.of)
               /\ f.merge => /\ Forks # {} /\ Forks' # {}
                             /\ Constituents(Detect(f.of))' = Constituents(Detect(f.of))
    <3>1. f.of \in Revs
      BY <1>1 DEF FiledInv, Kept
    <3>2. Detect(f.of) \in 0..f.of
      BY <1>1, <3>1, DetectedBefore
    <3>3. Detect(f.of) \in 0..Len(log)
      BY <1>1, <3>1, <3>2 DEF Revs
    <3>4. Detect(f.of)' = Detect(f.of)
      BY <1>1, <1>2, <3>1
    <3>5. ASSUME f.merge PROVE Forks # {} /\ Forks' # {} /\ Constituents(Detect(f.of))' = Constituents(Detect(f.of))
      <4>1. Forks # {}
        BY <1>1, <3>5 DEF FiledInv, Kept
      <4>2. \A t \in 0..Len(log) : Constituents(t)' = Constituents(t)
        BY <1>2, <4>1
      <4>3. Constituents(Detect(f.of))' = {k \in Revs' : log'[k].path = Branch /\ k <= Detect(f.of)'} \ {Min(Forks')}
        BY DEF Constituents, Branch
      <4>4. Constituents(Detect(f.of))' = {k \in Revs' : log'[k].path = Branch /\ k <= Detect(f.of)} \ {Min(Forks')}
        BY <3>4, <4>3
      <4>5. \A t \in 0..Len(log) : {k \in Revs' : log'[k].path = Branch /\ k <= t} \ {Min(Forks')} = Constituents(t)
        BY <4>2 DEF Constituents, Branch
      <4> QED
        BY <1>2, <3>3, <4>1, <4>4, <4>5
    <3> QED
      BY <1>2, <3>1, <3>4, <3>5
  <2>2. ASSUME NEW f \in filed PROVE Kept(f, filed, reviewed, merges, planned)'
    <3>1. Kept(f, filed, reviewed, merges, planned)
      BY <1>1 DEF FiledInv
    <3>2. /\ f.of \in Revs'
          /\ ~f.merge => f.of \in reviewed'
          /\ f.merge => f.loud /\ Forks' # {} /\ f.of \in merges' /\ planned'[f.of] \subseteq reviewed'
      BY <1>1, <2>1, <3>1 DEF Kept
    <3>3. ASSUME f.merge, NEW g \in filed', ~g.merge, g.loud, g.defect = f.defect, g.of \in Constituents(Detect(f.of))'
          PROVE  g.of \notin planned'[f.of]
      BY <1>1, <2>1, <3>1, <3>3 DEF Kept
    <3>4. ASSUME ~f.loud
          PROVE  \E g \in filed' : /\ g.merge /\ g.loud /\ g.defect = f.defect
                                   /\ ~f.merge /\ f.of \in Constituents(Detect(g.of))'
      <4>1. PICK g \in filed : /\ g.merge /\ g.loud /\ g.defect = f.defect
                               /\ ~f.merge /\ f.of \in Constituents(Detect(g.of))
        BY <3>1, <3>4 DEF Kept
      <4>2. Constituents(Detect(g.of))' = Constituents(Detect(g.of))
        BY <2>1, <4>1
      <4> QED
        BY <1>1, <4>1, <4>2
    <3> QED
      BY <3>2, <3>3, <3>4 DEF Kept
  <2> QED
    BY <1>1, <2>2 DEF FiledInv
<1> QED
  BY <1>3, <1>4, <1>5 DEF SvnInv

\* With the same log, a merge stands for the same.
LEMMA SameLog ==
  ASSUME log' = log
  PROVE  /\ Revs' = Revs /\ Forks' = Forks
         /\ \A f : Constituents(Detect(f.of))' = Constituents(Detect(f.of))
         /\ (\A f \in filed' : Kept(f, filed', reviewed', merges', planned')) => FiledInv'
<1>1. Revs' = Revs /\ Forks' = Forks
  BY DEF Revs, Forks
<1>2. \A f : Constituents(Detect(f.of))' = Constituents(Detect(f.of))
  BY DEF Revs, Forks, Constituents, Detect, IsReintegration, SaysMerged, ManyFiles, GainedThrough,
         Highest, MergeInfoAt, BranchHead, OnBranch
<1>3. ASSUME \A f \in filed' : Kept(f, filed', reviewed', merges', planned') PROVE FiledInv'
  <2>1. ASSUME NEW f \in filed' PROVE Kept(f, filed, reviewed, merges, planned)'
    <3>1. Kept(f, filed', reviewed', merges', planned')
      BY <1>3
    <3> QED
      BY <1>1, <1>2, <3>1 DEF Kept
  <2> QED
    BY <2>1 DEF FiledInv
<1> QED
  BY <1>1, <1>2, <1>3

\* The cursor goes to the last that was found, and all up to there were.
LEMMA DiscoverKeepsInv ==
  ASSUME SvnInv, Discover
  PROVE  SvnInv'
<1>1. /\ SvnTypeOK /\ LogInv /\ FiledInv
      /\ log \in Seq(Revision) /\ Len(log) \in Nat /\ MaxRevs \in Nat /\ Limit \in Nat
      /\ Len(log) <= MaxRevs /\ revision \in Nat /\ revision <= Len(log)
      /\ seen \in [1..MaxRevs -> {"none", "reviewable", "filtered"}]
      /\ UNCHANGED <<log, reviewed, merges, planned, filed>>
  BY SvnAssumption DEF SvnInv, SvnTypeOK, Discover
<1>2. Found \in SUBSET (0..Len(log)) /\ Found # {}
  BY <1>1 DEF Found, Revs, Discover
<1>3. revision' \in Found /\ \A i \in Found : i <= revision'
  BY <1>1, <1>2, MaxIs DEF Discover, HighestSeen
<1>4. \A r \in 1..MaxRevs : r \in Found <=> revision < r /\ r <= revision'
  BY <1>1, <1>3 DEF Found, Revs
<1>5. \A r \in 1..MaxRevs :
        seen'[r] = IF r \in Found THEN (IF Touches(r) THEN "reviewable" ELSE "filtered") ELSE seen[r]
  BY <1>1 DEF Discover
<1>6. seen' \in [1..MaxRevs -> {"none", "reviewable", "filtered"}]
  <2> DEFINE now(r) == IF r \in Found THEN (IF Touches(r) THEN "reviewable" ELSE "filtered") ELSE seen[r]
  <2>1. \A r \in 1..MaxRevs : now(r) \in {"none", "reviewable", "filtered"}
    BY <1>1
  <2>2. seen' = [r \in 1..MaxRevs |-> now(r)]
    BY <1>1 DEF Discover
  <2> HIDE DEF now
  <2> QED
    BY <2>1, <2>2
<1>7. SvnTypeOK'
  <2>1. revision' \in 0..Len(log)
    BY <1>2, <1>3
  <2> QED
    BY <1>1, <1>6, <2>1 DEF SvnTypeOK, Revs
<1>8. \A r \in 1..MaxRevs : (seen'[r] # "none") <=> (r <= revision')
  <2> TAKE r \in 1..MaxRevs
  <2>1. (seen[r] # "none") <=> (r <= revision)
    BY <1>1 DEF LogInv
  <2>2. revision' \in Nat /\ revision < revision'
    BY <1>1, <1>3, <1>2 DEF Found
  <2>3. CASE r \in Found
    BY <1>4, <1>5, <2>3
  <2>4. CASE r \notin Found
    BY <1>1, <1>4, <1>5, <2>1, <2>2, <2>4
  <2> QED
    BY <2>3, <2>4
<1>9. LogInv'
  BY <1>1, <1>8 DEF LogInv, Revs
<1>10. FiledInv'
  BY <1>1, SameLog DEF FiledInv
<1> QED
  BY <1>7, <1>9, <1>10 DEF SvnInv

\* A review changes nothing of the log: what stands for what stays as it was.
LEMMA ReviewKeeps ==
  ASSUME SvnInv, UNCHANGED <<log, revision, seen>>,
         reviewed' \in SUBSET Revs, merges' \in SUBSET Revs, filed' \in SUBSET Finding,
         planned' = [r \in 1..MaxRevs |-> planned'[r]],
         \A f \in filed' : Kept(f, filed', reviewed', merges', planned')
  PROVE  SvnInv'
<1>1. SvnTypeOK' /\ LogInv'
  BY DEF SvnInv, SvnTypeOK, LogInv, Revs
<1>2. FiledInv'
  BY SameLog
<1> QED
  BY <1>1, <1>2 DEF SvnInv

\* A finding on a revision that comes after the merge's plan was not in it.
LEMMA ReviewRevisionKeepsInv ==
  ASSUME SvnInv, NEW r \in Revs, ReviewRevision(r)
  PROVE  SvnInv'
<1>1. /\ SvnTypeOK /\ LogInv /\ FiledInv /\ log \in Seq(Revision) /\ Len(log) \in Nat
      /\ reviewed \subseteq Revs /\ merges \subseteq Revs /\ filed \subseteq Finding
      /\ planned = [k \in 1..MaxRevs |-> planned[k]]
      /\ r \notin reviewed /\ reviewed' = reviewed \cup {r}
      /\ UNCHANGED <<log, revision, seen, merges, planned>>
      /\ r \in Nat /\ r \in 1..Len(log)
  BY DEF SvnInv, SvnTypeOK, ReviewRevision, Revs
<1>2. PICK noticed \in SUBSET Added(r) :
        filed' = filed \cup {[defect |-> d, of |-> r, merge |-> FALSE, loud |-> TRUE] : d \in noticed}
  BY DEF ReviewRevision
<1>3. noticed \in SUBSET Defects
  <2>1. log[r] \in Revision
    BY <1>1
  <2> QED
    BY <2>1, <1>2 DEF Added, Revision
<1> DEFINE New == {[defect |-> d, of |-> r, merge |-> FALSE, loud |-> TRUE] : d \in noticed}
<1>4. \A g \in New : g.of = r /\ ~g.merge /\ g.loud
  OBVIOUS
<1>5. New \subseteq Finding
  <2>1. \A d \in Defects : [defect |-> d, of |-> r, merge |-> FALSE, loud |-> TRUE] \in Finding
    BY <1>1 DEF Finding
  <2> QED
    BY <1>3, <2>1
<1>6. filed' = filed \cup New
  BY <1>2
<1> HIDE DEF New
<1>7. ASSUME NEW f \in filed' PROVE Kept(f, filed', reviewed', merges', planned')
  <2>1. CASE f \in New
    BY <1>1, <1>4, <2>1 DEF Kept
  <2>2. CASE f \in filed
    <3>1. Kept(f, filed, reviewed, merges, planned)
      BY <1>1, <2>2 DEF FiledInv
    <3>2. /\ f.of \in Revs
          /\ ~f.merge => f.of \in reviewed'
          /\ f.merge => f.loud /\ Forks # {} /\ f.of \in merges' /\ planned'[f.of] \subseteq reviewed'
      BY <1>1, <3>1 DEF Kept
    <3>3. ASSUME f.merge, NEW g \in filed', ~g.merge, g.loud, g.defect = f.defect, g.of \in Constituents(Detect(f.of))
          PROVE  g.of \notin planned'[f.of]
      <4>1. CASE g \in filed
        BY <1>1, <3>1, <3>3, <4>1 DEF Kept
      <4>2. CASE g \in New
        BY <1>1, <1>4, <3>1, <3>3, <4>2 DEF Kept
      <4> QED
        BY <1>6, <4>1, <4>2
    <3>4. ~f.loud => \E g \in filed' : /\ g.merge /\ g.loud /\ g.defect = f.defect
                                       /\ ~f.merge /\ f.of \in Constituents(Detect(g.of))
      BY <1>6, <3>1 DEF Kept
    <3> QED
      BY <3>2, <3>3, <3>4 DEF Kept
  <2> QED
    BY <1>6, <2>1, <2>2
<1>8. reviewed' \in SUBSET Revs /\ merges' \in SUBSET Revs /\ filed' \in SUBSET Finding
      /\ planned' = [k \in 1..MaxRevs |-> planned'[k]]
  BY <1>1, <1>5, <1>6
<1> QED
  BY <1>1, <1>7, <1>8, ReviewKeeps

\* The plan makes findings of the constituents quiet and touches nothing else.
LEMMA PlanIs ==
  ASSUME NEW noticed, NEW constituents, filed \subseteq Finding
  PROVE  /\ Plan(noticed, constituents) \subseteq Finding
         /\ \A f \in Plan(noticed, constituents) : \E old \in filed :
              /\ f.defect = old.defect /\ f.of = old.of /\ f.merge = old.merge
              /\ \/ f = old /\ ~(~old.merge /\ old.of \in constituents /\ old.defect \in noticed)
                 \/ ~f.loud /\ ~old.merge /\ old.of \in constituents /\ old.defect \in noticed
         /\ \A old \in filed : ~(~old.merge /\ old.of \in constituents /\ old.defect \in noticed)
              => old \in Plan(noticed, constituents)
<1> DEFINE now(old) == IF ~old.merge /\ old.of \in constituents /\ old.defect \in noticed
                       THEN [old EXCEPT !.loud = FALSE] ELSE old
<1>1. Plan(noticed, constituents) = {now(old) : old \in filed}
  BY DEF Plan, Demoted
<1>2. ASSUME NEW old \in filed
      PROVE  /\ now(old) \in Finding
             /\ now(old).defect = old.defect /\ now(old).of = old.of /\ now(old).merge = old.merge
             /\ \/ now(old) = old /\ ~(~old.merge /\ old.of \in constituents /\ old.defect \in noticed)
                \/ ~now(old).loud /\ ~old.merge /\ old.of \in constituents /\ old.defect \in noticed
  <2>1. old \in Finding
    OBVIOUS
  <2>2. CASE ~old.merge /\ old.of \in constituents /\ old.defect \in noticed
    <3>1. now(old) = [old EXCEPT !.loud = FALSE]
      BY <2>2
    <3> HIDE DEF now
    <3> QED
      BY <2>1, <2>2, <3>1 DEF Finding
  <2>3. CASE ~(~old.merge /\ old.of \in constituents /\ old.defect \in noticed)
    <3>1. now(old) = old
      BY <2>3
    <3> HIDE DEF now
    <3> QED
      BY <2>1, <2>3, <3>1
  <2> QED
    BY <2>2, <2>3
<1> HIDE DEF now
<1>3. \A f \in Plan(noticed, constituents) : \E old \in filed : f = now(old)
  BY <1>1
<1>4. \A old \in filed : now(old) \in Plan(noticed, constituents)
  BY <1>1
<1>5. \A old \in filed : ~(~old.merge /\ old.of \in constituents /\ old.defect \in noticed) => old \in Plan(noticed, constituents)
  BY <1>2, <1>4
<1>6. Plan(noticed, constituents) \subseteq Finding
  BY <1>2, <1>3
<1>7. ASSUME NEW f \in Plan(noticed, constituents)
      PROVE  \E old \in filed :
              /\ f.defect = old.defect /\ f.of = old.of /\ f.merge = old.merge
              /\ \/ f = old /\ ~(~old.merge /\ old.of \in constituents /\ old.defect \in noticed)
                 \/ ~f.loud /\ ~old.merge /\ old.of \in constituents /\ old.defect \in noticed
  BY <1>2, <1>3
<1> QED
  BY <1>5, <1>6, <1>7

\* When the plan is made, what its merge has filed too is loud on the merge alone, of all
\* that its constituents had.
LEMMA ReviewMergeKeepsInv ==
  ASSUME SvnInv, NEW r \in Revs, ReviewMerge(r)
  PROVE  SvnInv'
<1>1. /\ SvnTypeOK /\ LogInv /\ FiledInv /\ log \in Seq(Revision) /\ Len(log) \in Nat /\ Len(log) <= MaxRevs
      /\ MaxRevs \in Nat
      /\ reviewed \subseteq Revs /\ merges \subseteq Revs /\ filed \subseteq Finding
      /\ r \notin merges /\ merges' = merges \cup {r}
      /\ planned = [k \in 1..MaxRevs |-> planned[k]] /\ planned' = [planned EXCEPT ![r] = reviewed]
      /\ UNCHANGED <<log, revision, seen, reviewed>> /\ Forks # {}
      /\ r \in Nat /\ r \in 1..Len(log)
  BY SvnAssumption DEF SvnInv, SvnTypeOK, ReviewMerge, Revs
<1>2. PICK noticed \in SUBSET PseudoPrDiff(r) :
        filed' = Plan(noticed, Constituents(Detect(r)))
                   \cup {[defect |-> d, of |-> r, merge |-> TRUE, loud |-> TRUE] : d \in noticed}
  BY DEF ReviewMerge
<1>3. noticed \in SUBSET Defects
  <2>1. Content(Branch, r) \in SUBSET Defects
    BY <1>1, ContentIsDefects
  <2> QED
    BY <1>2, <2>1 DEF PseudoPrDiff
<1>4. /\ planned'[r] = reviewed
      /\ \A k \in Revs : k # r => planned'[k] = planned[k]
      /\ planned' = [k \in 1..MaxRevs |-> planned'[k]]
  <2>1. r \in 1..MaxRevs
    BY <1>1
  <2>2. Revs \subseteq 1..MaxRevs
    BY <1>1 DEF Revs
  <2> QED
    BY <1>1, <2>1, <2>2
<1> DEFINE New == {[defect |-> d, of |-> r, merge |-> TRUE, loud |-> TRUE] : d \in noticed}
<1>5. /\ \A g \in New : g.of = r /\ g.merge /\ g.loud /\ g.defect \in noticed
      /\ \A d \in noticed : \E g \in New : g.defect = d
  <2>1. \A d \in noticed : [defect |-> d, of |-> r, merge |-> TRUE, loud |-> TRUE] \in New
    OBVIOUS
  <2>2. \A g \in New : g.of = r /\ g.merge /\ g.loud /\ g.defect \in noticed
    OBVIOUS
  <2>3. ASSUME NEW d \in noticed PROVE \E g \in New : g.defect = d
    <3>1. [defect |-> d, of |-> r, merge |-> TRUE, loud |-> TRUE].defect = d
      OBVIOUS
    <3> HIDE DEF New
    <3> QED
      BY <2>1, <3>1
  <2> QED
    BY <2>2, <2>3
<1>6. New \subseteq Finding
  <2>1. \A d \in Defects : [defect |-> d, of |-> r, merge |-> TRUE, loud |-> TRUE] \in Finding
    BY <1>1 DEF Finding
  <2> QED
    BY <1>3, <2>1
<1> HIDE DEF New
<1> DEFINE Old == Plan(noticed, Constituents(Detect(r)))
           Demotes(old) == ~old.merge /\ old.of \in Constituents(Detect(r)) /\ old.defect \in noticed
<1>7. filed' = Old \cup New
  BY <1>2 DEF New
<1>8. /\ Old \subseteq Finding
      /\ \A f \in Old : \E old \in filed :
           /\ f.defect = old.defect /\ f.of = old.of /\ f.merge = old.merge
           /\ \/ f = old /\ ~Demotes(old)
              \/ ~f.loud /\ Demotes(old)
      /\ \A old \in filed : ~Demotes(old) => old \in Old
  BY <1>1, PlanIs
<1> HIDE DEF Old
<1>9. \A g \in filed' : ~g.merge /\ g.loud => g \in filed /\ ~Demotes(g)
  BY <1>5, <1>7, <1>8
<1>10. \A g \in filed : g.merge => g \in filed'
  BY <1>7, <1>8
<1>11. ASSUME NEW f \in filed' PROVE Kept(f, filed', reviewed', merges', planned')
  <2>1. CASE f \in New
    <3>1. f.of = r /\ f.merge /\ f.loud /\ f.defect \in noticed
      BY <1>5, <2>1
    <3>2. ASSUME NEW g \in filed', ~g.merge, g.loud, g.defect = f.defect, g.of \in Constituents(Detect(f.of))
          PROVE  FALSE
      BY <1>9, <3>1, <3>2
    <3> QED
      BY <1>1, <1>4, <3>1, <3>2 DEF Kept
  <2>2. CASE f \in Old
    <3>1. PICK old \in filed : /\ f.defect = old.defect /\ f.of = old.of /\ f.merge = old.merge
                               /\ \/ f = old /\ ~Demotes(old)
                                  \/ ~f.loud /\ Demotes(old)
      BY <1>8, <2>2
    <3>2. Kept(old, filed, reviewed, merges, planned)
      BY <1>1 DEF FiledInv
    <3>3. f.of \in Revs /\ (~f.merge => f.of \in reviewed')
      BY <1>1, <3>1, <3>2 DEF Kept
    <3>4. ASSUME f.merge
          PROVE  /\ f.loud /\ Forks # {} /\ f.of \in merges' /\ planned'[f.of] \subseteq reviewed'
                 /\ \A g \in filed' : ~g.merge /\ g.loud /\ g.defect = f.defect /\ g.of \in Constituents(Detect(f.of))
                                        => g.of \notin planned'[f.of]
      <4>1. f = old /\ old.merge
        BY <3>1, <3>4
      <4>2. /\ f.loud /\ Forks # {} /\ f.of \in merges /\ planned[f.of] \subseteq reviewed /\ f.of \in Revs
            /\ \A g \in filed : ~g.merge /\ g.loud /\ g.defect = f.defect /\ g.of \in Constituents(Detect(f.of))
                                   => g.of \notin planned[f.of]
        BY <3>2, <4>1 DEF Kept
      <4>3. planned'[f.of] = planned[f.of]
        BY <1>1, <1>4, <4>2
      <4> QED
        BY <1>1, <1>9, <4>2, <4>3
    <3>5. ASSUME ~f.loud
          PROVE  \E g \in filed' : /\ g.merge /\ g.loud /\ g.defect = f.defect
                                   /\ ~f.merge /\ f.of \in Constituents(Detect(g.of))
      <4>1. CASE f = old
        <5>1. PICK g \in filed : /\ g.merge /\ g.loud /\ g.defect = f.defect
                                 /\ ~f.merge /\ f.of \in Constituents(Detect(g.of))
          BY <3>2, <3>5, <4>1 DEF Kept
        <5> QED
          BY <1>10, <5>1
      <4>2. CASE Demotes(old)
        <5>1. PICK g \in New : g.defect = f.defect
          BY <1>5, <3>1, <4>2
        <5>2. g \in filed' /\ g.merge /\ g.loud /\ g.of = r
          BY <1>5, <1>7, <5>1
        <5> QED
          BY <3>1, <4>2, <5>1, <5>2
      <4> QED
        BY <3>1, <4>1, <4>2
    <3> QED
      BY <3>3, <3>4, <3>5 DEF Kept
  <2> QED
    BY <1>7, <2>1, <2>2
<1>12. reviewed' \in SUBSET Revs /\ merges' \in SUBSET Revs /\ filed' \in SUBSET Finding
  BY <1>1, <1>6, <1>7, <1>8
<1> QED
  BY <1>1, <1>4, <1>11, <1>12, ReviewKeeps

LEMMA SvnStarts == SvnInit => SvnInv
<1> SUFFICES ASSUME SvnInit PROVE SvnInv
  OBVIOUS
<1>1. log = << >> /\ Len(log) = 0 /\ log \in Seq(Revision) /\ revision = 0 /\ reviewed = {} /\ merges = {} /\ filed = {}
  BY DEF SvnInit
<1>2. /\ seen = [r \in 1..MaxRevs |-> "none"] /\ MaxRevs \in Nat
      /\ planned = [r \in 1..MaxRevs |-> planned[r]]
  BY SvnAssumption DEF SvnInit
<1>3. SvnTypeOK
  BY <1>1, <1>2 DEF SvnTypeOK
<1>4. LogInv
  BY <1>1, <1>2 DEF LogInv, Revs
<1>5. FiledInv
  BY <1>1 DEF FiledInv
<1> QED
  BY <1>3, <1>4, <1>5 DEF SvnInv

LEMMA SvnSteps == SvnInv /\ [SvnNext]_svnVars => SvnInv'
<1> SUFFICES ASSUME SvnInv, [SvnNext]_svnVars PROVE SvnInv'
  OBVIOUS
<1>1. CASE Len(log) < MaxRevs /\ Work
  BY <1>1, WorkKeepsInv
<1>2. CASE Discover
  BY <1>2, DiscoverKeepsInv
<1>3. CASE \E r \in Revs : ReviewRevision(r) \/ ReviewMerge(r)
  BY <1>3, ReviewRevisionKeepsInv, ReviewMergeKeepsInv
<1>4. CASE UNCHANGED svnVars
  <2>1. /\ UNCHANGED <<log, revision, seen>> /\ reviewed' = reviewed /\ merges' = merges
        /\ planned' = planned /\ filed' = filed
    BY <1>4 DEF svnVars
  <2>2. /\ reviewed' \in SUBSET Revs /\ merges' \in SUBSET Revs /\ filed' \in SUBSET Finding
        /\ planned' = [r \in 1..MaxRevs |-> planned'[r]]
    BY <2>1 DEF SvnInv, SvnTypeOK
  <2>3. \A f \in filed' : Kept(f, filed', reviewed', merges', planned')
    BY <2>1 DEF SvnInv, FiledInv
  <2> QED
    BY <2>1, <2>2, <2>3, ReviewKeeps
<1> QED
  BY <1>1, <1>2, <1>3, <1>4 DEF SvnNext

\* The log, what was seen and what was filed stay as SvnInv has them, for every history
\* of commits, every limit of svn log and every order of reviews (discover.rs, demotion.rs).
THEOREM SvnInvariant == SvnSpec => []SvnInv
  BY SvnStarts, SvnSteps, PTL DEF SvnSpec

\* What the cursor has passed, and just that, was seen.
LEMMA PassedAreSeen == SvnInv => EveryRevisionSeen
<1> SUFFICES ASSUME SvnInv, NEW r \in Revs PROVE (seen[r] # "none") = (r <= revision)
  BY DEF EveryRevisionSeen
<1>1. Len(log) \in Nat /\ Len(log) <= MaxRevs /\ MaxRevs \in Nat /\ r \in 1..Len(log)
  BY SvnAssumption DEF SvnInv, SvnTypeOK, Revs
<1>2. r \in 1..MaxRevs
  BY <1>1
<1> QED
  BY <1>2 DEF SvnInv, LogInv

\* No pass steps over a revision: those the cursor has passed are the ones that were
\* seen (discover.rs, highest_seen).
THEOREM Seen == SvnSpec => []EveryRevisionSeen
  BY PassedAreSeen, SvnInvariant, PTL

\* A finding is quiet just for a loud one of the same defect on a merge of its branch, and
\* one that was there when the merge's plan was made is not loud beside it, whatever order
\* merges and revisions are reviewed in (demotion.rs, plan).
THEOREM Quiet == SvnSpec => []QuietBehindItsMerge
<1>1. SvnInv => QuietBehindItsMerge
  BY KeptIsQuiet DEF SvnInv
<1> QED
  BY <1>1, SvnInvariant, PTL

-----------------------------------------------------------------------------
(* Git.                                                                    *)

\* What is known before `c` on its first-parent line is in hand or was reached by the
\* position the pass reads from, which the cursor reaches.
InHand(c) == \A d \in Line[c] : d \in Range(found) \/ (position # None /\ d \in Reach[position])

GitTypeOK ==
  /\ head \in [Range(Branches) -> Commits \cup {None}]
  /\ cursor \in Commits \cup {None} /\ position \in Commits \cup {None} /\ upto \in Commits \cup {None}
  /\ known = [c \in Commits |-> known[c]]
  /\ todo \subseteq DOMAIN Branches
  /\ found \in Seq(Commits)

PassInv ==
  /\ stage \in {"idle", "exists", "ancestor", "base"} => position = None
  /\ position # None => cursor # None /\ position \in Reach[cursor]
  /\ \A c \in Range(found) : InHand(c)

GitInv == GitTypeOK /\ PassInv /\ NothingSkippedOver

\* The commits are numbers.
LEMMA CommitsAre ==
  /\ \E n \in Nat : Commits = 1..n
  /\ Commits \subseteq Nat /\ None \notin Commits /\ 1 \in Commits /\ IsFiniteSet(Commits)
  /\ \A c \in Commits : /\ Parents[c] \in Seq(Nat)
                        /\ \A i \in DOMAIN Parents[c] : Parents[c][i] \in Commits /\ Parents[c][i] < c
<1>1. Parents \in Seq(Seq(Nat)) /\ Parents # << >>
  BY HistoryAssumption
<1>2. PICK n \in Nat : n = Len(Parents) /\ Commits = 1..n /\ n > 0
  BY <1>1 DEF Commits
<1>3. IsFiniteSet(Commits)
  BY <1>2, FS_Interval
<1>4. \A c \in Commits : Parents[c] \in Seq(Nat)
  BY <1>1 DEF Commits
<1>5. \A c \in Commits : \A i \in DOMAIN Parents[c] : Parents[c][i] \in Commits /\ Parents[c][i] < c
  <2> SUFFICES ASSUME NEW c \in Commits, NEW i \in DOMAIN Parents[c]
               PROVE  Parents[c][i] \in Commits /\ Parents[c][i] < c
    OBVIOUS
  <2>1. Parents[c][i] \in 1..(c - 1)
    BY HistoryAssumption
  <2> QED
    BY <1>2, <2>1
<1>6. \E m \in Nat : Commits = 1..m
  BY <1>2
<1>7. Commits \subseteq Nat /\ None \notin Commits /\ 1 \in Commits
  BY <1>2 DEF None
<1> QED
  BY <1>3, <1>4, <1>5, <1>6, <1>7

\* Reach and Line, by what they are asked for: they hold the commit, the (first) parents
\* of their own, and are within every set that does.
LEMMA ReachIs ==
  ASSUME NEW c \in Commits
  PROVE  /\ Reach[c] \subseteq Commits /\ c \in Reach[c]
         /\ \A d \in Reach[c] : \A i \in DOMAIN Parents[d] : Parents[d][i] \in Reach[c]
         /\ \A S \in SUBSET Commits :
              c \in S /\ (\A d \in S : \A i \in DOMAIN Parents[d] : Parents[d][i] \in S) => Reach[c] \subseteq S
<1> DEFINE Closed(S) == \A d \in S : Range(Parents[d]) \subseteq S
<1>1. Reach[c] = {d \in Commits : \A S \in SUBSET Commits : c \in S /\ Closed(S) => d \in S}
  BY CommitsAre DEF Reach
<1>2. \A S \in SUBSET Commits : Closed(S) <=> \A d \in S : \A i \in DOMAIN Parents[d] : Parents[d][i] \in S
  BY DEF Range
<1> HIDE DEF Closed
<1>3. Reach[c] \subseteq Commits /\ c \in Reach[c]
  BY <1>1
<1>4. ASSUME NEW d \in Reach[c], NEW i \in DOMAIN Parents[d] PROVE Parents[d][i] \in Reach[c]
  <2>1. d \in Commits /\ Parents[d][i] \in Commits
    BY <1>3, CommitsAre
  <2>2. ASSUME NEW S \in SUBSET Commits, c \in S, Closed(S) PROVE Parents[d][i] \in S
    <3>1. d \in S
      BY <1>1, <2>2
    <3> QED
      BY <1>2, <2>2, <3>1
  <2> QED
    BY <1>1, <2>1, <2>2
<1>5. ASSUME NEW S \in SUBSET Commits, c \in S, \A d \in S : \A i \in DOMAIN Parents[d] : Parents[d][i] \in S
      PROVE  Reach[c] \subseteq S
  BY <1>1, <1>2, <1>5
<1> QED
  BY <1>3, <1>4, <1>5

LEMMA LineIs ==
  ASSUME NEW c \in Commits
  PROVE  /\ Line[c] \subseteq Commits /\ c \in Line[c]
         /\ \A d \in Line[c] : Parents[d] # << >> => Parents[d][1] \in Line[c]
         /\ \A S \in SUBSET Commits :
              c \in S /\ (\A d \in S : Parents[d] # << >> => Parents[d][1] \in S) => Line[c] \subseteq S
<1> DEFINE Closed(S) == \A d \in S : Parents[d] # << >> => Head(Parents[d]) \in S
<1>1. Line[c] = {d \in Commits : \A S \in SUBSET Commits : c \in S /\ Closed(S) => d \in S}
  BY CommitsAre DEF Line
<1>2. \A d \in Commits : Parents[d] # << >> => Head(Parents[d]) = Parents[d][1] /\ Parents[d][1] \in Commits
  BY CommitsAre
<1>3. \A S \in SUBSET Commits : Closed(S) <=> \A d \in S : Parents[d] # << >> => Parents[d][1] \in S
  BY <1>2
<1> HIDE DEF Closed
<1>4. Line[c] \subseteq Commits /\ c \in Line[c]
  BY <1>1
<1>5. ASSUME NEW d \in Line[c], Parents[d] # << >> PROVE Parents[d][1] \in Line[c]
  <2>1. d \in Commits /\ Parents[d][1] \in Commits
    BY <1>2, <1>4, <1>5
  <2>2. ASSUME NEW S \in SUBSET Commits, c \in S, Closed(S) PROVE Parents[d][1] \in S
    <3>1. d \in S
      BY <1>1, <2>2
    <3> QED
      BY <1>3, <1>5, <2>2, <3>1
  <2> QED
    BY <1>1, <2>1, <2>2
<1>6. ASSUME NEW S \in SUBSET Commits, c \in S, \A d \in S : Parents[d] # << >> => Parents[d][1] \in S
      PROVE  Line[c] \subseteq S
  BY <1>1, <1>3, <1>6
<1> QED
  BY <1>4, <1>5, <1>6

\* What a commit of these reaches, they reach.
LEMMA ReachOn ==
  ASSUME NEW c \in Commits, NEW d \in Reach[c]
  PROVE  Reach[d] \subseteq Reach[c]
  BY ReachIs

LEMMA LineOn ==
  ASSUME NEW c \in Commits, NEW d \in Line[c]
  PROVE  /\ Line[d] \subseteq Line[c]
         /\ d <= c
<1>1. d \in Commits
  BY LineIs
<1>2. Line[d] \subseteq Line[c]
  BY <1>1, LineIs
<1> DEFINE older == {e \in Commits : e <= c}
<1>3. older \in SUBSET Commits /\ c \in older
  BY CommitsAre
<1>4. \A e \in older : Parents[e] # << >> => Parents[e][1] \in older
  <2> SUFFICES ASSUME NEW e \in older, Parents[e] # << >> PROVE Parents[e][1] \in older
    OBVIOUS
  <2>1. Parents[e][1] \in Commits /\ Parents[e][1] < e
    BY CommitsAre
  <2> QED
    BY <2>1, CommitsAre
<1>5. Line[c] \subseteq older
  BY <1>3, <1>4, LineIs
<1> QED
  BY <1>2, <1>5

\* What a commit reaches, itself apart, one of its parents does.
LEMMA ReachStep ==
  ASSUME NEW c \in Commits, NEW x \in Reach[c], x # c
  PROVE  \E i \in DOMAIN Parents[c] : x \in Reach[Parents[c][i]]
<1> DEFINE S == {y \in Commits : y = c \/ \E i \in DOMAIN Parents[c] : y \in Reach[Parents[c][i]]}
<1>1. S \in SUBSET Commits /\ c \in S
  OBVIOUS
<1>2. ASSUME NEW y \in S, NEW j \in DOMAIN Parents[y] PROVE Parents[y][j] \in S
  <2>1. y \in Commits /\ Parents[y][j] \in Commits
    BY CommitsAre
  <2>2. CASE y = c
    BY <2>1, <2>2, ReachIs
  <2>3. CASE \E i \in DOMAIN Parents[c] : y \in Reach[Parents[c][i]]
    <3>1. PICK i \in DOMAIN Parents[c] : y \in Reach[Parents[c][i]]
      BY <2>3
    <3>2. Parents[c][i] \in Commits
      BY CommitsAre
    <3>3. Parents[y][j] \in Reach[Parents[c][i]]
      BY <3>1, <3>2, ReachIs
    <3> QED
      BY <2>1, <3>3
  <2> QED
    BY <2>2, <2>3
<1>3. Reach[c] \subseteq S
  BY <1>1, <1>2, ReachIs
<1> QED
  BY <1>3

\* A commit reaches its first-parent line, and what the merges on it brought in: the
\* first of the line to reach it is itself, or has it from another parent.
LEMMA ReachByLine ==
  ASSUME NEW c \in Commits, NEW x \in Reach[c]
  PROVE  x \in Line[c] \/ \E d \in Line[c] : x \in BroughtIn(d)
<1> DEFINE above == {d \in Line[c] : x \in Reach[d]}
<1>1. Line[c] \subseteq Commits /\ c \in above /\ Commits \subseteq Nat
  BY LineIs, CommitsAre
<1>2. above \in SUBSET Nat /\ above # {}
  BY <1>1
<1>3. PICK m \in above : \A d \in above : m <= d
  BY <1>2, Smallest
<1>4. m \in Line[c] /\ m \in Commits /\ x \in Reach[m]
  BY <1>1
<1>5. CASE x = m
  BY <1>4, <1>5
<1>6. CASE x # m
  <2>1. PICK i \in DOMAIN Parents[m] : x \in Reach[Parents[m][i]]
    BY <1>4, <1>6, ReachStep
  <2>2. /\ Parents[m] \in Seq(Nat) /\ Parents[m] # << >> /\ Head(Parents[m]) = Parents[m][1]
        /\ 1 \in DOMAIN Parents[m]
    BY <1>4, <2>1, CommitsAre
  <2>3. Parents[m][1] \in Line[c] /\ Parents[m][1] < m /\ Parents[m][1] \in Nat /\ m \in Nat
    BY <1>4, <2>2, LineIs, CommitsAre
  <2>4. x \notin Reach[Parents[m][1]]
    BY <1>3, <2>3
  <2>5. i # 1
    BY <2>1, <2>4
  <2>6. IsMerge(m)
    BY <2>1, <2>2, <2>5 DEF IsMerge
  <2>7. x \in BroughtIn(m)
    BY <1>4, <2>2, <2>4, <2>6 DEF BroughtIn
  <2> QED
    BY <1>4, <2>7
<1> QED
  BY <1>5, <1>6

\* A set of commits, oldest first, is all of them.
LEMMA PlaceIs ==
  ASSUME NEW S \in SUBSET Commits
  PROVE  /\ IsFiniteSet(S) /\ Cardinality(S) \in Nat
         /\ \A c \in S : Place(c, S) \in 1..Cardinality(S)
         /\ \A c, d \in S : d <= c => Place(d, S) <= Place(c, S)
         /\ \A c, d \in S : Place(d, S) = Place(c, S) => c = d
<1>1. IsFiniteSet(S) /\ Cardinality(S) \in Nat
  BY CommitsAre, FS_Subset, FS_CardinalityType
<1> DEFINE upTo(c) == {d \in S : d <= c}
<1>2. \A c \in S : /\ IsFiniteSet(upTo(c)) /\ Cardinality(upTo(c)) \in Nat /\ Cardinality(upTo(c)) <= Cardinality(S)
  <2> TAKE c \in S
  <2>1. upTo(c) \in SUBSET S
    OBVIOUS
  <2> HIDE DEF upTo
  <2> QED
    BY <1>1, <2>1, FS_Subset, FS_CardinalityType
<1>3. \A c \in S : c \in upTo(c)
  BY CommitsAre
<1>4. \A c, d \in S : d <= c => upTo(d) \subseteq upTo(c)
  <2>1. \A c \in S : c \in Nat
    BY CommitsAre
  <2>2. \A c, d, e \in S : e <= d /\ d <= c => e <= c
    BY <2>1
  <2> QED
    BY <2>2
<1>5. \A c, d \in S : d < c => c \notin upTo(d)
  BY CommitsAre
<1>6. \A c \in S : Place(c, S) = Cardinality(upTo(c))
  BY DEF Place
<1> HIDE DEF upTo
<1>7. \A c, d \in S : d <= c => Cardinality(upTo(d)) <= Cardinality(upTo(c))
  <2> SUFFICES ASSUME NEW c \in S, NEW d \in S, d <= c PROVE Cardinality(upTo(d)) <= Cardinality(upTo(c))
    OBVIOUS
  <2>1. upTo(d) \in SUBSET upTo(c)
    BY <1>4
  <2> QED
    BY <1>2, <2>1, FS_Subset
<1>8. \A c, d \in S : d < c => Cardinality(upTo(d)) < Cardinality(upTo(c))
  <2> SUFFICES ASSUME NEW c \in S, NEW d \in S, d < c PROVE Cardinality(upTo(d)) < Cardinality(upTo(c))
    OBVIOUS
  <2>1. upTo(d) \in SUBSET upTo(c) /\ upTo(d) # upTo(c)
    BY <1>3, <1>4, <1>5, CommitsAre
  <2>2. Cardinality(upTo(d)) <= Cardinality(upTo(c)) /\ Cardinality(upTo(d)) # Cardinality(upTo(c))
    BY <1>2, <2>1, FS_Subset
  <2> QED
    BY <1>2, <2>2
<1>9. \A c \in S : Cardinality(upTo(c)) > 0
  <2> TAKE c \in S
  <2>1. upTo(c) # {}
    BY <1>3
  <2>2. Cardinality(upTo(c)) # 0
    BY <1>2, <2>1, FS_EmptySet
  <2> QED
    BY <1>2, <2>2
<1>10. \A c \in S : Cardinality(upTo(c)) \in 1..Cardinality(S)
  BY <1>1, <1>2, <1>9
<1>11. ASSUME NEW c \in S, NEW d \in S, Cardinality(upTo(d)) = Cardinality(upTo(c)) PROVE c = d
  <2>1. ~(c < d) /\ ~(d < c)
    BY <1>2, <1>8, <1>11
  <2> QED
    BY <2>1, CommitsAre
<1> QED
  BY <1>1, <1>6, <1>7, <1>10, <1>11

LEMMA OldestFirstIs ==
  ASSUME NEW S \in SUBSET Commits
  PROVE  OldestFirst(S) \in Seq(S) /\ Range(OldestFirst(S)) = S
<1> DEFINE n == Cardinality(S)
           nth(i) == CHOOSE c \in S : Place(c, S) = i
           placeOf == [c \in S |-> Place(c, S)]
<1>1. OldestFirst(S) = [i \in 1..n |-> nth(i)]
  BY DEF OldestFirst
<1>2. IsFiniteSet(S) /\ n \in Nat
  BY PlaceIs
<1>3. IsFiniteSet(1..n) /\ Cardinality(1..n) = n
  BY <1>2, FS_Interval
<1>4. placeOf \in Injection(S, 1..n)
  BY PlaceIs DEF Injection, IsInjective
<1>5. placeOf \in Surjection(S, 1..n)
  <2> HIDE DEF placeOf
  <2>1. Cardinality(S) = Cardinality(1..n)
    BY <1>3
  <2> QED
    BY <1>3, <1>4, <2>1, FS_Injection
<1>6. \A i \in 1..n : \E c \in S : Place(c, S) = i
  BY <1>5 DEF Surjection
<1>7. \A i \in 1..n : nth(i) \in S /\ Place(nth(i), S) = i
  BY <1>6
<1>8. \A c \in S : Place(c, S) \in 1..n /\ nth(Place(c, S)) = c
  <2> TAKE c \in S
  <2>1. Place(c, S) \in 1..n
    BY PlaceIs
  <2>2. nth(Place(c, S)) \in S /\ Place(nth(Place(c, S)), S) = Place(c, S)
    BY <1>7, <2>1
  <2> QED
    BY <2>1, <2>2, PlaceIs
<1> HIDE DEF nth, n
<1>9. OldestFirst(S) \in Seq(S)
  BY <1>1, <1>2, <1>7
<1>10. Range(OldestFirst(S)) = S
  <2>1. Range(OldestFirst(S)) = {nth(i) : i \in 1..n}
    BY <1>1 DEF Range
  <2> QED
    BY <1>7, <1>8, <2>1
<1> QED
  BY <1>9, <1>10

LEMMA MinIs ==
  ASSUME NEW S \in SUBSET Nat, S # {}
  PROVE  Min(S) \in S
<1>1. \E m \in S : \A i \in S : m <= i
  BY Smallest
<1> QED
  BY <1>1 DEF Min

\* Nothing comes before nothing.
LEMMA NoneReachesNone == Reach[None] = {} /\ Line[None] = {}
  BY CommitsAre DEF Reach, Line

\* What is read holds, of the line of each of its commits, all but what was read before.
LEMMA ReadIsClosed ==
  ASSUME NEW last \in Commits \cup {None}, NEW from \in Commits \cup {None},
         NEW c \in RevList(from, last), NEW d \in Line[c]
  PROVE  d \in RevList(from, last) \/ (from # None /\ d \in Reach[from])
<1>1. RevList(from, last) = Line[last] \ Reach[from]
  BY DEF RevList
<1>2. last \in Commits
  BY <1>1, NoneReachesNone
<1>3. c \in Commits /\ d \in Line[last]
  BY <1>1, <1>2, LineIs, LineOn
<1> QED
  BY <1>1, <1>3, NoneReachesNone

\* What is known stays known, and so the cursor's past does.
LEMMA KnownGrows ==
  ASSUME NothingSkippedOver, cursor' = cursor, \A c \in Commits : known[c] # "none" => known'[c] # "none"
  PROVE  NothingSkippedOver'
<1>1. InTable \subseteq InTable'
  BY DEF InTable
<1>2. Accounted' = InTable' \cup UNION {BroughtIn(k) : k \in InTable'}
  BY DEF Accounted, BroughtIn
<1>3. Accounted \subseteq Accounted'
  BY <1>1, <1>2 DEF Accounted
<1> QED
  BY <1>3 DEF NothingSkippedOver

\* A pass that ends, however it does, leaves nothing in hand.
LEMMA PassOver ==
  ASSUME GitTypeOK, GiveUp, cursor' \in Commits \cup {None},
         UNCHANGED head, known' = [c \in Commits |-> known'[c]]
  PROVE  GitTypeOK' /\ PassInv'
<1>1. /\ stage' = "idle" /\ position' = None /\ todo' = {} /\ upto' = None /\ found' = << >>
      /\ found' \in Seq(Commits) /\ Range(found') = {}
  BY DEF GiveUp, Range
<1>2. todo' \subseteq DOMAIN Branches /\ position' \in Commits \cup {None} /\ upto' \in Commits \cup {None}
  BY <1>1
<1>3. GitTypeOK'
  BY <1>1, <1>2 DEF GitTypeOK
<1>4. PassInv'
  BY <1>1 DEF PassInv
<1> QED
  BY <1>3, <1>4

\* What others do leaves the pass as it is.
LEMMA PassStays ==
  ASSUME GitTypeOK, PassInv, UNCHANGED <<cursor, pass>>,
         head' \in [Range(Branches) -> Commits \cup {None}], known' = [c \in Commits |-> known'[c]]
  PROVE  GitTypeOK' /\ PassInv'
<1>1. /\ cursor' = cursor /\ stage' = stage /\ position' = position /\ todo' = todo
      /\ upto' = upto /\ found' = found
  BY DEF pass
<1>2. GitTypeOK'
  BY <1>1 DEF GitTypeOK
<1>3. PassInv'
  BY <1>1 DEF PassInv, InHand
<1> QED
  BY <1>2, <1>3

LEMMA PeopleInv ==
  ASSUME GitInv, \/ \E b \in Range(Branches) : Push(b) \/ ForcePush(b)
                 \/ Prune
                 \/ DesktopReads
  PROVE  GitInv'
<1>1. GitTypeOK /\ PassInv /\ NothingSkippedOver
  BY DEF GitInv
<1>2. /\ UNCHANGED <<cursor, pass>> /\ head' \in [Range(Branches) -> Commits \cup {None}]
      /\ known' = [c \in Commits |-> known'[c]]
      /\ \A c \in Commits : known[c] # "none" => known'[c] # "none"
  <2>1. CASE \E b \in Range(Branches) : Push(b) \/ ForcePush(b)
    <3>1. \E b \in Range(Branches), c \in Commits : head' = [head EXCEPT ![b] = c]
      BY <2>1 DEF Push, ForcePush, Moved
    <3>2. head' \in [Range(Branches) -> Commits \cup {None}]
      BY <1>1, <3>1 DEF GitTypeOK
    <3>3. UNCHANGED <<cursor, known, pass>>
      BY <2>1 DEF Push, ForcePush, Moved
    <3> QED
      BY <1>1, <3>2, <3>3 DEF GitTypeOK
  <2>2. CASE Prune
    BY <1>1, <2>2 DEF Prune, GitTypeOK
  <2>3. CASE DesktopReads
    <3>1. /\ UNCHANGED <<head, cursor, pass>>
          /\ \E seen0 : known' = [c \in Commits |-> IF c \in seen0 /\ known[c] = "none" THEN "wanted" ELSE known[c]]
      BY <2>3 DEF DesktopReads
    <3>2. known' = [c \in Commits |-> known'[c]] /\ \A c \in Commits : known[c] # "none" => known'[c] # "none"
      BY <3>1
    <3> QED
      BY <1>1, <3>1, <3>2 DEF GitTypeOK
  <2> QED
    BY <2>1, <2>2, <2>3
<1>3. cursor' = cursor
  BY <1>2
<1> QED
  BY <1>1, <1>2, <1>3, KnownGrows, PassStays DEF GitInv

\* Where a rewrite and what it left behind part is in the past of the cursor.
LEMMA MergeBaseIs ==
  ASSUME cursor \in Commits \cup {None}, NEW tip, MergeBase(cursor, tip) # None
  PROVE  /\ cursor # None /\ MergeBase(cursor, tip) \in Reach[cursor]
         /\ MergeBase(cursor, tip) \in Commits
<1> DEFINE both == Reach[cursor] \cap Reach[tip]
<1>1. both # {}
  BY DEF MergeBase
<1>2. cursor \in Commits /\ both \in SUBSET Commits
  BY <1>1, NoneReachesNone, ReachIs
<1>3. PICK n \in Nat : Commits = 1..n
  BY CommitsAre
<1>4. both \in SUBSET (0..n)
  BY <1>2, <1>3
<1>5. \E c \in both : \A d \in both : d <= c
  BY <1>1, <1>4, Largest
<1>6. MergeBase(cursor, tip) \in both
  BY <1>1, <1>5 DEF MergeBase
<1> QED
  BY <1>2, <1>6, CommitsAre

\* What the pass reads from is in the past of the cursor.
LEMMA ReadsFromInv ==
  ASSUME GitInv, NEW from \in Commits \cup {None}, ReadsFrom(from),
         stage \in {"idle", "exists", "ancestor", "base"},
         from # None => cursor # None /\ from \in Reach[cursor],
         UNCHANGED <<head, cursor, known>>
  PROVE  GitInv'
<1>1. /\ GitTypeOK /\ PassInv /\ NothingSkippedOver /\ stage' = "listing"
      /\ position' = from /\ todo' = Resolved /\ UNCHANGED <<upto, found>>
  BY DEF GitInv, ReadsFrom
<1>2. todo' \subseteq DOMAIN Branches
  BY <1>1 DEF Resolved
<1>3. \A c \in Range(found) : InHand(c)'
  <2>1. position = None
    BY DEF GitInv, PassInv
  <2> QED
    BY <1>1, <2>1 DEF PassInv, InHand
<1>4. GitTypeOK' /\ PassInv'
  BY <1>1, <1>2, <1>3 DEF GitTypeOK, PassInv
<1>5. NothingSkippedOver'
  BY <1>1, KnownGrows
<1> QED
  BY <1>4, <1>5 DEF GitInv

\* To ask git of the cursor changes nothing.
LEMMA AsksInv ==
  ASSUME GitInv, NEW command \in {"exists", "ancestor", "base"}, Asks(command),
         stage \in {"idle", "exists", "ancestor", "base"},
         UNCHANGED <<head, cursor, known>>
  PROVE  GitInv'
<1>1. /\ GitTypeOK /\ PassInv /\ NothingSkippedOver /\ stage' = command /\ position = None
      /\ UNCHANGED <<position, todo, upto, found>>
  BY DEF GitInv, PassInv, Asks
<1>2. GitTypeOK'
  BY <1>1 DEF GitTypeOK
<1>3. PassInv'
  BY <1>1 DEF PassInv, InHand
<1>4. NothingSkippedOver'
  BY <1>1, KnownGrows
<1> QED
  BY <1>2, <1>3, <1>4 DEF GitInv

\* The pass classifies its cursor, one command after the other.
LEMMA ClassifyInv ==
  ASSUME GitInv, Start \/ CatFile \/ IsAncestor \/ AskMergeBase
  PROVE  GitInv'
<1>1. cursor \in Commits \cup {None} /\ None \in Commits \cup {None} /\ UNCHANGED <<head, cursor, known>>
      /\ stage \in {"idle", "exists", "ancestor", "base"}
  BY DEF GitInv, GitTypeOK, Start, CatFile, IsAncestor, AskMergeBase
<1>2. cursor # None => cursor \in Reach[cursor]
  BY <1>1, ReachIs
<1>3. \A command \in {"exists", "ancestor", "base"} : Asks(command) => GitInv'
  BY <1>1, AsksInv
<1>4. ReadsFrom(cursor) \/ ReadsFrom(None) => GitInv'
  BY <1>1, <1>2, ReadsFromInv
<1>5. CASE Start
  BY <1>3, <1>4, <1>5 DEF Start
<1>6. CASE CatFile
  BY <1>3, <1>4, <1>6 DEF CatFile
<1>7. CASE IsAncestor
  BY <1>3, <1>4, <1>7 DEF IsAncestor
<1>8. CASE AskMergeBase
  <2>1. MergeBase(cursor, head[Default]) # None /\ ReadsFrom(MergeBase(cursor, head[Default]))
    BY <1>8 DEF AskMergeBase
  <2>2. /\ cursor # None /\ MergeBase(cursor, head[Default]) \in Reach[cursor]
        /\ MergeBase(cursor, head[Default]) \in Commits \cup {None}
    BY <1>1, <2>1, MergeBaseIs
  <2> QED
    BY <1>1, <2>1, <2>2, ReadsFromInv
<1> QED
  BY <1>5, <1>6, <1>7, <1>8

\* The page ends with one of the commits that were listed.
LEMMA ListInv ==
  ASSUME GitInv, List
  PROVE  GitInv'
<1>1. /\ GitTypeOK /\ PassInv /\ NothingSkippedOver /\ stage = "listing"
      /\ stage' \in {"listing", "reading", "comparing"} /\ todo # {}
      /\ UNCHANGED <<head, cursor, known, position, found>>
  BY DEF GitInv, List, NextBranch
<1>2. /\ head \in [Range(Branches) -> Commits \cup {None}] /\ position \in Commits \cup {None}
      /\ todo \subseteq DOMAIN Branches /\ upto \in Commits \cup {None}
  BY <1>1 DEF GitTypeOK
<1>3. ReadNext \in Range(Branches)
  <2>1. todo \in SUBSET Nat
    BY <1>2, WatchedAssumption
  <2>2. Min(todo) \in DOMAIN Branches
    BY <1>1, <1>2, <2>1, MinIs
  <2> QED
    BY <2>2 DEF ReadNext, Range
<1>4. Listed \in SUBSET Commits
  <2>1. head[ReadNext] \in Commits \cup {None}
    BY <1>2, <1>3
  <2>2. Line[head[ReadNext]] \in SUBSET Commits
    BY <2>1, LineIs, NoneReachesNone
  <2> QED
    BY <2>2 DEF Listed, FirstPage, RevList
<1>5. todo' \subseteq todo /\ upto' \in Commits \cup {None}
  <2>1. CASE Listed = {}
    BY <1>2, <2>1 DEF List, NextBranch
  <2>2. CASE Listed # {}
    <3>1. PICK n \in Nat : Commits = 1..n
      BY CommitsAre
    <3>2. Listed \in SUBSET (0..n)
      BY <1>4, <3>1
    <3>3. Max(Listed) \in Listed
      BY <2>2, <3>2, MaxIs
    <3> QED
      BY <1>4, <2>2, <3>3 DEF List
  <2> QED
    BY <2>1, <2>2
<1>6. GitTypeOK'
  BY <1>1, <1>2, <1>5 DEF GitTypeOK
<1>7. PassInv'
  BY <1>1 DEF PassInv, InHand
<1>8. NothingSkippedOver'
  BY <1>1, KnownGrows
<1> QED
  BY <1>6, <1>7, <1>8 DEF GitInv

\* What is read of a branch comes with all that is before it on the line.
LEMMA ReadLogInv ==
  ASSUME GitInv, ReadLog
  PROVE  GitInv'
<1> DEFINE page == RevList(From(ReadNext), upto)
           new == page \ Range(found)
<1>1. /\ GitTypeOK /\ PassInv /\ NothingSkippedOver /\ stage = "reading" /\ stage' \in {"listing", "comparing"}
      /\ todo' \subseteq todo /\ upto' = None
      /\ found' = found \o OldestFirst(new)
      /\ UNCHANGED <<head, cursor, known, position>>
  BY DEF GitInv, ReadLog, NextBranch, Merged, ReadPage
<1>2. /\ head \in [Range(Branches) -> Commits \cup {None}] /\ position \in Commits \cup {None}
      /\ todo \subseteq DOMAIN Branches /\ found \in Seq(Commits) /\ upto \in Commits \cup {None}
  BY <1>1 DEF GitTypeOK
<1>3. From(ReadNext) \in Commits \cup {None} /\ (From(ReadNext) = None \/ From(ReadNext) = position)
  BY <1>2 DEF From
<1>4. page \in SUBSET Commits
  BY <1>2, LineIs, NoneReachesNone DEF RevList
<1>5. \A c \in page : \A d \in Line[c] : d \in page \/ (position # None /\ d \in Reach[position])
  BY <1>2, <1>3, ReadIsClosed
<1> HIDE DEF page
<1>6. OldestFirst(new) \in Seq(new) /\ Range(OldestFirst(new)) = new /\ new \in SUBSET Commits
  BY <1>4, OldestFirstIs
<1> HIDE DEF new
<1>7. found' \in Seq(Commits) /\ Range(found') = Range(found) \cup page
  <2> DEFINE more == OldestFirst(new)
  <2>1. found' = found \o more
    BY <1>1
  <2> HIDE DEF more
  <2>2. more \in Seq(Commits)
    BY <1>6 DEF more
  <2>3. found \o more \in Seq(Commits) /\ Range(found \o more) = Range(found) \cup Range(more)
    BY <1>2, <2>2, RangeConcatenation, ConcatProperties
  <2>4. Range(more) = page \ Range(found)
    BY <1>6 DEF more, new
  <2> QED
    BY <2>1, <2>3, <2>4
<1>8. \A c \in Range(found') : InHand(c)'
  <2> SUFFICES ASSUME NEW c \in Range(found'), NEW d \in Line[c]
               PROVE  d \in Range(found') \/ (position # None /\ d \in Reach[position])
    BY <1>1 DEF InHand
  <2>1. CASE c \in Range(found)
    BY <1>1, <1>7, <2>1 DEF PassInv, InHand
  <2>2. CASE c \in page
    BY <1>5, <1>7, <2>2
  <2> QED
    BY <1>7, <2>1, <2>2
<1>9. PassInv'
  BY <1>1, <1>8 DEF PassInv
<1>10. GitTypeOK'
  BY <1>1, <1>2, <1>7 DEF GitTypeOK
<1>11. NothingSkippedOver'
  BY <1>1, KnownGrows
<1> QED
  BY <1>9, <1>10, <1>11 DEF GitInv

\* The comparison of what was rewritten only decides what is said of a change.
LEMMA CompareInv ==
  ASSUME GitInv, Compare
  PROVE  GitInv'
<1>1. /\ GitTypeOK /\ PassInv /\ NothingSkippedOver /\ stage = "comparing" /\ stage' = "recording"
      /\ UNCHANGED <<head, cursor, known, position, todo, upto, found>>
  BY DEF GitInv, Compare
<1>2. GitTypeOK'
  BY <1>1 DEF GitTypeOK
<1>3. PassInv'
  BY <1>1 DEF PassInv, InHand
<1>4. NothingSkippedOver'
  BY <1>1, KnownGrows
<1> QED
  BY <1>2, <1>3, <1>4 DEF GitInv

LEMMA RecordInv ==
  ASSUME GitInv, Record
  PROVE  GitInv'
<1>1. GitTypeOK /\ PassInv /\ NothingSkippedOver /\ UNCHANGED <<head, cursor, pass>>
  BY DEF GitInv, Record
<1>2. PICK i \in DOMAIN found :
        known' = [known EXCEPT ![found[i]] = IF Verdict(found[i]) = "none" THEN "wanted" ELSE Verdict(found[i])]
  BY DEF Record
<1>3. known = [c \in Commits |-> known[c]]
  BY <1>1 DEF GitTypeOK
<1> DEFINE word == IF Verdict(found[i]) = "none" THEN "wanted" ELSE Verdict(found[i])
<1>4. word # "none" /\ known' = [known EXCEPT ![found[i]] = word]
  BY <1>2
<1> HIDE DEF word
<1>5. known' = [c \in Commits |-> known'[c]] /\ \A c \in Commits : known[c] # "none" => known'[c] # "none"
  BY <1>3, <1>4
<1>6. cursor' = cursor /\ head' \in [Range(Branches) -> Commits \cup {None}]
  BY <1>1 DEF GitTypeOK
<1> QED
  BY <1>1, <1>5, <1>6, KnownGrows, PassStays DEF GitInv

\* The cursor goes to a change whose line is recorded, or was before.
LEMMA AdvanceInv ==
  ASSUME GitInv, Advance
  PROVE  GitInv'
<1>1. /\ GitTypeOK /\ PassInv /\ NothingSkippedOver /\ GiveUp /\ UNCHANGED <<head, known>>
      /\ \A i \in DOMAIN found : known[found[i]] # "none"
      /\ found \in Seq(Commits) /\ cursor \in Commits \cup {None} /\ known' = [c \in Commits |-> known'[c]]
  BY DEF GitInv, Advance, GitTypeOK
<1>2. CASE found = << >>
  <2>1. cursor' = cursor
    BY <1>2 DEF Advance
  <2> QED
    BY <1>1, <2>1, KnownGrows, PassOver DEF GitInv
<1>3. CASE found # << >>
  <2> DEFINE last == found[Len(found)]
  <2>1. cursor' = last /\ last \in Range(found) /\ last \in Commits
    BY <1>1, <1>3 DEF Advance, AdvanceTo, Last, Range
  <2>2. \A c \in Range(found) : c \in Commits /\ known[c] # "none"
    BY <1>1 DEF Range
  <2> HIDE DEF last
  <2>3. ASSUME NEW e \in Line[last], NEW x, x = e \/ x \in BroughtIn(e) PROVE x \in Accounted
    <3>1. e \in Commits /\ x \in Reach[e]
      BY <2>1, <2>3, LineIs, ReachIs DEF BroughtIn
    <3>2. CASE e \in Range(found)
      <4>1. e \in InTable
        BY <2>2, <3>2 DEF InTable
      <4> QED
        BY <2>3, <4>1 DEF Accounted
    <3>3. CASE position # None /\ e \in Reach[position]
      <4>1. cursor # None /\ cursor \in Commits /\ position \in Reach[cursor] /\ Reach[cursor] \subseteq Accounted
        BY <1>1, <3>3 DEF PassInv, NothingSkippedOver
      <4>2. position \in Commits /\ Reach[position] \subseteq Reach[cursor] /\ Reach[e] \subseteq Reach[position]
        BY <3>3, <4>1, ReachIs, ReachOn
      <4> QED
        BY <3>1, <4>1, <4>2
    <3> QED
      BY <1>1, <2>1, <3>2, <3>3 DEF PassInv, InHand
  <2>4. Reach[last] \subseteq Accounted
    <3> SUFFICES ASSUME NEW x \in Reach[last] PROVE x \in Accounted
      OBVIOUS
    <3>1. x \in Line[last] \/ \E d \in Line[last] : x \in BroughtIn(d)
      BY <2>1, ReachByLine
    <3> QED
      BY <2>3, <3>1
  <2>5. Accounted' = Accounted
    <3>1. InTable' = InTable
      BY <1>1 DEF InTable
    <3> QED
      BY <3>1 DEF Accounted, BroughtIn
  <2>6. NothingSkippedOver'
    BY <2>1, <2>4, <2>5 DEF NothingSkippedOver
  <2> QED
    BY <1>1, <2>1, <2>6, PassOver DEF GitInv
<1> QED
  BY <1>2, <1>3

\* The invariant of the git pass: what is in hand came with what is before it, and the
\* cursor only has what was recorded behind it (discover.rs; watch.rs, discover_one).
LEMMA GitSteps == GitInv /\ [Next]_vars => GitInv'
<1> SUFFICES ASSUME GitInv, [Next]_vars PROVE GitInv'
  OBVIOUS
<1>1. GitTypeOK /\ PassInv /\ NothingSkippedOver
  BY DEF GitInv
<1>2. CASE \/ \E b \in Range(Branches) : Push(b) \/ ForcePush(b)
           \/ Prune
           \/ DesktopReads
  BY <1>2, PeopleInv
<1>3. CASE Start \/ CatFile \/ IsAncestor \/ AskMergeBase
  BY <1>3, ClassifyInv
<1>4. CASE List \/ ReadLog \/ Compare
  BY <1>4, ListInv, ReadLogInv, CompareInv
<1>5. CASE Record
  BY <1>5, RecordInv
<1>6. CASE Advance
  BY <1>6, AdvanceInv
<1>7. CASE ClassifyFails \/ GitRefuses \/ Abandon
  <2>1. GiveUp /\ UNCHANGED <<head, cursor, known>>
    BY <1>7 DEF ClassifyFails, GitRefuses, PassFails, Abandon
  <2>2. cursor' \in Commits \cup {None} /\ known' = [c \in Commits |-> known'[c]] /\ cursor' = cursor /\ known' = known
    BY <1>1, <2>1 DEF GitTypeOK
  <2> QED
    BY <1>1, <2>1, <2>2, KnownGrows, PassOver DEF GitInv
<1>8. CASE UNCHANGED vars
  <2>1. UNCHANGED <<cursor, pass>> /\ head' = head /\ known' = known /\ cursor' = cursor
    BY <1>8 DEF vars
  <2>2. head' \in [Range(Branches) -> Commits \cup {None}] /\ known' = [c \in Commits |-> known'[c]]
    BY <1>1, <2>1 DEF GitTypeOK
  <2> QED
    BY <1>1, <2>1, <2>2, KnownGrows, PassStays DEF GitInv
<1> QED
  BY <1>2, <1>3, <1>4, <1>5, <1>6, <1>7, <1>8 DEF Next, PassStep

LEMMA GitStarts == Init => GitInv
<1> SUFFICES ASSUME Init PROVE GitInv
  OBVIOUS
<1>1. /\ head = [b \in Range(Branches) |-> IF b = Default THEN 1 ELSE None]
      /\ cursor = None /\ position = None /\ upto = None /\ known = [c \in Commits |-> "none"]
      /\ todo = {} /\ found = << >> /\ found \in Seq(Commits) /\ Range(found) = {}
  BY DEF Init, Range
<1>2. head \in [Range(Branches) -> Commits \cup {None}]
  BY <1>1, CommitsAre
<1>3. GitTypeOK
  BY <1>1, <1>2 DEF GitTypeOK
<1>4. PassInv /\ NothingSkippedOver
  BY <1>1 DEF PassInv, NothingSkippedOver
<1> QED
  BY <1>3, <1>4 DEF GitInv

\* What is in hand came with what is before it on its line, and the cursor only has
\* what was recorded behind it, for every history, every page size and every way in
\* which people push, rewrite and prune between two commands of a pass (discover.rs).
THEOREM GitInvariant == Spec => []GitInv
  BY GitStarts, GitSteps, PTL DEF Spec

\* No source steps over a change: what a git cursor has behind it has a row, or came in
\* with a merge that has one, and a Subversion cursor has no revision behind it that was
\* not seen (discover.rs of git and svn; watch.rs, discover_one).
THEOREM Passed == SourcesSpec => []PassedIsAccounted
<1>1. SourcesInit => GitInv /\ SvnInv
  BY GitStarts, SvnStarts DEF SourcesInit
<1>2. (GitInv /\ SvnInv) /\ [SourcesNext]_Everything => (GitInv /\ SvnInv)'
  <2>1. [SourcesNext]_Everything => [Next]_vars
    BY DEF SourcesNext, GitPart, SvnPart, WorkspacePart, BackfillPart, RequestsPart, Everything
  <2>2. [SourcesNext]_Everything => [SvnNext]_svnVars
    BY DEF SourcesNext, GitPart, SvnPart, WorkspacePart, BackfillPart, RequestsPart, Everything
  <2> QED
    BY <2>1, <2>2, GitSteps, SvnSteps
<1>3. GitInv /\ SvnInv => PassedIsAccounted
  BY PassedAreSeen DEF GitInv, PassedIsAccounted
<1> QED
  BY <1>1, <1>2, <1>3, PTL DEF SourcesSpec

=============================================================================
