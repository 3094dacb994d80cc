----------------------------- MODULE GitSource -----------------------------
(***************************************************************************)
(* A git repository that moves while it is read, and the pass of the watch *)
(* loop that reads it: GitAdapter::discover (revlocal-vcs) over the        *)
(* branches the config names, the record of each change (revlocal-cli,     *)
(* watch) and the one cursor it keeps, that of the default branch.         *)
(*                                                                         *)
(* Every command of git that tells commits apart is a step: between two of *)
(* them people push, rewrite branches, and git prunes what nothing         *)
(* reaches.                                                                *)
(*                                                                         *)
(* `full` passes go through recover.rs as its tests put it together:       *)
(* classify the cursor, read on from what is left of it, and mark what a   *)
(* rewrite only moved.  The watch loop does neither.                       *)
(***************************************************************************)
EXTENDS Integers, FiniteSets, SkipRules, SequencesExt

CONSTANTS
  Parents,        \* the history there may be: of commit i, its parents, all < i
  Patch,          \* of each commit, what its diff says (git patch-id)
  Author, Paths,  \* of each commit
  Config,         \* the repository's skip rules
  Branches,       \* branch names, in name order
  Default,        \* the default branch, whose scope the cursor has
  Watched,        \* the branches the config's patterns match
  Page,           \* how many changes a pass takes from a branch (50)
  MaxRewrites,    \* bound: force pushes
  MaxMishaps      \* bound: passes cut short

Commits == DOMAIN Parents
None == 0

ASSUME HistoryAssumption ==
  /\ Parents \in Seq(Seq(Nat)) /\ Parents # << >>
  /\ \A c \in Commits : \A i \in DOMAIN Parents[c] : Parents[c][i] \in 1..(c - 1)
ASSUME PageAssumption == Page \in Nat
ASSUME WatchedAssumption ==
  Branches \in Seq(Range(Branches)) /\ Default \in Watched /\ Watched \subseteq Range(Branches)

VARIABLES
  head,      \* of each branch, its commit
  gone,      \* commits git has pruned
  cursor,    \* the stored cursor of Default
  known,     \* of each commit, "none", or what the change table says of it
  full,      \* whether the pass recovers its cursor
  stage,     \* the pass: which command comes next, and its locals
  position,  \* the commit Default is read from
  todo,      \* places of the branches that are still to be read
  upto,      \* the last commit of the page rev-list has named
  found, behind,
  rewrites, mishaps

pass == <<stage, position, todo, upto, found, behind>>
vars == <<head, gone, cursor, known, full, pass, rewrites, mishaps>>

-----------------------------------------------------------------------------
(* History.                                                                *)

\* What a commit reaches, itself included: all that holds it and the parents of its
\* own holds.
Reach ==
  LET Closed(S) == \A c \in S : Range(Parents[c]) \subseteq S IN
  [c \in Commits \cup {None} |->
     {d \in Commits : c # None /\ \A S \in SUBSET Commits : c \in S /\ Closed(S) => d \in S}]

\* The first-parent line that ends in a commit.  Its order is that of the numbers.
Line ==
  LET Closed(S) == \A c \in S : Parents[c] # << >> => Head(Parents[c]) \in S IN
  [c \in Commits \cup {None} |->
     {d \in Commits : c # None /\ \A S \in SUBSET Commits : c \in S /\ Closed(S) => d \in S}]

IsMerge(c) == Len(Parents[c]) > 1

\* git rev-list --first-parent from..tip; with --reverse, the oldest come first.
RevList(from, tip) == Line[tip] \ Reach[from]
Place(c, line) == Cardinality({d \in line : d <= c})
OldestFirst(line) == [i \in 1..Cardinality(line) |-> CHOOSE c \in line : Place(c, line) = i]

\* git merge-base
MergeBase(a, b) ==
  LET both == Reach[a] \cap Reach[b] IN
  IF both = {} THEN None ELSE CHOOSE c \in both : \A d \in both : d <= c

Alive == UNION {Reach[head[b]] : b \in Range(Branches)}

-----------------------------------------------------------------------------
Init ==
  /\ head = [b \in Range(Branches) |-> IF b = Default THEN 1 ELSE None]
  /\ gone = {}
  /\ cursor = None
  /\ known = [c \in Commits |-> "none"]
  /\ full \in BOOLEAN
  /\ stage = "idle" /\ position = None
  /\ todo = {} /\ upto = None /\ found = << >> /\ behind = {}
  /\ rewrites = 0 /\ mishaps = 0

\* People: a push adds to a branch, or creates one; a force push moves it.  What
\* is pushed comes with all it reaches.
Moved(b, c) ==
  /\ head' = [head EXCEPT ![b] = c]
  /\ gone' = gone \ Reach[c]

Push(b) ==
  /\ \E c \in Commits \ {head[b]} :
       (head[b] = None \/ head[b] \in Reach[c]) /\ Moved(b, c)
  /\ UNCHANGED <<cursor, known, full, pass, rewrites, mishaps>>

ForcePush(b) ==
  /\ rewrites < MaxRewrites /\ head[b] # None
  /\ \E c \in Commits : head[b] \notin Reach[c] /\ Moved(b, c)
  /\ rewrites' = rewrites + 1
  /\ UNCHANGED <<cursor, known, full, pass, mishaps>>

\* git prunes what no branch reaches.  (Of that, what the cursor or a pass still names.)
Named == Reach[cursor] \cup Reach[upto] \cup UNION {Reach[c] : c \in Range(found)}
Prune ==
  /\ ~(Named \subseteq Alive \cup gone)
  /\ gone' = gone \cup (Named \ Alive)
  /\ UNCHANGED <<head, cursor, known, full, pass, rewrites, mishaps>>

-----------------------------------------------------------------------------
(* The pass.                                                               *)

\* The pass is over, and its locals with it.
GiveUp ==
  /\ stage' = "idle" /\ position' = None
  /\ todo' = {} /\ upto' = None /\ found' = << >> /\ behind' = {}

\* resolve_branches: those that exist, in name order.
Resolved == {i \in DOMAIN Branches : Branches[i] \in Watched /\ head[Branches[i]] # None}

\* The pass reads Default from `from`.
ReadsFrom(from) ==
  /\ stage' = "listing" /\ position' = from /\ todo' = Resolved
  /\ UNCHANGED <<upto, found, behind>>

Asks(command) ==
  /\ stage' = command
  /\ UNCHANGED <<position, todo, upto, found, behind>>

PassFails == GiveUp /\ UNCHANGED <<head, gone, cursor, known, full, rewrites, mishaps>>

Start ==
  /\ stage = "idle"
  /\ IF full /\ cursor # None THEN Asks("exists") ELSE ReadsFrom(cursor)
  /\ UNCHANGED <<head, gone, cursor, known, full, rewrites, mishaps>>

\* classify_cursor: is the commit there, is the branch after it, and if not, where did
\* the two part.  The cursor that is missing is none; the one that was rewritten is that
\* commit.
CatFile ==
  /\ stage = "exists"
  /\ IF cursor \in gone THEN ReadsFrom(None) ELSE Asks("ancestor")
  /\ UNCHANGED <<head, gone, cursor, known, full, rewrites, mishaps>>

IsAncestor ==
  /\ stage = "ancestor" /\ cursor \notin gone
  /\ IF cursor \in Reach[head[Default]] THEN ReadsFrom(cursor) ELSE Asks("base")
  /\ UNCHANGED <<head, gone, cursor, known, full, rewrites, mishaps>>

AskMergeBase ==
  /\ stage = "base" /\ cursor \notin gone
  /\ MergeBase(cursor, head[Default]) # None
  /\ ReadsFrom(MergeBase(cursor, head[Default]))
  /\ UNCHANGED <<head, gone, cursor, known, full, rewrites, mishaps>>

\* git refuses a commit it does not know; and it exits with 1 where two histories share
\* nothing.
ClassifyFails ==
  /\ stage \in {"ancestor", "base"}
  /\ \/ cursor \in gone
     \/ stage = "base" /\ MergeBase(cursor, head[Default]) = None
  /\ PassFails

\* discover_branch: the cursor is only that of Default; every other branch is
\* read from its root.  merge_discoveries keeps the first sight of a commit.
From(b) == IF b = Default THEN position ELSE None
FirstPage(line) == {c \in line : Place(c, line) <= Page}
Merged(seen, more) == seen \o OldestFirst(more \ Range(seen))
ReadNext == Branches[Min(todo)]
Listed == FirstPage(RevList(From(ReadNext), head[ReadNext]))

NextBranch ==
  /\ todo' = todo \ {Min(todo)}
  /\ stage' = IF todo' = {} THEN "comparing" ELSE "listing"

\* rev-list names the commits: the page ends with the last of the oldest.
List ==
  /\ stage = "listing" /\ todo # {} /\ From(ReadNext) \notin gone
  /\ IF Listed = {}
     THEN NextBranch /\ UNCHANGED upto
     ELSE upto' = Max(Listed) /\ stage' = "reading" /\ UNCHANGED todo
  /\ UNCHANGED <<head, gone, cursor, known, full, position, found, behind, rewrites, mishaps>>

\* log reads them again, from where rev-list began to where the page ends.  (With a
\* defect: to the head, in a page that git counts from there.)
ReadNewest(from, last) ==
  LET line == RevList(from, head[ReadNext]) IN {c \in line : Cardinality({d \in line : d >= c}) <= Page}
ReadPage(from, last) == RevList(from, last)

ReadLog ==
  /\ stage = "reading" /\ upto \notin gone /\ From(ReadNext) \notin gone
  /\ found' = Merged(found, ReadPage(From(ReadNext), upto))
  /\ upto' = None
  /\ NextBranch
  /\ UNCHANGED <<head, gone, cursor, known, full, position, behind, rewrites, mishaps>>

\* mark_superseded_by_rewrite looks at what the rewrite left behind; nothing is marked
\* when that is gone.
LeftBehind ==
  IF full /\ position # cursor /\ position # None /\ cursor \notin gone
  THEN Reach[cursor] \ Reach[position] ELSE {}

\* git shows the commits that were found, to compare them, just if there are any left behind.
Compare ==
  /\ stage = "comparing" /\ (LeftBehind = {} \/ Range(found) \cap gone = {})
  /\ behind' = LeftBehind /\ stage' = "recording"
  /\ UNCHANGED <<head, gone, cursor, known, full, position, todo, upto, found, rewrites, mishaps>>

\* git fails where it does not know a commit it is to read from, or to show.
Asked ==
  CASE stage \in {"listing", "reading"} /\ todo # {} -> {From(ReadNext), upto}
    [] stage = "comparing" /\ LeftBehind # {} -> Range(found)
    [] OTHER -> {}

GitRefuses == Asked \cap gone # {} /\ PassFails

SamePatch(old, c) == Patch[old] = Patch[c] /\ Paths[c] # {}

Change(c) == [parents |-> Parents[c], author |-> Author[c], paths |-> Paths[c]]
Verdict(c) ==
  IF \E old \in behind : SamePatch(old, c)
  THEN "unchanged_after_rewrite"
  ELSE Evaluate(Change(c), Config)

\* record: the change is written, and with it the reason it is skipped for.  A
\* change that already has a run keeps it.
Record ==
  /\ stage = "recording" /\ found # << >>
  /\ \E i \in DOMAIN found :
       /\ \A j \in 1..(i - 1) : known[found[j]] # "none"
       /\ known[found[i]] = "none"
       /\ known' = [known EXCEPT ![found[i]] =
                      IF Verdict(found[i]) = "none" THEN "wanted" ELSE Verdict(found[i])]
  /\ UNCHANGED <<head, gone, cursor, full, pass, rewrites, mishaps>>

\* The cursor goes to the last change there was, whichever branch it is of.
\* (With a defect: only to a change that is to be reviewed.)
AdvanceToReviewable(c) == cursor' = IF known[c] = "wanted" THEN c ELSE cursor
AdvanceTo(c) == cursor' = c
Advance ==
  /\ stage = "recording"
  /\ \A i \in DOMAIN found : known[found[i]] # "none"
  /\ IF found = << >> THEN UNCHANGED cursor ELSE AdvanceTo(Last(found))
  /\ GiveUp
  /\ UNCHANGED <<head, gone, known, full, rewrites, mishaps>>

\* The process dies, or the store refuses a row: the cursor stays.
Abandon ==
  /\ stage # "idle" /\ mishaps < MaxMishaps
  /\ GiveUp
  /\ mishaps' = mishaps + 1
  /\ UNCHANGED <<head, gone, cursor, known, full, rewrites>>

\* The desktop's discover_for: from the root, without skip rules or a cursor.
DesktopReads ==
  /\ full = FALSE /\ stage = "idle" /\ mishaps < MaxMishaps
  /\ LET seen == FirstPage(Line[head[Default]]) IN
       known' = [c \in Commits |-> IF c \in seen /\ known[c] = "none" THEN "wanted" ELSE known[c]]
  /\ mishaps' = mishaps + 1
  /\ UNCHANGED <<head, gone, cursor, full, pass, rewrites>>

PassStep ==
  \/ Start \/ CatFile \/ IsAncestor \/ AskMergeBase \/ ClassifyFails
  \/ List \/ ReadLog \/ Compare \/ GitRefuses
  \/ Record \/ Advance

Next ==
  \/ \E b \in Range(Branches) : Push(b) \/ ForcePush(b)
  \/ Prune
  \/ PassStep \/ Abandon
  \/ DesktopReads

\* The watch loop goes on with its passes; nothing calls the others but tests.
Spec == Init /\ [][Next]_vars /\ WF_vars(~full /\ PassStep)
-----------------------------------------------------------------------------
(* Properties.                                                             *)

TypeOK ==
  /\ head \in [Range(Branches) -> Commits \cup {None}]
  /\ gone \subseteq Commits /\ cursor \in Commits \cup {None}
  /\ known \in [Commits -> {"none", "wanted", "merge_commit", "ignored_author", "empty_diff",
                           "ignored_paths", "unchanged_after_rewrite"}]
  /\ stage \in {"idle", "exists", "ancestor", "base", "listing", "reading",
               "comparing", "recording"}
  /\ {position, upto} \subseteq Commits \cup {None} /\ behind \subseteq Commits

InTable == {c \in Commits : known[c] # "none"}

\* What a merge brings to the line it is on.
BroughtIn(k) == IF IsMerge(k) THEN Reach[k] \ Reach[Head(Parents[k])] ELSE {}

\* In the change table, or brought in by a merge that is: only the line of the first
\* parents is read, and a merge on it stands for what it brings.  One that is skipped, as
\* merges are unless the config says otherwise, stands for commits that nobody reviews.
Accounted == InTable \cup UNION {BroughtIn(k) : k \in InTable}

\* What the cursor keeps every later pass from listing has a row in the change table, or
\* came in with a merge that has one, be it pruned since, and however people pushed and
\* rewrote between the commands of the passes (discover_branch, watch.rs discover_one).
NothingSkippedOver == cursor # None => Reach[cursor] \subseteq Accounted

\* When people stop pushing, the passes of the watch loop come to have accounted for all
\* the line of the default branch, page by page, whatever was rewritten or cut short; but
\* for a cursor that git has pruned, which no pass gets over.
CaughtUp == <>[](Line[head[Default]] \subseteq Accounted \/ cursor \in gone)
=============================================================================
