----------------------------- MODULE SvnSource -----------------------------
(***************************************************************************)
(* A Subversion repository of one trunk and one branch, and what           *)
(* revlocal-vcs makes of it: discovery by revision (discover.rs), the      *)
(* revisions that merge a branch into the trunk and stand for a pull       *)
(* request (pseudo_pr.rs), and the findings on the branch's own revisions  *)
(* that give way to the one on the merge (demotion.rs).                    *)
(*                                                                         *)
(* A defect is what a fingerprint names.  A revision adds or removes       *)
(* defects where it is made; a review of it may notice those it adds, one  *)
(* of a merge those of the branch against the trunk it was forked from.    *)
(***************************************************************************)
EXTENDS Integers, Sequences, FiniteSets, FiniteSetsExt

CONSTANTS
  Defects,
  MaxRevs,         \* bound: revisions of the repository
  Limit,           \* --limit of svn log
  WatchBranches,   \* WatchedPaths: the branch is watched, not the trunk alone
  MinFiles         \* pseudo_pr_min_files

ASSUME SvnAssumption == MaxRevs \in Nat /\ Limit \in Nat /\ MinFiles \in Nat

VARIABLES
  log,       \* the revisions, r1 first
  revision,  \* the last revision a pass has seen
  seen,      \* of each revision, "none", "reviewable" or "filtered"
  reviewed,  \* revisions that were reviewed as such
  merges,    \* revisions whose branch has been reviewed as one
  planned,   \* of each of these, the revisions that had been reviewed by then
  filed      \* findings: [defect, of, merge, loud]

svnVars == <<log, revision, seen, reviewed, merges, planned, filed>>

Revs == 1..Len(log)
Trunk == "trunk"
Branch == "branch"

-----------------------------------------------------------------------------
(* The repository.                                                         *)

\* The defects of a path as of a revision.
Content(path, r) ==
  LET there == {k \in 1..r : log[k].path = path} IN
  IF there = {} THEN {} ELSE log[Max(there)].defects

\* svn:mergeinfo of the trunk: the branch's revisions merged into it so far.
MergeInfoAt(r) == UNION {log[k].gains : k \in {k \in 1..r : log[k].path = Trunk}}

Forks == {k \in Revs : log[k].copyfrom > 0}
OnBranch == {k \in Revs : log[k].path = Branch /\ k \notin Forks}

Commit(path, defects, copyfrom, gains, says, files) ==
  log' = Append(log, [path |-> path, defects |-> defects, copyfrom |-> copyfrom,
                      gains |-> gains, says |-> says, files |-> files])

Work ==
  /\ \/ \E path \in {Trunk} \cup (IF Forks = {} THEN {} ELSE {Branch}), d \in SUBSET Defects :
          Commit(path, d, 0, {}, "nothing", 1)
     \/ Commit("site", {}, 0, {}, "nothing", 1)
     \* svn copy of the trunk
     \/ Forks = {} /\ log # << >> /\ Commit(Branch, Content(Trunk, Len(log)), Len(log), {}, "nothing", 1)
     \* svn merge of all the branch has, of some of it, or --record-only
     \/ \E picks \in SUBSET (OnBranch \ MergeInfoAt(Len(log))) \ {{}} :
          \/ Commit(Trunk, Content(Branch, Len(log)), 0, picks, "nothing", 1)
          \/ Commit(Trunk, Content(Branch, Len(log)), 0, picks, "merge", 1)
          \/ Commit(Trunk, Content(Branch, Len(log)), 0, picks, "branch", MinFiles)
          \/ Commit(Trunk, Content(Trunk, Len(log)), 0, picks, "nothing", 0)
  /\ UNCHANGED <<revision, seen, reviewed, merges, planned, filed>>

-----------------------------------------------------------------------------
(* Discovery.                                                              *)

Touches(r) == log[r].path = Trunk \/ (WatchBranches /\ log[r].path = Branch)

\* svn log -r revision+1:HEAD --limit; past HEAD there is no such revision, which
\* finds nothing.
Found == {r \in Revs : r > revision /\ r <= revision + Limit}

\* highest_seen: the cursor goes past what was filtered too.
HighestSeen == Max(Found)

Discover ==
  /\ Found # {}
  /\ seen' = [r \in DOMAIN seen |->
                IF r \in Found THEN (IF Touches(r) THEN "reviewable" ELSE "filtered") ELSE seen[r]]
  /\ revision' = HighestSeen
  /\ UNCHANGED <<log, reviewed, merges, planned, filed>>

-----------------------------------------------------------------------------
(* Merges that stand for a pull request.                                   *)

\* gained_branches: only how far the ranges of a branch reach counts.
Highest(revs) == IF revs = {} THEN 0 ELSE Max(revs)
GainedThrough(r) ==
  IF Highest(MergeInfoAt(r)) > Highest(MergeInfoAt(r - 1)) THEN Highest(MergeInfoAt(r)) ELSE 0

\* classify_gain: a merge into the trunk with content, through the last change of
\* the branch.
BranchHead(r) == Highest({k \in OnBranch : k < r})
IsReintegration(r) ==
  /\ GainedThrough(r) > 0
  /\ log[r].files > 0
  /\ GainedThrough(r) >= BranchHead(r)

SaysMerged(r) == log[r].says = "merge"
ManyFiles(r) == log[r].says = "branch" /\ log[r].files >= MinFiles

\* The three heuristics, in order; 0 says nothing was detected.  A log message that
\* speaks of a merge, or many files and one that names a branch there is, take the
\* branch as it is at the revision.
Detect(r) ==
  CASE IsReintegration(r) -> GainedThrough(r)
    [] ~IsReintegration(r) /\ SaysMerged(r) -> r
    [] ~IsReintegration(r) /\ ManyFiles(r) -> r
    [] OTHER -> 0

\* fork_point: where the oldest revision of the branch was copied from.
ForkPoint == log[Min(Forks)].copyfrom

\* pseudo_pr_diff: the branch at the revision against the trunk at the fork.
PseudoPrDiff(r) == Content(Branch, r) \ Content(Trunk, ForkPoint)

\* The branch's revisions up to there, but for the one that created it.
Constituents(through) == {k \in Revs : log[k].path = Branch /\ k <= through} \ {Min(Forks)}

-----------------------------------------------------------------------------
(* Reviews.                                                                *)

Added(r) == log[r].defects \ Content(log[r].path, r - 1)

\* Every revision has a review of its own, be it a merge or not.
ReviewRevision(r) ==
  /\ seen[r] = "reviewable" /\ r \notin reviewed
  /\ reviewed' = reviewed \cup {r}
  /\ \E noticed \in SUBSET Added(r) :
       filed' = filed \cup {[defect |-> d, of |-> r, merge |-> FALSE, loud |-> TRUE] : d \in noticed}
  /\ UNCHANGED <<log, revision, seen, merges, planned>>

\* plan: a finding on a constituent that the merge has too becomes info.
\* (With a defect, whatever it says.)
DemotedAlways(f, authoritative) == TRUE
Demoted(f, authoritative) == f.defect \in authoritative
Plan(authoritative, constituents) ==
  {IF ~f.merge /\ f.of \in constituents /\ Demoted(f, authoritative)
   THEN [f EXCEPT !.loud = FALSE] ELSE f : f \in filed}

\* A merge has another, of its branch, before or after those of the branch's revisions.
\* The plan is made over the findings there are.
ReviewMerge(r) ==
  /\ seen[r] = "reviewable" /\ r \notin merges /\ Detect(r) > 0 /\ Forks # {}
  /\ \E noticed \in SUBSET PseudoPrDiff(r) :
       filed' = Plan(noticed, Constituents(Detect(r)))
                  \cup {[defect |-> d, of |-> r, merge |-> TRUE, loud |-> TRUE] : d \in noticed}
  /\ merges' = merges \cup {r}
  /\ planned' = [planned EXCEPT ![r] = reviewed]
  /\ UNCHANGED <<log, revision, seen, reviewed>>

-----------------------------------------------------------------------------
SvnInit ==
  /\ log = << >> /\ revision = 0
  /\ seen = [r \in 1..MaxRevs |-> "none"]
  /\ reviewed = {} /\ merges = {} /\ filed = {}
  /\ planned = [r \in 1..MaxRevs |-> {}]

SvnNext ==
  \/ Len(log) < MaxRevs /\ Work
  \/ Discover
  \/ \E r \in Revs : ReviewRevision(r) \/ ReviewMerge(r)

SvnSpec == SvnInit /\ [][SvnNext]_svnVars

-----------------------------------------------------------------------------
(* Properties.                                                             *)

\* A pass never steps over a revision it has not seen, filtered or not (discover.rs,
\* highest_seen).
EveryRevisionSeen == \A r \in Revs : (seen[r] # "none") = (r <= revision)

\* A finding is quiet just for a merge of its revision's branch that has filed the same
\* defect, loud, so that no defect is quiet everywhere; and one that was there when the
\* merge's plan was made is not loud beside it.  What is reviewed later is, and so is what
\* the review of the merge's own revision files (demotion.rs, plan; pseudo_pr.rs).
QuietBehindItsMerge ==
  /\ \A f \in filed : ~f.loud =>
       \E g \in filed : /\ g.merge /\ g.loud /\ g.defect = f.defect
                        /\ ~f.merge /\ f.of \in Constituents(Detect(g.of))
  /\ \A f, g \in filed :
       f.merge /\ ~g.merge /\ g.loud /\ g.defect = f.defect /\ g.of \in Constituents(Detect(f.of))
         => g.of \notin planned[f.of]
=============================================================================
