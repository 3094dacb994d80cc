----------------------------- MODULE SkipRules -----------------------------
(***************************************************************************)
(* Which changes are recorded and not reviewed (revlocal-vcs, skip_rules   *)
(* and generated).  A change is a record of its parents, its author and    *)
(* the set of its paths; a config names the authors and the paths it       *)
(* ignores (a glob or a pattern is the set of what it matches).            *)
(***************************************************************************)
EXTENDS Naturals, Sequences, FiniteSets

\* Globs that do not compile ignore nothing.
ReviewablePaths(paths, config) ==
  IF config.globsCompile THEN paths \ config.ignoredPaths ELSE paths

\* The rules, in the order in which they are tried; the first that holds names
\* the reason.
Evaluate(change, config) ==
  CASE ~config.reviewMerges /\ Len(change.parents) > 1 -> "merge_commit"
    [] change.author \in config.ignoredAuthors -> "ignored_author"
    [] change.paths = {} -> "empty_diff"
    [] ReviewablePaths(change.paths, config) = {} -> "ignored_paths"
    [] OTHER -> "none"

\* Files of the tree whose first lines carry a marker; one that cannot be read
\* carries none.
Generated(paths, marked, readable) == paths \cap marked \cap readable

EvaluateWithGenerated(change, config, generated) ==
  IF Evaluate(change, config) # "none" THEN Evaluate(change, config)
  ELSE IF ReviewablePaths(change.paths, config) \subseteq generated
       THEN "generated_only" ELSE "none"
=============================================================================
