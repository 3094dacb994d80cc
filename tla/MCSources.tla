----------------------------- MODULE MCSources -----------------------------
(***************************************************************************)
(* The sources of changes, side by side: a run is of one `part`, which is  *)
(* chosen at the start.                                                    *)
(***************************************************************************)
EXTENDS GitSource, SvnSource, Workspace, Backfill, PullRequests

CONSTANT Part   \* the parts that are explored

\* 1 - 2 - 3 - 5 - 7 with 4 (off 1) merged in 5; 6 is 3 rewritten.
History == << <<>>, <<1>>, <<2>>, <<1>>, <<3, 4>>, <<2>>, <<5>> >>
Patches == <<1, 2, 3, 4, 5, 3, 7>>
Authors == <<"dev", "dev", "dev", "dev", "dev", "dev", "bot">>
Touched == <<{"src"}, {"vendor"}, {"src"}, {"src"}, {"src"}, {"src"}, {"src"}>>
Rules == [reviewMerges |-> FALSE, ignoredAuthors |-> {"bot"},
          ignoredPaths |-> {"vendor"}, globsCompile |-> TRUE]
MainAndTopic == <<"main", "topic">>
MainOnly == {"main"}
Both == {"main", "topic"}
OnlyGit == {"git"}
EveryPart == {"git", "svn", "workspace", "backfill", "requests"}

VARIABLE part

FilesOf == << {[path |-> "a", letter |-> "A", props |-> FALSE, binary |-> TRUE]},
              {[path |-> "b", letter |-> "none", props |-> TRUE, binary |-> FALSE],
               [path |-> "c", letter |-> "D", props |-> FALSE, binary |-> FALSE]},
              {[path |-> "d", letter |-> "R", props |-> FALSE, binary |-> FALSE]} >>
TwoIds == 1..2
Pasts == { <<"a", "b", "c", "d">>, <<"a", "x", "d">>, << >> }
TwoLimits == {0, 2}
TwoRequests == 1..2
BasesOfTwo == <<"main", "topic">>

\* A part that is not the one explored rests in one initial state.
SourcesInit ==
  /\ part \in Part
  /\ Init /\ SvnInit /\ WorkspaceInit /\ BackfillInit /\ PrInit
  /\ part # "git" => full
  /\ part # "workspace" => tool = "git"
  /\ part # "backfill" => history = << >> /\ limit = 0

GitPart == part = "git" /\ Next
  /\ UNCHANGED <<part, svnVars, wsVars, bfVars, prVars>>
SvnPart == part = "svn" /\ SvnNext
  /\ UNCHANGED <<part, vars, wsVars, bfVars, prVars>>
WorkspacePart == part = "workspace" /\ WorkspaceNext
  /\ UNCHANGED <<part, vars, svnVars, bfVars, prVars>>
BackfillPart == part = "backfill" /\ BackfillNext
  /\ UNCHANGED <<part, vars, svnVars, wsVars, prVars>>
RequestsPart == part = "requests" /\ PrNext
  /\ UNCHANGED <<part, vars, svnVars, wsVars, bfVars>>

SourcesNext == GitPart \/ SvnPart \/ WorkspacePart \/ BackfillPart \/ RequestsPart
Everything == <<part, vars, svnVars, wsVars, bfVars, prVars>>

SourcesSpec ==
  /\ SourcesInit /\ [][SourcesNext]_Everything
  \* The watch loop looks for changes again and again; nothing but tests calls the rest.
  /\ WF_vars(part = "git" /\ ~full /\ PassStep)

-----------------------------------------------------------------------------
(* The pure operators, against what they are for, over all their inputs.   *)

\* What git says of credentials outranks the rest of it, whatever else is said: the
\* failure is not put down to the repository, nor to a change that is not there; and
\* svn's word on a certificate is not put down to credentials (cmd.rs, classify).
ASSUME NotMistaken ==
  \A said \in SUBSET {"credentials", "certificate", "not a repository", "bad revision"} :
    LET git == Classify("git", said)
        svn == Classify("svn", said)
    IN /\ (git = "CredentialsRequired") = ("credentials" \in said)
       /\ (MaterializeError(git, said) = "NoSuchChange")
            = (said \cap {"credentials", "not a repository", "bad revision"} = {"bad revision"})
       /\ (svn = "CredentialsRequired") = ("credentials" \in said /\ "certificate" \notin said)
       /\ (svn = "Failed") = (said \cap {"credentials", "certificate"} = {})

\* A repository is offered as usable just when there is a branch to read of those that
\* match; a command that failed otherwise is an error, not an answer (adapter.rs, probe).
ASSUME ProbedAsFound ==
  \A hasPath \in BOOLEAN, version \in {"ok", "NotInstalled", "Timeout"},
     error \in {"none", "NotARepository", "Timeout"}, branches \in {<< >>, <<"main">>, <<"topic", "main">>} :
    LET report == Probe(hasPath, version, branches, error)
        fine == hasPath /\ version = "ok" /\ error = "none" /\ branches # << >>
    IN /\ fine => report = Report(TRUE, Head(branches))
       /\ ~fine /\ "usable" \in DOMAIN report => ~report.usable
       /\ hasPath /\ (version = "Timeout" \/ (version = "ok" /\ error = "Timeout")) => "error" \in DOMAIN report

\* A look into the files for marks of generated code spares more changes, never fewer,
\* and none in which a file to review is unmarked or cannot be read (skip_rules.rs).
ASSUME SparesGenerated ==
  \A paths, marked, readable \in SUBSET {"src", "vendor", "gen"}, merge, globs \in BOOLEAN :
    LET change == [parents |-> IF merge THEN <<1, 2>> ELSE <<1>>, author |-> "dev", paths |-> paths]
        config == [Rules EXCEPT !.globsCompile = globs]
        more == EvaluateWithGenerated(change, config, Generated(paths, marked, readable))
    IN /\ Evaluate(change, config) # "none" => more = Evaluate(change, config)
       /\ more = "none" => \E f \in ReviewablePaths(paths, config) : f \notin marked \cap readable
       /\ more = "generated_only" =>
            {} # ReviewablePaths(paths, config) /\ ReviewablePaths(paths, config) \subseteq marked

-----------------------------------------------------------------------------
\* No source steps over a change: a git cursor has nothing behind it that has no row and
\* did not come in with a merge that has one, and a Subversion cursor no revision that was
\* not seen (discover_one, highest_seen).
PassedIsAccounted == NothingSkippedOver /\ EveryRevisionSeen

\* And the watch loop comes to the end of the default branch, once people stop pushing
\* (watch.rs, discover_one; adapter.rs, discover).
AllCaughtUp == part = "git" /\ ~full => CaughtUp
=============================================================================
