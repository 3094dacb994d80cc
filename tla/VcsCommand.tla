----------------------------- MODULE VcsCommand -----------------------------
(***************************************************************************)
(* What a command of git or svn comes to (revlocal-vcs, git/cmd.rs and     *)
(* svn/cmd.rs), and what GitAdapter makes of it.  A stderr is the set of   *)
(* the known messages it contains.                                         *)
(***************************************************************************)
EXTENDS Naturals, Sequences

\* classify: credentials are asked for before the repository is doubted.
GitClassify(stderr) ==
  CASE "credentials" \in stderr -> "CredentialsRequired"
    [] "credentials" \notin stderr /\ "not a repository" \in stderr -> "NotARepository"
    [] OTHER -> "Failed"

\* A certificate problem is often reported with a failed authorization.
SvnClassify(stderr) ==
  CASE "certificate" \in stderr -> "CertificateRejected"
    [] "certificate" \notin stderr /\ "credentials" \in stderr -> "CredentialsRequired"
    [] OTHER -> "Failed"

Classify(tool, stderr) == IF tool = "svn" THEN SvnClassify(stderr) ELSE GitClassify(stderr)

\* GitAdapter::map_error
MapError(error) ==
  CASE error = "NotInstalled" -> "MissingTool"
    [] error \in {"NotARepository", "CredentialsRequired"} -> "Unusable"
    [] OTHER -> "CommandFailed"

\* GitAdapter::materialize: a commit that is not there is told from a command that
\* did not work.
MaterializeError(error, stderr) ==
  IF error = "Failed" /\ "bad revision" \in stderr THEN "NoSuchChange" ELSE MapError(error)

\* GitAdapter::probe: version is "ok" or the error of `git --version`, branches the
\* branches that match, or the error of listing them.
Report(usable, branch) == [usable |-> usable, branch |-> branch]
Probe(hasPath, version, branches, error) ==
  CASE ~hasPath -> [error |-> "Unusable"]
    [] hasPath /\ version = "NotInstalled" -> Report(FALSE, "none")
    [] hasPath /\ version \notin {"ok", "NotInstalled"} -> [error |-> MapError(version)]
    [] hasPath /\ version = "ok" /\ error \notin {"none", "NotARepository"} -> [error |-> MapError(error)]
    [] OTHER -> IF error = "NotARepository" \/ branches = << >>
                THEN Report(FALSE, "none") ELSE Report(TRUE, Head(branches))
=============================================================================
