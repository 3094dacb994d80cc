---------------------------- MODULE PullRequests ----------------------------
(***************************************************************************)
(* Pull requests as changes (revlocal-vcs, github): how GitHub is reached  *)
(* (transport.rs), the open requests listed (pull_requests.rs), a draft    *)
(* skipped, and the commits a request covers left to it.  Nothing of       *)
(* rev-local calls these but their tests: discover and mark_covered_by_pr  *)
(* are calls of their own, and each has its own listing of the requests.   *)
(***************************************************************************)
EXTENDS Integers, FiniteSets

CONSTANTS
  Numbers,       \* of pull requests
  Shas,          \* commits
  BaseOf,        \* of each request, its base branch
  Bases,         \* the base branches asked for; none asks for all
  ReviewDrafts,  \* review_draft_prs
  MaxPasses      \* bound

ASSUME NumbersAssumption == Numbers \subseteq Nat

VARIABLES
  transport,   \* "mcp", "gh_cli", "unauthenticated", or "none": there is no way
  state,       \* of each request, "none", "open" or "closed"
  draft,       \* requests that are drafts
  commits,     \* of each request, its commits
  pushed,      \* commits on watched branches
  listed,      \* commits the pass has found
  asked,       \* whether the pass has listed them, and they wait to be marked
  verdict,     \* of each commit, "none", "wanted" or "covered_by_pr"
  detected,    \* changes made of requests: [number, commits, skipped]
  posted,      \* reviews posted on requests
  passes

prVars == <<transport, state, draft, commits, pushed, listed, asked, verdict, detected,
            posted, passes>>

-----------------------------------------------------------------------------
(* The way to GitHub: the first rung that holds.                           *)

Select(mcpReachable, ghInstalled, ghAuthenticated, public) ==
  CASE mcpReachable -> "mcp"
    [] ~mcpReachable /\ ghInstalled /\ ghAuthenticated -> "gh_cli"
    [] ~mcpReachable /\ ~(ghInstalled /\ ghAuthenticated) /\ public = "yes" -> "unauthenticated"
    [] OTHER -> "none"

\* can_write, authorize
Authorized == transport \in {"mcp", "gh_cli"}

\* probe: an error of `gh auth status` other than its absence is a login that is
\* missing; a visibility that is not known is none.
ProbeTransport ==
  /\ \E mcp, installed, authenticated \in BOOLEAN, public \in {"yes", "no", "unknown"} :
       transport' = Select(mcp, installed, installed /\ authenticated, public)
  /\ UNCHANGED <<state, draft, commits, pushed, listed, asked, verdict, detected, posted, passes>>

-----------------------------------------------------------------------------
(* GitHub.                                                                 *)

Open == {n \in Numbers : state[n] = "open"}

GitHub ==
  /\ \/ \E n \in Numbers, c \in Shas \ pushed, d \in BOOLEAN :
          /\ state[n] = "none"
          /\ state' = [state EXCEPT ![n] = "open"]
          /\ commits' = [commits EXCEPT ![n] = {c}] /\ pushed' = pushed \cup {c}
          /\ draft' = IF d THEN draft \cup {n} ELSE draft
     \/ \E n \in Open, c \in Shas \ pushed :
          /\ commits' = [commits EXCEPT ![n] = @ \cup {c}] /\ pushed' = pushed \cup {c}
          /\ UNCHANGED <<state, draft>>
     \/ \E c \in Shas \ pushed : pushed' = pushed \cup {c} /\ UNCHANGED <<state, draft, commits>>
     \* ready for review, and converted to a draft
     \/ \E n \in Open : /\ draft' = IF n \in draft THEN draft \ {n} ELSE draft \cup {n}
                       /\ UNCHANGED <<state, commits, pushed>>
     \/ \E n \in Open : state' = [state EXCEPT ![n] = "closed"] /\ UNCHANGED <<draft, commits, pushed>>
  /\ UNCHANGED <<transport, listed, asked, verdict, detected, posted, passes>>

-----------------------------------------------------------------------------
(* A pass.                                                                 *)

ListCommits ==
  /\ passes < MaxPasses /\ ~asked
  /\ asked' = TRUE
  /\ listed' = {c \in pushed : verdict[c] = "none"}
  /\ UNCHANGED <<transport, state, draft, commits, pushed, verdict, detected, posted, passes>>

\* open_pull_requests, branch_matches
Requests == {n \in Open : Bases = {} \/ BaseOf[n] \in Bases}

\* discover
Skipped(n) == n \in draft /\ ~ReviewDrafts
Detected(n) == [number |-> n, commits |-> commits[n], skipped |-> Skipped(n)]

DiscoverRequests ==
  /\ transport = "gh_cli"
  /\ detected' = detected \cup {Detected(n) : n \in Requests}
  /\ UNCHANGED <<transport, state, draft, commits, pushed, listed, asked, verdict, posted, passes>>

\* mark_covered_by_pr: some request that is open now has the commit, draft or not.
Covered(c) == \E n \in Requests : c \in commits[n]

MarkCovered ==
  /\ asked /\ transport = "gh_cli"
  /\ verdict' = [c \in Shas |->
       IF c \notin listed THEN verdict[c] ELSE IF Covered(c) THEN "covered_by_pr" ELSE "wanted"]
  /\ asked' = FALSE /\ listed' = {} /\ passes' = passes + 1
  /\ UNCHANGED <<transport, state, draft, commits, pushed, detected, posted>>

\* `gh` fails, or there is no way: nothing is recorded.
ListingFails ==
  /\ asked
  /\ asked' = FALSE /\ listed' = {} /\ passes' = passes + 1
  /\ UNCHANGED <<transport, state, draft, commits, pushed, verdict, detected, posted>>

\* A write is refused without authentication.
PostReview ==
  /\ Authorized
  /\ \E r \in detected : ~r.skipped /\ r \notin posted /\ posted' = posted \cup {r}
  /\ UNCHANGED <<transport, state, draft, commits, pushed, listed, asked, verdict, detected, passes>>

PrInit ==
  /\ transport = "none"
  /\ state = [n \in Numbers |-> "none"] /\ draft = {} /\ commits = [n \in Numbers |-> {}]
  /\ pushed = {} /\ listed = {} /\ asked = FALSE
  /\ verdict = [c \in Shas |-> "none"] /\ detected = {}
  /\ posted = {} /\ passes = 0

PrNext == ProbeTransport \/ GitHub \/ ListCommits \/ DiscoverRequests \/ MarkCovered \/ ListingFails \/ PostReview

PrSpec == PrInit /\ [][PrNext]_prVars
=============================================================================
