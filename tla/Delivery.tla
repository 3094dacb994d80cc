------------------------------ MODULE Delivery ------------------------------
(***************************************************************************)
(* What a run wants to post, and how each target posts it: a review on     *)
(* GitHub (github.rs; a check is planned and owed, check.rs, but refused), *)
(* a page in Trama (trama.rs), an issue or an outcome in Andare            *)
(* (andare.rs, work_item.rs), with the risk each carries (risk.rs,         *)
(* gating.rs, autonomy.rs) and the report of what became of it (report.rs).*)
(*                                                                         *)
(* One worker takes an action at a time; a call of a service may be        *)
(* refused, fail, or be done and its reply lost, after which the queue     *)
(* tries the action again (PublishQueue).  People edit the page meanwhile, *)
(* and review the same change.  A body is the set of findings it names.    *)
(***************************************************************************)
EXTENDS Integers, Sequences, FiniteSets, FiniteSetsExt, SequencesExt

CONSTANTS
  Actions,       \* what may be planned: a function from ids to records
  Plans,         \* the actions of one run, or of a few of the same change
  Modes,         \* AutonomyMode, the effective one
  Options,       \* ReviewOptions: sets of [approve, block]
  Anchors,       \* findings that have a line in the diff
  Notes,         \* what people write on the page
  CanSearch,     \* Andare's search is mapped
  MaxAttempts

Kinds == {"review", "check", "page", "issue", "status"}
AutonomyModes == {"off", "dry_run", "auto_low_ask_high", "auto"}
Ids == DOMAIN Actions

\* A version of the page's section is a number; 0 stands for no section.
ActionsAssumption ==
  \A i \in Ids :
    /\ Actions[i].kind \in Kinds
    /\ Actions[i].verdict \in {"approve", "comment", "request_changes"}
    /\ Actions[i].phase \in {"starting", "resolved", "abandoned"}
    /\ Actions[i].version \in Nat \ {0}

ASSUME DeliveryAssumption == ActionsAssumption /\ Modes \subseteq AutonomyModes

VARIABLES
  mode, options,
  status,     \* of each action
  approved,   \* those a person approved
  tries,
  step,       \* the action in hand, the call that is next, and what was read
  reviews,    \* of the pull request: [ours, by, last, head, event, body, inline]
  page,       \* the page: [exists, above, marks, section, below, public]
  issues,     \* [by, print, comments]
  ticket,     \* the work item: [comments, moved], the comments by their actions
  unsure,     \* of each action, replies that were lost
  raced,      \* notes written since the page was read
  lost        \* notes that an update took away

deliveryVars == <<mode, options, status, approved, tries, step, reviews, page, issues,
                  ticket, unsure, raced, lost>>
world == <<reviews, page, issues, ticket>>

\* What is on a page, once there is one: the text above our section and below it, and
\* which of the two markers are there.
EmptyPage == [exists |-> FALSE, above |-> {}, marks |-> "none", section |-> 0, below |-> {},
              public |-> FALSE]
Idle == [id |-> 0, next |-> "none", read |-> EmptyPage, found |-> 0]

-----------------------------------------------------------------------------
(* Risk.                                                                   *)

\* A check is started, and resolved by the verdict, or as one that did not finish.
ConclusionFor(verdict) ==
  CASE verdict = "request_changes" /\ options.block -> "failure"
    [] verdict = "request_changes" /\ ~options.block -> "neutral"
    [] OTHER -> "success"
Conclusion(a) ==
  CASE a.phase = "starting" -> "in_progress"
    [] a.phase = "resolved" -> ConclusionFor(a.verdict)
    [] a.phase = "abandoned" -> "neutral"

\* What an action does, and what that carries by itself.
BaselineRisk(a) ==
  CASE a.kind = "review" /\ a.verdict = "comment" -> "low"
    [] a.kind = "review" /\ a.verdict # "comment" -> "high"
    [] a.kind = "check" /\ Conclusion(a) = "failure" -> "high"
    [] a.kind = "check" /\ Conclusion(a) # "failure" -> "low"
    [] a.kind = "page" /\ a.publish -> "high"
    [] a.kind = "page" /\ ~a.publish -> "low"
    [] a.kind \in {"issue", "status"} -> "high"
    [] OTHER -> "low"

\* Anything else that speaks against it makes it high.
Reasons(a) ==
  (IF BaselineRisk(a) = "high" THEN {"inherently_high_risk"} ELSE {})
  \cup (IF a.first THEN {"first_use_of_capability"} ELSE {})
  \cup (IF a.degraded THEN {"degraded_run"} ELSE {})
  \cup (IF a.confidence \in {"low", "nan"} THEN {"low_confidence"} ELSE {})
  \cup (IF a.burst THEN {"burst_threshold_exceeded"} ELSE {})
Classify(a) == IF Reasons(a) = {} THEN "low" ELSE "high"

\* (With a defect, what is risky by itself is not asked about.)
DispositionByReasons(m, a) ==
  CASE m = "off" -> "none"
    [] m = "dry_run" -> "skipped"
    [] m = "auto_low_ask_high" /\ a.confidence = "low" -> "awaiting"
    [] OTHER -> "pending"
Disposition(m, a) ==
  CASE m = "off" -> "none"
    [] m = "dry_run" -> "skipped"
    [] m = "auto_low_ask_high" /\ Classify(a) = "high" -> "awaiting"
    [] OTHER -> "pending"

Decide(i, verdict) ==
  /\ status[i] = "awaiting"
  /\ status' = [status EXCEPT ![i] = IF verdict THEN "approved" ELSE "rejected"]
  /\ approved' = IF verdict THEN approved \cup {i} ELSE approved
  /\ UNCHANGED <<mode, options, tries, step, world, unsure, raced, lost>>

-----------------------------------------------------------------------------
(* What is posted.                                                         *)

\* The event of a review.
EventFor(verdict) ==
  CASE verdict = "approve" /\ options.approve -> "approve"
    [] verdict = "request_changes" /\ options.block -> "request_changes"
    [] OTHER -> "comment"

\* A finding with a line in the diff is a comment there, and every finding is in the
\* table of the body.  (With a defect, only those that have no line.)
Inline(findings) == findings \cap Anchors
BodyOfDemoted(findings) == findings \ Anchors
Body(findings) == findings

\* The marker and the commit tell which review is ours, the last one first.
FindOwnReview(head) == {k \in DOMAIN reviews : reviews[k].ours /\ reviews[k].head = head}

\* The section between the markers is replaced; without them it comes last, and
\* after a begin without an end it is all there is.  It does not say whether the page
\* is public.  (With a defect, a page without
\* markers is taken to be ours.)
MergeOverwriting(body, v) ==
  [exists |-> TRUE, above |-> IF body.marks = "none" THEN {} ELSE body.above, marks |-> "both",
   section |-> v, below |-> IF body.marks = "begin" THEN {} ELSE body.below, public |-> page.public]
MergeBody(body, v) ==
  [exists |-> TRUE, above |-> body.above, marks |-> "both",
   section |-> v, below |-> IF body.marks = "begin" THEN {} ELSE body.below, public |-> page.public]

\* What is on a page and not ours.
HumanContent(p) == IF p.marks = "begin" THEN p.above ELSE p.above \cup p.below

-----------------------------------------------------------------------------
(* One attempt: a call after the other, each of which may be the last.     *)

FirstCall == [review |-> "find", page |-> "read", issue |-> "search", status |-> "comment",
              check |-> "post"]

Take(i) ==
  /\ step = Idle /\ status[i] \in {"pending", "approved"}
  /\ step' = [id |-> i, next |-> FirstCall[Actions[i].kind], read |-> EmptyPage, found |-> 0]
  /\ tries' = [tries EXCEPT ![i] = @ + 1]
  /\ UNCHANGED <<mode, options, status, approved, world, unsure, raced, lost>>

At(call) == step.next = call
A == Actions[step.id]
\* What is known after a read: where the attempt goes on, the page, the place it is at.
Known(call, read, found) ==
  step' = [id |-> step.id, next |-> call, read |-> read, found |-> found]

\* The attempt goes on with another call, or is over.
Go(call) == step' = [step EXCEPT !.next = call] /\ UNCHANGED status
Sent == step' = Idle /\ status' = [status EXCEPT ![step.id] = "sent"]
Refused == step' = Idle /\ status' = [status EXCEPT ![step.id] = "failed"]
Later == /\ step' = Idle
         /\ status' = IF tries[step.id] = MaxAttempts THEN [status EXCEPT ![step.id] = "failed"]
                      ELSE status

\* The call was done: the reply arrives, or is lost and the action is taken up again.
\* A transition is not: what goes wrong with it is final (report_outcome).
Then(done) ==
  \/ done /\ UNCHANGED unsure
  \/ (IF At("move") THEN Refused ELSE Later) /\ unsure' = [unsure EXCEPT ![step.id] = @ + 1]
Keep == UNCHANGED <<mode, options, approved, tries>>

\* Not done at all.  What is stored of a check is not a review, and GitHub's target
\* refuses all that is not, before any call.
CallFails ==
  /\ step # Idle
  /\ CASE At("link") -> Sent
       [] At("move") \/ At("post") -> Refused
       [] OTHER -> Refused \/ Later
  /\ UNCHANGED <<world, unsure, raced, lost>> /\ Keep

Read(call) ==
  /\ step.next = call /\ UNCHANGED <<world, unsure, lost>> /\ Keep

FindReview ==
  /\ Read("find") /\ UNCHANGED <<status, raced>>
  /\ Known("put", step.read,
           IF FindOwnReview(A.head) = {} THEN 0 ELSE Max(FindOwnReview(A.head)))

\* One that is there gets the new body; its event and its comments stay.
Edited(review) ==
  [ours |-> review.ours, by |-> review.by, last |-> step.id, head |-> review.head,
   event |-> review.event, body |-> Body(A.findings), inline |-> review.inline]
PutReview ==
  /\ At("put")
  /\ reviews' = IF step.found = 0
                THEN Append(reviews, [ours |-> TRUE, by |-> step.id, last |-> step.id, head |-> A.head, event |-> EventFor(A.verdict),
                                      body |-> Body(A.findings), inline |-> Inline(A.findings)])
                ELSE [reviews EXCEPT ![step.found] = Edited(reviews[step.found])]
  /\ Then(Sent)
  /\ UNCHANGED <<page, issues, ticket, raced, lost>> /\ Keep

ReadPage ==
  /\ Read("read") /\ UNCHANGED status
  /\ raced' = {}
  /\ Known(IF page.exists THEN "update" ELSE "create", page, step.found)

AfterPage == IF A.publish THEN "publish" ELSE "link"

WritePage ==
  /\ page' = MergeBody(step.read, A.version)
  /\ lost' = (lost \cup HumanContent(page)) \ HumanContent(page')
  /\ Then(Go(AfterPage))
  /\ UNCHANGED <<reviews, issues, ticket, raced>> /\ Keep
UpdatePage == At("update") /\ WritePage
CreatePage == At("create") /\ ~page.exists /\ WritePage

\* Somebody made it since it was read.
Collision ==
  /\ Read("create") /\ page.exists /\ UNCHANGED status
  /\ raced' = {}
  /\ Known("update", page, step.found)

PublishPage ==
  /\ At("publish")
  /\ page' = [page EXCEPT !.public = TRUE]
  /\ Then(Go("link"))
  /\ UNCHANGED <<reviews, issues, ticket, raced, lost>> /\ Keep

LinkPage ==
  /\ Read("link") /\ Sent /\ UNCHANGED raced

IssuesOf(print) == {k \in DOMAIN issues : issues[k].print = print}

\* Filing is off without a search; a payload that is not an issue is refused.
SearchIssue ==
  /\ Read("search") /\ UNCHANGED raced
  /\ \/ ~(CanSearch /\ A.readable) /\ Refused
     \/ /\ CanSearch /\ A.readable /\ UNCHANGED status
        /\ LET there == IssuesOf(A.print) IN
           Known("file", step.read, IF there = {} THEN 0 ELSE Min(there))

\* (With a defect, always a new one.)
FileIssueAnew ==
  /\ At("file")
  /\ issues' = Append(issues, [by |-> step.id, print |-> A.print, comments |-> 0])
  /\ Then(Sent)
  /\ UNCHANGED <<reviews, page, ticket, raced, lost>> /\ Keep
FileIssue ==
  /\ At("file")
  /\ issues' = IF step.found = 0 THEN Append(issues, [by |-> step.id, print |-> A.print, comments |-> 0])
               ELSE [issues EXCEPT ![step.found].comments = @ + 1]
  /\ Then(Sent)
  /\ UNCHANGED <<reviews, page, ticket, raced, lost>> /\ Keep

\* An outcome: a comment on the work item, and its transition if there is one.
Comment ==
  /\ At("comment")
  /\ ticket' = [comments |-> [ticket.comments EXCEPT ![step.id] = @ + 1], moved |-> ticket.moved]
  /\ Then(IF A.moves THEN Go("move") ELSE Sent)
  /\ UNCHANGED <<reviews, page, issues, raced, lost>> /\ Keep
Move ==
  /\ At("move")
  /\ ticket' = [ticket EXCEPT !.moved = TRUE]
  /\ Then(Sent)
  /\ UNCHANGED <<reviews, page, issues, raced, lost>> /\ Keep

-----------------------------------------------------------------------------
(* People.                                                                 *)

Written == page.above \cup page.below \cup lost
\* The first note makes the page, if nothing else has.
NotedAbove(n) ==
  [exists |-> TRUE, above |-> page.above \cup {n}, marks |-> page.marks, section |-> page.section,
   below |-> page.below, public |-> page.public]
Edits ==
  \/ \E n \in Notes \ Written :
       /\ raced' = raced \cup {n}
       /\ \/ page' = NotedAbove(n)
          \/ page.marks # "none" /\ page' = [page EXCEPT !.below = @ \cup {n}]
  \/ page.marks = "both" /\ page' = [page EXCEPT !.marks = "begin"] /\ UNCHANGED raced
EditPage ==
  /\ Edits
  /\ UNCHANGED <<reviews, issues, ticket, status, step, unsure, lost>> /\ Keep

Reviews(head) ==
  /\ \A k \in DOMAIN reviews : reviews[k].ours
  /\ reviews' = Append(reviews, [ours |-> FALSE, by |-> 0, last |-> 0, head |-> head, event |-> "comment",
                                 body |-> {}, inline |-> {}])
  /\ UNCHANGED <<page, issues, ticket, status, step, unsure, raced, lost>> /\ Keep

-----------------------------------------------------------------------------
(* What the run says of a target.                                          *)

Targets == { {"review", "check"}, {"issue", "status"}, {"page"} }
TargetOf(i) == CHOOSE t \in Targets : Actions[i].kind \in t
Of(kinds) == {status[i] : i \in {i \in Ids : Actions[i].kind \in kinds}} \ {"none"}
Outstanding(s) == s \cap {"awaiting", "pending", "approved"} # {}
State(s) ==
  CASE "awaiting" \in s -> "awaiting approval"
    [] Outstanding(s) /\ ~"awaiting" \in s -> "pending"
    [] ~Outstanding(s) /\ "failed" \in s -> IF "sent" \in s THEN "partial" ELSE "failed"
    [] ~Outstanding(s) /\ ~"failed" \in s /\ "skipped" \in s /\ ~"sent" \in s -> "skipped"
    [] OTHER -> "delivered"

\* A check that was started and of which no end was sent is owed one, once the run
\* is over.
Checks(phase) == {i \in Ids : Actions[i].kind = "check" /\ Actions[i].phase = phase /\ status[i] # "none"}
RunFinished == ~Outstanding({status[i] : i \in Ids})
UnresolvedCheck ==
  /\ RunFinished /\ Checks("starting") # {}
  /\ \A i \in Checks("resolved") \cup Checks("abandoned") : status[i] # "sent"
Abandon(i) ==
  /\ UnresolvedCheck
  /\ Actions[i].kind = "check" /\ Actions[i].phase = "abandoned" /\ status[i] = "none"
  /\ status' = [status EXCEPT ![i] = Disposition(mode, Actions[i])]
  /\ UNCHANGED <<mode, options, approved, tries, step, world, unsure, raced, lost>>

-----------------------------------------------------------------------------
DeliveryInit ==
  /\ mode \in Modes /\ options \in Options
  /\ \E planned \in Plans :
       status = [i \in Ids |-> IF i \in planned THEN Disposition(mode, Actions[i]) ELSE "none"]
  /\ approved = {} /\ tries = [i \in Ids |-> 0] /\ step = Idle
  /\ reviews = << >> /\ page = EmptyPage /\ issues = << >>
  /\ ticket = [comments |-> [i \in Ids |-> 0], moved |-> FALSE]
  /\ unsure = [i \in Ids |-> 0] /\ raced = {} /\ lost = {}

Calls ==
  \/ FindReview \/ PutReview
  \/ ReadPage \/ UpdatePage \/ CreatePage \/ Collision \/ PublishPage \/ LinkPage
  \/ SearchIssue \/ FileIssue \/ Comment \/ Move
  \/ CallFails

DeliveryNext ==
  \/ \E i \in Ids : Take(i) \/ Decide(i, TRUE) \/ Decide(i, FALSE) \/ Abandon(i)
  \/ Calls
  \/ EditPage
  \/ \E i \in Ids : Actions[i].kind = "review" /\ Reviews(Actions[i].head)

DeliverySpec == DeliveryInit /\ [][DeliveryNext]_deliveryVars

-----------------------------------------------------------------------------
(* Properties.                                                             *)

\* However often an action is tried, and whatever replies are lost, there is one
\* review of ours on a commit and one issue for a fingerprint, and an outcome is
\* commented twice only when nobody could know of the first comment (github.rs, execute: "editing
\* rather than posting a second review"; andare.rs, execute).
OneOfEach ==
  /\ \A k, l \in DOMAIN reviews :
       reviews[k].ours /\ reviews[l].ours /\ reviews[k].head = reviews[l].head => k = l
  /\ \A k, l \in DOMAIN issues : issues[k].print = issues[l].print => k = l
  /\ \A i \in Ids : ticket.comments[i] <= 1 + unsure[i]

\* What a person wrote around the section stays, but for what came in between the
\* read and the write (trama.rs, "Everything outside survives an update untouched").
HumanTextKept == [][lost' \subseteq lost \cup raced]_deliveryVars

\* Nothing that binds others is done without a person's word, unless the mode is
\* `auto`: a review that approves or blocks, a public page, an issue, a transition
\* (risk.rs, baseline_risk).
NothingBindingUnasked ==
  mode # "auto" =>
    /\ \A k \in DOMAIN reviews : reviews[k].event # "comment" => reviews[k].by \in approved
    /\ \A k \in DOMAIN issues : issues[k].by \in approved
    /\ page.public => \E i \in approved : Actions[i].kind = "page"
    /\ ticket.moved => \E i \in approved : Actions[i].kind = "status"

\* A target that is reported as delivered owes nothing: what was not turned down by
\* a person is in the world, and the text of a review names each finding of the
\* last action that wrote it.  No check is ever there, so a target that was to set one
\* is not reported as delivered (report.rs, state; github.rs, compose and execute).
DeliveredIsThere ==
  \A i \in Ids : status[i] \notin {"none", "rejected"} /\ State(Of(TargetOf(i))) = "delivered" =>
    CASE Actions[i].kind = "review" ->
           \E k \in DOMAIN reviews :
             /\ reviews[k].ours /\ reviews[k].head = Actions[i].head
             /\ Actions[reviews[k].last].findings \subseteq reviews[k].body \cup reviews[k].inline
      [] Actions[i].kind = "issue" -> \E k \in DOMAIN issues : issues[k].print = Actions[i].print
      [] Actions[i].kind = "page" -> page.section > 0
      [] Actions[i].kind = "check" -> FALSE
      [] OTHER -> ticket.comments[i] > 0
=============================================================================
