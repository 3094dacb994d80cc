--------------------------- MODULE DeliveryProofs ---------------------------
(***************************************************************************)
(* Theorems of Delivery and of ReviewPipeline: of a delivery, for any      *)
(* actions that may be planned, any plans of them, any number of attempts, *)
(* and any notes of any people; of a review, for any diffs, documents,     *)
(* templates, suppressions and limits.                                     *)
(*                                                                         *)
(* None of the properties is inductive.  What those of a delivery need is  *)
(* what the worker knows while it has an action in hand (InHand): that it  *)
(* may do it, and that what it read is still so, but for what was written  *)
(* meanwhile; and what the world holds of an action by its status (Done).  *)
(* Those of a review need that every prompt is the same, and that a second *)
(* attempt is at depth "deep" and was bought (ReviewInv).                  *)
(***************************************************************************)
EXTENDS ReviewPipeline, Delivery, FiniteSetTheorems, WellFoundedInduction, TLAPS

Statuses == {"none", "skipped", "awaiting", "pending", "approved", "rejected", "sent", "failed"}
Pages == [exists : BOOLEAN, above : SUBSET Notes, marks : {"none", "both", "begin"}, section : Nat,
          below : SUBSET Notes, public : BOOLEAN]

\* The calls that an action of each kind is made of.
CallsOf(kind) ==
  CASE kind = "review" -> {"find", "put"}
    [] kind = "check" -> {"post"}
    [] kind = "page" -> {"read", "update", "create", "publish", "link"}
    [] kind = "issue" -> {"search", "file"}
    [] OTHER -> {"comment", "move"}
EveryCall == UNION {CallsOf(kind) : kind \in Kinds}

DeliveryTypeOK ==
  /\ mode \in AutonomyModes
  /\ status \in [Ids -> Statuses]
  /\ approved \subseteq Ids
  /\ step \in [id : Ids, next : EveryCall, read : Pages, found : Nat] \cup {Idle}
  /\ page \in Pages
  /\ unsure \in [Ids -> Nat]
  /\ ticket \in [comments : [Ids -> Nat], moved : BOOLEAN]
  /\ raced \subseteq Notes /\ lost \subseteq Notes

\* What is posted: sequences.
Reviewed == [ours : BOOLEAN, by : Ids \cup {0}, last : Ids \cup {0}, head : {Actions[i].head : i \in Ids},
             event : {"approve", "comment", "request_changes"},
             body : {Body(Actions[i].findings) : i \in Ids} \cup {{}}, inline : {Inline(Actions[i].findings) : i \in Ids} \cup {{}}]
PostedTypeOK ==
  /\ reviews \in Seq(Reviewed)
  /\ issues \in Seq([by : Ids, print : {Actions[i].print : i \in Ids}, comments : Nat])

\* Nothing runs that binds others and nobody approved, unless the mode is `auto`; in a
\* dry run nothing runs at all.
Allowed(i) ==
  /\ status[i] \in {"pending", "approved"} /\ BaselineRisk(Actions[i]) = "high" /\ mode # "auto" => i \in approved
  /\ mode = "dry_run" => status[i] \in {"none", "skipped"}
  /\ mode # "dry_run" => status[i] # "skipped"

\* The action in hand may be done, is at a call of its kind, and what was read is so.
InHand ==
  step # Idle =>
    /\ status[step.id] \in {"pending", "approved"}
    /\ step.next \in CallsOf(Actions[step.id].kind)
    /\ step.next = "publish" => Actions[step.id].publish
    /\ step.next \in {"publish", "link"} => page.section > 0
    /\ step.next \in {"update", "create"} => HumanContent(page) \subseteq HumanContent(step.read) \cup raced
    /\ step.next = "put" => FindOwnReview(Actions[step.id].head) = IF step.found = 0 THEN {} ELSE {step.found}
    /\ step.next = "file" => IssuesOf(Actions[step.id].print) = IF step.found = 0 THEN {} ELSE {step.found}
    /\ step.next = "move" => ticket.comments[step.id] > 0

\* What was sent is there.
Effect(i) ==
  CASE Actions[i].kind = "review" -> FindOwnReview(Actions[i].head) # {}
    [] Actions[i].kind = "issue" -> IssuesOf(Actions[i].print) # {}
    [] Actions[i].kind = "page" -> page.section > 0
    [] Actions[i].kind = "check" -> FALSE
    [] OTHER -> ticket.comments[i] > 0
Done(i) == status[i] = "sent" => Effect(i)

\* An outcome is commented again only after a reply that was lost, and never once
\* its comment is known to be made.
CommentedOnce(i) ==
  ticket.comments[i] <=
    unsure[i] + (IF status[i] \in {"sent", "failed"} \/ (step.id = i /\ step.next = "move") THEN 1 ELSE 0)

\* One review of ours on a commit, which names the findings of the last action that
\* wrote it, and whose event is allowed.
ReviewsRight ==
  /\ \A k, l \in DOMAIN reviews :
       reviews[k].ours /\ reviews[l].ours /\ reviews[k].head = reviews[l].head => k = l
  /\ \A k \in DOMAIN reviews :
       reviews[k].ours => Actions[reviews[k].last].findings \subseteq reviews[k].body
  /\ mode # "auto" => \A k \in DOMAIN reviews : reviews[k].event # "comment" => reviews[k].by \in approved

IssuesRight ==
  /\ \A k, l \in DOMAIN issues : issues[k].print = issues[l].print => k = l
  /\ mode # "auto" => \A k \in DOMAIN issues : issues[k].by \in approved

OthersRight ==
  mode # "auto" =>
    /\ page.public => \E i \in approved : Actions[i].kind = "page"
    /\ ticket.moved => \E i \in approved : Actions[i].kind = "status"

DeliveryInv ==
  /\ DeliveryTypeOK /\ PostedTypeOK
  /\ \A i \in Ids : Allowed(i) /\ Done(i) /\ CommentedOnce(i)
  /\ InHand /\ ReviewsRight /\ IssuesRight /\ OthersRight

-----------------------------------------------------------------------------
(* The operators.                                                          *)

\* Only a mode in which nothing runs, or `auto`, lets pass what binds others.
LEMMA Disposed ==
  ASSUME NEW m \in AutonomyModes, NEW a
  PROVE  /\ Disposition(m, a) \in {"none", "skipped", "awaiting", "pending"}
         /\ m = "dry_run" <=> Disposition(m, a) = "skipped"
         /\ Disposition(m, a) = "pending" /\ BaselineRisk(a) = "high" => m = "auto"
<1>1. BaselineRisk(a) = "high" => Classify(a) = "high"
  BY DEF Classify, Reasons
<1> QED
  BY <1>1 DEF Disposition, AutonomyModes

\* What binds others is risky by itself.
LEMMA BindingIsHigh ==
  ASSUME NEW i \in Ids
  PROVE  /\ Actions[i].kind = "review" /\ EventFor(Actions[i].verdict) # "comment" => BaselineRisk(Actions[i]) = "high"
         /\ Actions[i].kind = "page" /\ Actions[i].publish => BaselineRisk(Actions[i]) = "high"
         /\ Actions[i].kind \in {"issue", "status"} => BaselineRisk(Actions[i]) = "high"
  BY DeliveryAssumption DEF ActionsAssumption, EventFor, BaselineRisk

LEMMA EventIsOne == ASSUME NEW i \in Ids PROVE EventFor(Actions[i].verdict) \in {"approve", "comment", "request_changes"}
  BY DEF EventFor

\* What is read of a page is written back, but for the section.
LEMMA Merged ==
  ASSUME NEW p \in Pages, NEW v \in Nat \ {0}, page \in Pages
  PROVE  /\ MergeBody(p, v) \in Pages
         /\ HumanContent(MergeBody(p, v)) = HumanContent(p)
         /\ MergeBody(p, v).section > 0
         /\ MergeBody(p, v).public = page.public
<1>1. MergeBody(p, v) \in Pages
  BY DEF MergeBody, Pages
<1>2. HumanContent(MergeBody(p, v)) = HumanContent(p)
  BY DEF MergeBody, HumanContent, Pages
<1>3. MergeBody(p, v).section > 0
  BY DEF MergeBody
<1>4. MergeBody(p, v).public = page.public
  BY DEF MergeBody
<1> QED
  BY <1>1, <1>2, <1>3, <1>4

\* The last of one is that one.
LEMMA MaxOfOne == ASSUME NEW k \in Nat PROVE Max({k}) = k /\ Min({k}) = k
  BY DEF Max, Min

\* Risk depends on nothing that changes.
LEMMA OptionsStay ==
  ASSUME options' = options, NEW i \in Ids
  PROVE  BaselineRisk(Actions[i])' = BaselineRisk(Actions[i])
  BY DEF BaselineRisk, Conclusion, ConclusionFor

-----------------------------------------------------------------------------
(* How an attempt goes on, whatever call it is at.                         *)

Sends == [status EXCEPT ![step.id] = "sent"]
Fails == [status EXCEPT ![step.id] = "failed"]

\* The action in hand is the only one whose status and lost replies can change, and
\* its status changes only as it is put down.
LEMMA InHandOnly ==
  ASSUME DeliveryInv, Calls
  PROVE  /\ step # Idle /\ step.id \in Ids /\ step.next \in EveryCall
         /\ step \in [id : Ids, next : EveryCall, read : Pages, found : Nat]
         /\ UNCHANGED <<mode, options, approved, tries>>
         /\ \/ status' = status /\ step' # Idle /\ step'.id = step.id
            \/ step' = Idle /\ status' \in {status, Sends, Fails}
         /\ unsure' \in {unsure, [unsure EXCEPT ![step.id] = @ + 1]}
<1>1. step.next \in EveryCall /\ step # Idle
  <2>1. ASSUME NEW call, step.next = call, call # "none" PROVE step # Idle
    BY <2>1 DEF Idle
  <2>2. \/ step # Idle
        \/ \E call \in {"find", "put", "post", "read", "update", "create", "publish", "link", "search", "file",
                        "comment", "move"} : step.next = call
    BY DEF Calls, FindReview, PutReview, ReadPage, UpdatePage, CreatePage, Collision, PublishPage,
           LinkPage, SearchIssue, FileIssue, Comment, Move, CallFails, Read, At
  <2>3. step # Idle
    BY <2>1, <2>2
  <2> QED
    BY <2>3 DEF DeliveryInv, DeliveryTypeOK
<1>2. step \in [id : Ids, next : EveryCall, read : Pages, found : Nat] /\ step.id \in Ids
  BY <1>1 DEF DeliveryInv, DeliveryTypeOK
<1>3. UNCHANGED <<mode, options, approved, tries>>
  BY DEF Calls, FindReview, PutReview, ReadPage, UpdatePage, CreatePage, WritePage, Collision,
         PublishPage, LinkPage, SearchIssue, FileIssue, Comment, Move, CallFails, Read, Keep
<1> DEFINE Over == step' = Idle /\ status' \in {status, Sends, Fails}
           GoesOn == status' = status /\ step' # Idle /\ step'.id = step.id
<1>4. Sent \/ Refused \/ Later => Over
  BY DEF Sent, Refused, Later, Sends, Fails
<1>5. ASSUME NEW call, call # "none", Go(call) PROVE GoesOn
  BY <1>2, <1>5 DEF Go, Idle
<1>6. ASSUME NEW call, call # "none", NEW read, NEW found, Known(call, read, found), UNCHANGED status PROVE GoesOn
  BY <1>6 DEF Known, Idle
<1> HIDE DEF Over, GoesOn
<1>7. ASSUME NEW call, call # "none", Then(Sent) \/ Then(Go(call)) \/ Then(IF A.moves THEN Go("move") ELSE Sent)
      PROVE  (Over \/ GoesOn) /\ unsure' \in {unsure, [unsure EXCEPT ![step.id] = @ + 1]}
  BY <1>4, <1>5, <1>7 DEF Then
<1>8. CASE FindReview \/ ReadPage \/ Collision
  <2>1. UNCHANGED <<unsure, status>>
    BY <1>8 DEF FindReview, ReadPage, Collision, Read
  <2>2. \E call \in {"put", "update", "create"} : \E read, found : Known(call, read, found)
    BY <1>8 DEF FindReview, ReadPage, Collision
  <2> QED
    BY <1>1, <1>2, <1>3, <1>6, <2>1, <2>2 DEF GoesOn
<1>9. CASE SearchIssue
  <2>1. UNCHANGED unsure
    BY <1>9 DEF SearchIssue, Read
  <2>2. Refused \/ (UNCHANGED status /\ \E read, found : Known("file", read, found))
    BY <1>9 DEF SearchIssue
  <2> QED
    BY <1>1, <1>2, <1>3, <1>4, <1>6, <2>1, <2>2 DEF GoesOn, Over
<1>10. CASE PutReview \/ FileIssue \/ Move
  <2>1. Then(Sent)
    BY <1>10 DEF PutReview, FileIssue, Move
  <2> QED
    BY <1>1, <1>2, <1>3, <1>7, <2>1 DEF GoesOn, Over
<1>11. CASE UpdatePage \/ CreatePage \/ PublishPage \/ Comment
  <2>1. \/ \E call \in {"publish", "link"} : Then(Go(call))
        \/ Then(IF A.moves THEN Go("move") ELSE Sent)
    BY <1>11 DEF UpdatePage, CreatePage, PublishPage, WritePage, Comment, AfterPage
  <2> QED
    BY <1>1, <1>2, <1>3, <1>7, <2>1 DEF GoesOn, Over
<1>12. CASE LinkPage \/ CallFails
  <2>1. UNCHANGED unsure /\ (Sent \/ Refused \/ Later)
    BY <1>12 DEF LinkPage, CallFails, Read
  <2> QED
    BY <1>1, <1>2, <1>3, <1>4, <2>1 DEF GoesOn, Over
<1> QED
  BY <1>8, <1>9, <1>10, <1>11, <1>12 DEF Calls

\* A call leaves every action with what it was allowed.
LEMMA CallAllowed ==
  ASSUME DeliveryInv, Calls, NEW i \in Ids
  PROVE  Allowed(i)'
<1>1. /\ step.id \in Ids /\ step # Idle /\ UNCHANGED <<mode, approved>> /\ status' \in {status, Sends, Fails}
  BY InHandOnly
<1>2. /\ status \in [Ids -> Statuses] /\ Allowed(i) /\ Allowed(step.id)
      /\ status[step.id] \in {"pending", "approved"}
  BY <1>1 DEF DeliveryInv, DeliveryTypeOK, InHand
<1>3. status'[i] \in {status[i], "sent", "failed"} /\ (status'[i] # status[i] => i = step.id)
  BY <1>1, <1>2 DEF Sends, Fails
<1>4. mode # "dry_run"
  BY <1>2 DEF Allowed
<1>5. status'[i] = status[i] \/ status'[i] \in {"sent", "failed"}
  BY <1>3
<1>6. BaselineRisk(Actions[i])' = BaselineRisk(Actions[i])
  BY InHandOnly, OptionsStay
<1> QED
  BY <1>1, <1>2, <1>4, <1>5, <1>6 DEF Allowed

\* A call keeps the types of what is not posted, if it keeps those of the step, of the
\* page and of the work item.
LEMMA CallTypes ==
  ASSUME DeliveryInv, Calls,
         step' \in [id : Ids, next : EveryCall, read : Pages, found : Nat] \cup {Idle}, page' \in Pages,
         ticket' \in [comments : [Ids -> Nat], moved : BOOLEAN], raced' \subseteq Notes, lost' \subseteq Notes
  PROVE  DeliveryTypeOK'
<1>1. /\ step.id \in Ids /\ UNCHANGED <<mode, approved>> /\ status' \in {status, Sends, Fails}
      /\ unsure' \in {unsure, [unsure EXCEPT ![step.id] = @ + 1]}
  BY InHandOnly
<1>2. status' \in [Ids -> Statuses]
  BY <1>1 DEF DeliveryInv, DeliveryTypeOK, Sends, Fails, Statuses
<1>3. unsure' \in [Ids -> Nat]
  BY <1>1 DEF DeliveryInv, DeliveryTypeOK
<1> QED
  BY <1>1, <1>2, <1>3 DEF DeliveryInv, DeliveryTypeOK

\* A call that takes nothing away from the world, and leaves what it sends there,
\* leaves what was sent there.
Grows ==
  /\ \A i \in Ids : FindOwnReview(Actions[i].head) # {} => FindOwnReview(Actions[i].head)' # {}
  /\ \A i \in Ids : IssuesOf(Actions[i].print) # {} => IssuesOf(Actions[i].print)' # {}
  /\ page.section > 0 => page'.section > 0
  /\ \A i \in Ids : ticket.comments[i] > 0 => ticket'.comments[i] > 0

LEMMA EffectStays ==
  ASSUME Grows, options' = options, NEW i \in Ids, Effect(i)
  PROVE  Effect(i)'
  BY DEF Effect, Grows

LEMMA CallDone ==
  ASSUME DeliveryInv, Calls, Grows, NEW i \in Ids,
         status' = Sends /\ i = step.id => Effect(i)'
  PROVE  Done(i)'
<1>1. step.id \in Ids /\ UNCHANGED options /\ status' \in {status, Sends, Fails}
  BY InHandOnly
<1>2. status \in [Ids -> Statuses] /\ Done(i)
  BY DEF DeliveryInv, DeliveryTypeOK
<1>3. status'[i] = "sent" => status[i] = "sent" \/ (status' = Sends /\ i = step.id)
  BY <1>1, <1>2 DEF Sends, Fails
<1>4. status[i] = "sent" => Effect(i)'
  BY <1>1, <1>2, EffectStays DEF Done
<1> QED
  BY <1>3, <1>4 DEF Done

\* A call counts a comment only where it is known to be made or its reply is lost.
LEMMA CallComments ==
  ASSUME DeliveryInv, Calls, NEW i \in Ids
  PROVE  CommentedOnce(i)'
<1>1. /\ step.id \in Ids /\ step.next \in EveryCall /\ status' \in {status, Sends, Fails}
      /\ (status' = status /\ step' # Idle /\ step'.id = step.id) \/ step' = Idle
      /\ unsure' \in {unsure, [unsure EXCEPT ![step.id] = @ + 1]}
  BY InHandOnly
<1>2. /\ status \in [Ids -> Statuses] /\ unsure \in [Ids -> Nat] /\ CommentedOnce(i)
      /\ ticket \in [comments : [Ids -> Nat], moved : BOOLEAN]
  BY DEF DeliveryInv, DeliveryTypeOK
<1>3. InHand /\ step # Idle
  BY InHandOnly DEF DeliveryInv
<1>4. status[step.id] \in {"pending", "approved"}
  BY <1>3 DEF InHand
<1>5. unsure'[i] >= unsure[i] /\ unsure'[i] \in Nat /\ ticket.comments[i] \in Nat
  BY <1>1, <1>2
<1>6. CASE i # step.id
  <2>1. ticket'.comments[i] = ticket.comments[i]
    <3>1. CASE ticket' = ticket
      BY <3>1
    <3>2. CASE Comment
      BY <1>2, <1>6, <3>2 DEF Comment
    <3>3. CASE Move
      BY <1>2, <3>3 DEF Move
    <3> QED
      BY <3>1, <3>2, <3>3 DEF Calls, FindReview, PutReview, ReadPage, UpdatePage, CreatePage, WritePage,
             Collision, PublishPage, LinkPage, SearchIssue, FileIssue, CallFails, Read, world
  <2>2. status'[i] = status[i]
    BY <1>1, <1>2, <1>6 DEF Sends, Fails
  <2>3. ~(step'.id = i /\ step'.next = "move")
    BY <1>1, <1>6 DEF Idle
  <2>4. ticket.comments[i] <= unsure[i] + (IF status[i] \in {"sent", "failed"} THEN 1 ELSE 0)
    BY <1>2, <1>6 DEF CommentedOnce
  <2>5. unsure[i] \in Nat
    BY <1>2
  <2>6. CASE status[i] \in {"sent", "failed"}
    BY <1>5, <2>1, <2>2, <2>4, <2>5, <2>6 DEF CommentedOnce
  <2>7. CASE status[i] \notin {"sent", "failed"}
    <3>1. ticket.comments[i] <= unsure[i]
      BY <1>5, <2>4, <2>5, <2>7
    <3> QED
      BY <1>5, <2>1, <2>2, <2>3, <2>5, <2>7, <3>1 DEF CommentedOnce
  <2> QED
    BY <2>6, <2>7
<1>7. CASE i = step.id /\ Comment
  <2>1. ticket'.comments[i] = ticket.comments[i] + 1 /\ ticket.comments[i] <= unsure[i]
    BY <1>2, <1>4, <1>7 DEF Comment, At, CommentedOnce
  <2>2. \/ (IF A.moves THEN Go("move") ELSE Sent) /\ UNCHANGED unsure
        \/ unsure' = [unsure EXCEPT ![i] = @ + 1]
    BY <1>7 DEF Comment, Then
  <2>3. CASE unsure' = [unsure EXCEPT ![i] = @ + 1]
    BY <1>2, <1>5, <2>1, <2>3 DEF CommentedOnce
  <2>4. CASE (Go("move") \/ Sent) /\ UNCHANGED unsure
    <3>1. (step'.id = i /\ step'.next = "move") \/ status'[i] = "sent"
      BY <1>2, <1>3, <1>7, <2>4 DEF Go, Sent, DeliveryInv, DeliveryTypeOK
    <3> QED
      BY <1>2, <2>1, <2>4, <3>1 DEF CommentedOnce
  <2> QED
    BY <2>2, <2>3, <2>4
<1>8. CASE i = step.id /\ ~Comment
  <2>1. ticket'.comments[i] = ticket.comments[i]
    <3>1. CASE ticket' = ticket
      BY <3>1
    <3>2. CASE Move
      BY <1>2, <3>2 DEF Move
    <3> QED
      BY <1>8, <3>1, <3>2 DEF Calls, FindReview, PutReview, ReadPage, UpdatePage, CreatePage, WritePage,
             Collision, PublishPage, LinkPage, SearchIssue, FileIssue, CallFails, Read, world
  <2>2. CASE step.next # "move"
    <3>1. ticket.comments[i] <= unsure[i]
      BY <1>2, <1>4, <1>8, <2>2 DEF CommentedOnce
    <3> QED
      BY <1>2, <1>5, <2>1, <3>1 DEF CommentedOnce
  <2>3. CASE step.next = "move"
    <3>1. Move \/ CallFails
      BY <2>3 DEF Calls, FindReview, PutReview, ReadPage, UpdatePage, CreatePage, Collision,
             PublishPage, LinkPage, SearchIssue, FileIssue, Comment, Read, At
    <3>2. Sent \/ Refused
      BY <2>3, <3>1 DEF Move, CallFails, Then, At
    <3>3. status'[i] \in {"sent", "failed"}
      BY <1>2, <1>8, <3>2 DEF Sent, Refused
    <3>4. ticket.comments[i] <= unsure[i] + 1
      BY <1>2, <1>5 DEF CommentedOnce
    <3> QED
      BY <1>2, <1>5, <2>1, <3>3, <3>4 DEF CommentedOnce
  <2> QED
    BY <2>2, <2>3
<1> QED
  BY <1>6, <1>7, <1>8

-----------------------------------------------------------------------------
(* Call by call.                                                           *)

\* What a call has to leave for the invariant to hold.
LEMMA CallInv ==
  ASSUME DeliveryInv, Calls, Grows, DeliveryTypeOK', PostedTypeOK', InHand', ReviewsRight', IssuesRight',
         OthersRight', \A i \in Ids : status' = Sends /\ i = step.id => Effect(i)'
  PROVE  DeliveryInv'
  BY CallAllowed, CallDone, CallComments DEF DeliveryInv

LEMMA WorldStays ==
  ASSUME DeliveryInv, UNCHANGED <<mode, approved, world>>
  PROVE  PostedTypeOK' /\ ReviewsRight' /\ IssuesRight' /\ OthersRight' /\ Grows
<1> USE DEF world
<1>1. PostedTypeOK'
  BY DEF DeliveryInv, PostedTypeOK
<1>2. ReviewsRight'
  BY DEF DeliveryInv, ReviewsRight
<1>3. IssuesRight'
  BY DEF DeliveryInv, IssuesRight
<1>4. OthersRight'
  BY DEF DeliveryInv, OthersRight
<1>5. Grows
  BY DEF Grows, FindOwnReview, IssuesOf
<1> QED
  BY <1>1, <1>2, <1>3, <1>4, <1>5

\* The kinds whose calls these are.
LEMMA KindOfCall ==
  ASSUME NEW i \in Ids
  PROVE  /\ "find" \in CallsOf(Actions[i].kind) => Actions[i].kind = "review"
         /\ "put" \in CallsOf(Actions[i].kind) => Actions[i].kind = "review"
         /\ "post" \in CallsOf(Actions[i].kind) => Actions[i].kind = "check"
         /\ \A call \in {"read", "update", "create", "publish", "link"} :
              call \in CallsOf(Actions[i].kind) => Actions[i].kind = "page"
         /\ \A call \in {"search", "file"} : call \in CallsOf(Actions[i].kind) => Actions[i].kind = "issue"
         /\ \A call \in {"comment", "move"} : call \in CallsOf(Actions[i].kind) => Actions[i].kind = "status"
  BY DeliveryAssumption DEF ActionsAssumption, CallsOf, Kinds

\* What is posted of one kind is at most one, so that it is the one that is found.
LEMMA FoundIs ==
  ASSUME NEW S, NEW n \in Nat, S \subseteq 1..n, \A k, l \in S : k = l
  PROVE  /\ S = IF (IF S = {} THEN 0 ELSE Max(S)) = 0 THEN {} ELSE {IF S = {} THEN 0 ELSE Max(S)}
         /\ S = IF (IF S = {} THEN 0 ELSE Min(S)) = 0 THEN {} ELSE {IF S = {} THEN 0 ELSE Min(S)}
         /\ (IF S = {} THEN 0 ELSE Max(S)) \in Nat /\ (IF S = {} THEN 0 ELSE Min(S)) \in Nat
<1>1. CASE S = {}
  BY <1>1
<1>2. CASE S # {}
  <2>1. PICK k \in S : S = {k}
    BY <1>2
  <2>2. k \in Nat /\ k # 0
    BY <2>1
  <2>3. Max(S) = k /\ Min(S) = k
    BY <2>1, <2>2, MaxOfOne
  <2> QED
    BY <1>2, <2>1, <2>2, <2>3
<1> QED
  BY <1>1, <1>2

LEMMA FindReviewInv == ASSUME DeliveryInv, FindReview PROVE DeliveryInv'
<1>1. Calls /\ UNCHANGED <<world, status, raced, lost>>
  BY DEF Calls, FindReview, Read
<1>2. /\ step # Idle /\ step.id \in Ids /\ UNCHANGED <<mode, approved>>
      /\ step \in [id : Ids, next : EveryCall, read : Pages, found : Nat]
  BY <1>1, InHandOnly
<1> DEFINE i == step.id
           there == FindOwnReview(Actions[i].head)
           found == IF there = {} THEN 0 ELSE Max(there)
<1>3. step' = [id |-> i, next |-> "put", read |-> step.read, found |-> found]
  BY DEF FindReview, Known, A
<1>4. there = (IF found = 0 THEN {} ELSE {found}) /\ found \in Nat
  <2>1. Len(reviews) \in Nat /\ there \subseteq 1..Len(reviews)
    BY DEF FindOwnReview, DeliveryInv, PostedTypeOK
  <2>2. \A k, l \in there : k = l
    BY DEF FindOwnReview, DeliveryInv, ReviewsRight
  <2> HIDE DEF there
  <2> QED
    BY <2>1, <2>2, FoundIs
<1>5. Actions[i].kind = "review" /\ status[i] \in {"pending", "approved"}
  BY <1>2, KindOfCall DEF FindReview, Read, DeliveryInv, InHand
<1>6. there' = FindOwnReview(Actions[i].head)
  BY <1>1, <1>3 DEF FindOwnReview, world
<1>7. DeliveryTypeOK'
  <2>1. "put" \in EveryCall
    BY DEF EveryCall, CallsOf, Kinds
  <2> HIDE DEF found
  <2> QED
    BY <1>1, <1>2, <1>3, <1>4, <2>1, CallTypes DEF world, DeliveryInv, DeliveryTypeOK
<1>8. InHand'
  <2>1. step'.id = i /\ step'.next = "put" /\ step'.found = found
    BY <1>3
  <2> HIDE DEF found
  <2> QED
    BY <1>1, <1>4, <1>5, <1>6, <2>1 DEF InHand, CallsOf
<1>9. status' # Sends
  BY <1>1, <1>2, <1>5 DEF Sends, DeliveryInv, DeliveryTypeOK
<1> QED
  BY <1>1, <1>2, <1>7, <1>8, <1>9, WorldStays, CallInv

LEMMA SearchIssueInv == ASSUME DeliveryInv, SearchIssue PROVE DeliveryInv'
<1>1. Calls /\ UNCHANGED <<world, raced, lost>>
  BY DEF Calls, SearchIssue, Read
<1>2. /\ step # Idle /\ step.id \in Ids /\ UNCHANGED <<mode, approved>>
      /\ step \in [id : Ids, next : EveryCall, read : Pages, found : Nat]
  BY <1>1, InHandOnly
<1> DEFINE i == step.id
           there == IssuesOf(Actions[i].print)
           found == IF there = {} THEN 0 ELSE Min(there)
<1>3. status[i] \in {"pending", "approved"} /\ Actions[i].kind = "issue" /\ status \in [Ids -> Statuses]
  BY <1>2, KindOfCall DEF SearchIssue, Read, DeliveryInv, InHand, DeliveryTypeOK
<1>4. CASE Refused
  <2>1. step' = Idle /\ status' # Sends
    BY <1>2, <1>3, <1>4 DEF Refused, Sends
  <2>2. DeliveryTypeOK' /\ InHand'
    BY <1>1, <2>1, CallTypes DEF world, DeliveryInv, DeliveryTypeOK, InHand
  <2> QED
    BY <1>1, <1>2, <2>1, <2>2, WorldStays, CallInv
<1>5. CASE UNCHANGED status /\ Known("file", step.read, found)
  <2>1. there = (IF found = 0 THEN {} ELSE {found}) /\ found \in Nat
    <3>1. Len(issues) \in Nat /\ there \subseteq 1..Len(issues)
      BY DEF IssuesOf, DeliveryInv, PostedTypeOK
    <3>2. \A k, l \in there : k = l
      BY DEF IssuesOf, DeliveryInv, IssuesRight
    <3> HIDE DEF there
    <3> QED
      BY <3>1, <3>2, FoundIs
  <2>2. step' = [id |-> i, next |-> "file", read |-> step.read, found |-> found]
    BY <1>5 DEF Known
  <2>3. "file" \in EveryCall
    BY DEF EveryCall, CallsOf, Kinds
  <2>4. there' = IssuesOf(Actions[i].print)
    BY <1>1, <2>2 DEF IssuesOf, world
  <2>5. step'.id = i /\ step'.next = "file" /\ step'.found = found
    BY <2>2
  <2> HIDE DEF found
  <2>6. DeliveryTypeOK'
    BY <1>1, <1>2, <2>1, <2>2, <2>3, CallTypes DEF world, DeliveryInv, DeliveryTypeOK
  <2>7. InHand'
    BY <1>3, <1>5, <2>1, <2>4, <2>5 DEF InHand, CallsOf
  <2>8. status' # Sends
    BY <1>2, <1>3, <1>5 DEF Sends
  <2> QED
    BY <1>1, <1>2, <2>6, <2>7, <2>8, WorldStays, CallInv
<1> QED
  BY <1>4, <1>5 DEF SearchIssue, A

LEMMA ReadPageInv == ASSUME DeliveryInv, ReadPage \/ Collision PROVE DeliveryInv'
<1>1. Calls /\ UNCHANGED <<world, status, lost>> /\ raced' = {}
  BY DEF Calls, ReadPage, Collision, Read
<1>2. /\ step # Idle /\ step.id \in Ids /\ UNCHANGED <<mode, approved>>
      /\ step \in [id : Ids, next : EveryCall, read : Pages, found : Nat]
  BY <1>1, InHandOnly
<1>3. PICK call \in {"update", "create"} : Known(call, page, step.found)
  BY DEF ReadPage, Collision
<1>4. Actions[step.id].kind = "page" /\ status[step.id] \in {"pending", "approved"}
  BY <1>2, KindOfCall DEF ReadPage, Collision, Read, DeliveryInv, InHand
<1>5. step' = [id |-> step.id, next |-> call, read |-> page, found |-> step.found]
  BY <1>3 DEF Known
<1>6. DeliveryTypeOK'
  <2>1. call \in EveryCall
    BY DEF EveryCall, CallsOf, Kinds
  <2> QED
    BY <1>1, <1>2, <1>5, <2>1, CallTypes DEF world, DeliveryInv, DeliveryTypeOK
<1>7. InHand'
  <2>1. step'.id = step.id /\ step'.next = call /\ step'.read = page
    BY <1>5
  <2>2. HumanContent(page') = HumanContent(step'.read)
    BY <1>1, <2>1 DEF world
  <2> QED
    BY <1>1, <1>4, <2>1, <2>2 DEF InHand, CallsOf
<1>8. status' # Sends
  BY <1>1, <1>2, <1>4 DEF Sends, DeliveryInv, DeliveryTypeOK
<1> QED
  BY <1>1, <1>2, <1>6, <1>7, <1>8, WorldStays, CallInv

LEMMA CallFailsInv == ASSUME DeliveryInv, CallFails \/ LinkPage PROVE DeliveryInv'
<1>1. Calls /\ UNCHANGED <<world, raced, lost>> /\ (Sent \/ Refused \/ Later)
  BY DEF Calls, LinkPage, CallFails, Read
<1>2. step # Idle /\ step.id \in Ids /\ UNCHANGED <<mode, approved>>
  BY <1>1, InHandOnly
<1>3. step' = Idle
  BY <1>1 DEF Sent, Refused, Later
<1>4. DeliveryTypeOK' /\ InHand'
  BY <1>1, <1>3, CallTypes DEF world, DeliveryInv, DeliveryTypeOK, InHand
<1>5. ASSUME NEW i \in Ids, status' = Sends, i = step.id PROVE Effect(i)'
  <2>1. step.next = "link"
    <3>1. ~Refused /\ ~Later
      BY <1>2, <1>5 DEF Refused, Later, Sends, DeliveryInv, DeliveryTypeOK, InHand
    <3> QED
      BY <3>1 DEF CallFails, LinkPage, Read, At
  <2>2. Actions[i].kind = "page" /\ page'.section > 0
    BY <1>1, <1>2, <1>5, <2>1, KindOfCall DEF DeliveryInv, InHand, world
  <2> QED
    BY <2>2 DEF Effect
<1> QED
  BY <1>1, <1>2, <1>4, <1>5, WorldStays, CallInv

\* An attempt that may end here does, whether its reply came or not.
LEMMA LastCall ==
  ASSUME Then(Sent) PROVE step' = Idle /\ InHand'
<1>1. step' = Idle
  BY DEF Then, Sent, Refused, Later
<1> QED
  BY <1>1 DEF InHand

LEMMA PutReviewInv == ASSUME DeliveryInv, PutReview PROVE DeliveryInv'
<1>1. Calls /\ UNCHANGED <<page, issues, ticket, raced, lost>>
  BY DEF Calls, PutReview
<1>2. step.id \in Ids /\ step # Idle /\ UNCHANGED <<mode, options, approved>>
      /\ step \in [id : Ids, next : EveryCall, read : Pages, found : Nat]
  BY <1>1, InHandOnly
<1>3. step' = Idle /\ InHand'
  BY LastCall DEF PutReview
<1>0. PICK i \in Ids : i = step.id
  BY <1>2
<1> DEFINE h == Actions[i].head
           new == [ours |-> TRUE, by |-> i, last |-> i, head |-> h, event |-> EventFor(Actions[i].verdict),
                   body |-> Body(Actions[i].findings), inline |-> Inline(Actions[i].findings)]
<1>4. /\ Actions[i].kind = "review" /\ Allowed(i) /\ status[i] \in {"pending", "approved"}
      /\ FindOwnReview(h) = IF step.found = 0 THEN {} ELSE {step.found}
  BY <1>0, <1>2, KindOfCall DEF PutReview, At, DeliveryInv, InHand
<1>5. reviews' = IF step.found = 0 THEN Append(reviews, new)
                 ELSE [reviews EXCEPT ![step.found] = Edited(reviews[step.found])]
  BY <1>0 DEF PutReview, A
<1>6. reviews \in Seq(Reviewed) /\ ReviewsRight
  BY DEF DeliveryInv, PostedTypeOK
<1>7. new \in Reviewed
  BY <1>2, EventIsOne DEF Reviewed
<1>8. new.ours /\ new.by = i /\ new.last = i /\ new.head = h /\ new.event = EventFor(Actions[i].verdict)
      /\ new.body = Actions[i].findings
  BY DEF Body
<1>9. mode # "auto" /\ EventFor(Actions[i].verdict) # "comment" => i \in approved
  BY <1>2, <1>4, BindingIsHigh DEF Allowed
<1> DEFINE Posted == /\ reviews' \in Seq(Reviewed) /\ ReviewsRight'
                     /\ \A k \in DOMAIN reviews : /\ k \in DOMAIN reviews' /\ reviews'[k].ours = reviews[k].ours
                                                  /\ reviews'[k].head = reviews[k].head
                     /\ \E k \in DOMAIN reviews' : reviews'[k].ours /\ reviews'[k].head = h
<1> HIDE DEF new
<1>10. ASSUME step.found = 0 PROVE Posted
  <2>1. reviews' = Append(reviews, new) /\ FindOwnReview(h) = {}
    BY <1>4, <1>5, <1>10
  <2>2. reviews' \in Seq(Reviewed) /\ Len(reviews') = Len(reviews) + 1 /\ Len(reviews) \in Nat
        /\ DOMAIN reviews' = 1..Len(reviews') /\ DOMAIN reviews = 1..Len(reviews)
    BY <1>6, <1>7, <2>1
  <2>3. /\ \A k \in DOMAIN reviews : reviews'[k] = reviews[k]
        /\ reviews'[Len(reviews')] = new
    BY <1>6, <2>1, <2>2
  <2>4. \A k \in DOMAIN reviews' : k \in DOMAIN reviews \/ k = Len(reviews')
    BY <2>2
  <2>5. \A k \in DOMAIN reviews : ~(reviews[k].ours /\ reviews[k].head = h)
    BY <2>1 DEF FindOwnReview
  <2>6. ReviewsRight'
    <3>1. ASSUME NEW k \in DOMAIN reviews', NEW l \in DOMAIN reviews', reviews'[k].ours, reviews'[l].ours,
                 reviews'[k].head = reviews'[l].head
          PROVE  k = l
      BY <1>6, <1>8, <2>3, <2>4, <2>5, <3>1 DEF ReviewsRight
    <3>2. ASSUME NEW k \in DOMAIN reviews', reviews'[k].ours
          PROVE  Actions[reviews'[k].last].findings \subseteq reviews'[k].body
      BY <1>6, <1>8, <2>3, <2>4, <3>2 DEF ReviewsRight
    <3>3. ASSUME mode # "auto", NEW k \in DOMAIN reviews', reviews'[k].event # "comment"
          PROVE  reviews'[k].by \in approved
      BY <1>6, <1>8, <1>9, <2>3, <2>4, <3>3 DEF ReviewsRight
    <3> QED
      BY <1>2, <3>1, <3>2, <3>3 DEF ReviewsRight
  <2>7. \A k \in DOMAIN reviews :
          k \in DOMAIN reviews' /\ reviews'[k].ours = reviews[k].ours /\ reviews'[k].head = reviews[k].head
    BY <2>2, <2>3
  <2>8. Len(reviews') \in DOMAIN reviews' /\ reviews'[Len(reviews')].ours /\ reviews'[Len(reviews')].head = h
    BY <1>8, <2>2, <2>3
  <2> QED
    BY <2>2, <2>6, <2>7, <2>8
<1>11. ASSUME step.found # 0 PROVE Posted
  <2> DEFINE f == step.found
             changed == Edited(reviews[f])
  <2>1. f \in DOMAIN reviews /\ reviews[f].ours /\ reviews[f].head = h /\ FindOwnReview(h) = {f}
    BY <1>4, <1>11 DEF FindOwnReview
  <2>2. /\ changed.ours /\ changed.head = h /\ changed.last = i /\ changed.by = reviews[f].by
        /\ changed.event = reviews[f].event /\ changed.body = Actions[i].findings
    BY <1>0, <2>1 DEF Edited, Body, A
  <2>3. changed \in Reviewed
    <3>1. reviews[f] \in Reviewed
      BY <1>6, <2>1
    <3> QED
      BY <1>0, <3>1 DEF Edited, Reviewed, A
  <2>4. reviews' = [reviews EXCEPT ![f] = changed]
    BY <1>5, <1>11
  <2> HIDE DEF changed, f
  <2>5. DOMAIN reviews' = DOMAIN reviews /\ reviews' \in Seq(Reviewed) /\ reviews'[f] = changed
        /\ \A k \in DOMAIN reviews : k # f => reviews'[k] = reviews[k]
    BY <1>6, <2>1, <2>3, <2>4
  <2>6. \A k \in DOMAIN reviews :
          /\ reviews'[k].ours = reviews[k].ours /\ reviews'[k].head = reviews[k].head
          /\ reviews'[k].event = reviews[k].event /\ reviews'[k].by = reviews[k].by
    <3>1. reviews[f].ours = TRUE /\ changed.ours = TRUE
      <4>1. reviews[f].ours \in BOOLEAN /\ changed.ours \in BOOLEAN
        BY <1>6, <2>1, <2>3 DEF Reviewed
      <4> QED
        BY <2>1, <2>2, <4>1
    <3> QED
      BY <2>1, <2>2, <2>5, <3>1
  <2>7. ReviewsRight'
    <3>1. ASSUME NEW k \in DOMAIN reviews', NEW l \in DOMAIN reviews', reviews'[k].ours, reviews'[l].ours,
                 reviews'[k].head = reviews'[l].head
          PROVE  k = l
      BY <1>6, <2>5, <2>6, <3>1 DEF ReviewsRight
    <3>2. ASSUME NEW k \in DOMAIN reviews', reviews'[k].ours
          PROVE  Actions[reviews'[k].last].findings \subseteq reviews'[k].body
      BY <1>6, <2>2, <2>5, <3>2 DEF ReviewsRight
    <3>3. ASSUME mode # "auto", NEW k \in DOMAIN reviews', reviews'[k].event # "comment"
          PROVE  reviews'[k].by \in approved
      BY <1>6, <2>5, <2>6, <3>3 DEF ReviewsRight
    <3> QED
      BY <1>2, <3>1, <3>2, <3>3 DEF ReviewsRight
  <2>8. f \in DOMAIN reviews' /\ reviews'[f].ours /\ reviews'[f].head = h
    BY <2>1, <2>2, <2>5
  <2> QED
    BY <2>5, <2>6, <2>7, <2>8
<1>12. Posted
  BY <1>10, <1>11
<1>13. Grows
  <2>1. ASSUME NEW g \in Ids, FindOwnReview(Actions[g].head) # {} PROVE FindOwnReview(Actions[g].head)' # {}
    BY <1>12, <2>1 DEF FindOwnReview
  <2> QED
    BY <1>1, <2>1 DEF Grows, IssuesOf
<1>14. PostedTypeOK' /\ IssuesRight' /\ OthersRight'
  <2>1. PostedTypeOK' /\ IssuesRight'
    BY <1>1, <1>2, <1>12 DEF DeliveryInv, PostedTypeOK, IssuesRight
  <2>2. OthersRight'
    BY <1>1, <1>2 DEF DeliveryInv, OthersRight
  <2> QED
    BY <2>1, <2>2
<1>15. DeliveryTypeOK'
  BY <1>1, <1>3, CallTypes DEF DeliveryInv, DeliveryTypeOK
<1>16. Effect(i)'
  BY <1>4, <1>12 DEF Effect, FindOwnReview
<1> QED
  BY <1>0, <1>1, <1>3, <1>12, <1>13, <1>14, <1>15, <1>16, CallInv

LEMMA FileIssueInv == ASSUME DeliveryInv, FileIssue PROVE DeliveryInv'
<1>1. Calls /\ UNCHANGED <<reviews, page, ticket, raced, lost>>
  BY DEF Calls, FileIssue
<1>2. step.id \in Ids /\ step # Idle /\ UNCHANGED <<mode, options, approved>>
      /\ step \in [id : Ids, next : EveryCall, read : Pages, found : Nat]
  BY <1>1, InHandOnly
<1>0. PICK i \in Ids : i = step.id
  BY <1>2
<1>3. step' = Idle /\ InHand'
  BY LastCall DEF FileIssue
<1> DEFINE p == Actions[i].print
           Rows == [by : Ids, print : {Actions[j].print : j \in Ids}, comments : Nat]
           new == [by |-> i, print |-> p, comments |-> 0]
<1>4. /\ Actions[i].kind = "issue" /\ Allowed(i) /\ status[i] \in {"pending", "approved"}
      /\ IssuesOf(p) = IF step.found = 0 THEN {} ELSE {step.found}
  BY <1>0, <1>2, KindOfCall DEF FileIssue, At, DeliveryInv, InHand
<1>5. issues' = IF step.found = 0 THEN Append(issues, new) ELSE [issues EXCEPT ![step.found].comments = @ + 1]
  BY <1>0 DEF FileIssue, A
<1>17. issues \in Seq(Rows)
  BY DEF DeliveryInv, PostedTypeOK
<1>6. new \in Rows /\ new.by = i /\ new.print = p
  OBVIOUS
<1>7. mode # "auto" => i \in approved
  BY <1>2, <1>4, BindingIsHigh DEF Allowed
<1>8. IssuesRight
  BY DEF DeliveryInv
<1> DEFINE Filed == /\ issues' \in Seq(Rows) /\ IssuesRight'
                    /\ \A k \in DOMAIN issues : k \in DOMAIN issues' /\ issues'[k].print = issues[k].print
                    /\ \E k \in DOMAIN issues' : issues'[k].print = p
<1>9. ASSUME step.found = 0 PROVE Filed
  <2> HIDE DEF new, Rows, p
  <2>1. /\ issues' \in Seq(Rows) /\ issues'[Len(issues')] = new /\ Len(issues') \in DOMAIN issues'
        /\ \A k \in DOMAIN issues : k \in DOMAIN issues' /\ issues'[k] = issues[k]
        /\ \A k \in DOMAIN issues' : k \in DOMAIN issues \/ k = Len(issues')
    BY <1>5, <1>6, <1>9, <1>17
  <2>2. \A k \in DOMAIN issues : issues[k].print # p
    BY <1>4, <1>9 DEF IssuesOf
  <2>3. IssuesRight'
    BY <1>2, <1>6, <1>7, <1>8, <2>1, <2>2 DEF IssuesRight
  <2> QED
    BY <1>6, <2>1, <2>3
<1>10. ASSUME step.found # 0 PROVE Filed
  <2> DEFINE f == step.found
             changed == [issues[f] EXCEPT !.comments = @ + 1]
  <2>0. f \in IssuesOf(p)
    BY <1>4, <1>10
  <2>1. f \in DOMAIN issues /\ issues[f].print = p /\ issues[f] \in Rows
    <3>1. f \in DOMAIN issues /\ issues[f].print = p
      BY <2>0 DEF IssuesOf
    <3> HIDE DEF f, Rows
    <3>2. issues[f] \in Rows
      BY <1>17, <3>1
    <3> QED
      BY <3>1, <3>2
  <2>2. changed \in Rows /\ changed.print = p /\ changed.by = issues[f].by
    <3> HIDE DEF f
    <3>1. issues[f] \in Rows /\ issues[f].print = p
      BY <2>1
    <3>2. changed.print = issues[f].print /\ changed.by = issues[f].by
      BY <3>1
    <3>3. changed \in Rows
      BY <3>1
    <3> QED
      BY <3>1, <3>2, <3>3
  <2>3. issues' = [issues EXCEPT ![f] = changed]
    BY <1>5, <1>10
  <2> HIDE DEF changed, f, Rows, p
  <2>4. /\ DOMAIN issues' = DOMAIN issues /\ issues' \in Seq(Rows)
        /\ \A k \in DOMAIN issues : issues'[k].print = issues[k].print /\ issues'[k].by = issues[k].by
    BY <1>17, <2>1, <2>2, <2>3
  <2>5. IssuesRight'
    BY <1>2, <1>8, <2>4 DEF IssuesRight
  <2> QED
    BY <2>1, <2>4, <2>5
<1>11. Filed
  BY <1>9, <1>10
<1>12. Grows
  <2>1. ASSUME NEW g \in Ids, IssuesOf(Actions[g].print) # {} PROVE IssuesOf(Actions[g].print)' # {}
    BY <1>11, <2>1 DEF IssuesOf
  <2> QED
    BY <1>1, <2>1 DEF Grows, FindOwnReview
<1>13. ReviewsRight' /\ OthersRight'
  <2>1. ReviewsRight'
    BY <1>1, <1>2 DEF DeliveryInv, ReviewsRight
  <2>2. OthersRight'
    BY <1>1, <1>2 DEF DeliveryInv, OthersRight
  <2> QED
    BY <2>1, <2>2
<1>14. PostedTypeOK'
  BY <1>1, <1>11 DEF DeliveryInv, PostedTypeOK
<1>15. DeliveryTypeOK'
  BY <1>1, <1>3, CallTypes DEF DeliveryInv, DeliveryTypeOK
<1>16. Effect(i)'
  BY <1>4, <1>11 DEF Effect, IssuesOf
<1> QED
  BY <1>0, <1>1, <1>3, <1>11, <1>12, <1>13, <1>14, <1>15, <1>16, CallInv

\* What only the page or the work item changes.
LEMMA PostsStay ==
  ASSUME DeliveryInv, UNCHANGED <<mode, options, approved, reviews, issues>>
  PROVE  /\ PostedTypeOK' /\ ReviewsRight' /\ IssuesRight'
         /\ (page.section > 0 => page'.section > 0) /\ (\A i \in Ids : ticket.comments[i] > 0 => ticket'.comments[i] > 0)
              => Grows
<1>1. PostedTypeOK'
  BY DEF DeliveryInv, PostedTypeOK
<1>2. ReviewsRight'
  BY DEF DeliveryInv, ReviewsRight
<1>3. IssuesRight'
  BY DEF DeliveryInv, IssuesRight
<1>4. (page.section > 0 => page'.section > 0) /\ (\A i \in Ids : ticket.comments[i] > 0 => ticket'.comments[i] > 0)
        => Grows
  BY DEF Grows, FindOwnReview, IssuesOf
<1> QED
  BY <1>1, <1>2, <1>3, <1>4

\* A call that leads to another, or is the last if its reply is lost.
LEMMA Onward ==
  ASSUME DeliveryInv, Calls, NEW call \in EveryCall, Then(Go(call))
  PROVE  /\ status' # Sends
         /\ \/ step' = Idle
            \/ UNCHANGED status /\ step'.id = step.id /\ step'.next = call
         /\ step' \in [id : Ids, next : EveryCall, read : Pages, found : Nat] \cup {Idle}
<1>1. /\ step.id \in Ids /\ step # Idle
      /\ step \in [id : Ids, next : EveryCall, read : Pages, found : Nat]
  BY InHandOnly
<1>2. status \in [Ids -> Statuses] /\ status[step.id] \in {"pending", "approved"}
  BY <1>1 DEF DeliveryInv, DeliveryTypeOK, InHand
<1>3. CASE Go(call)
  BY <1>1, <1>2, <1>3 DEF Go, Sends
<1>4. CASE Refused \/ Later
  BY <1>1, <1>2, <1>4 DEF Refused, Later, Sends
<1> QED
  BY <1>3, <1>4 DEF Then

LEMMA WritePageInv == ASSUME DeliveryInv, UpdatePage \/ CreatePage PROVE DeliveryInv'
<1>1. Calls /\ WritePage /\ step.next \in {"update", "create"} /\ UNCHANGED <<reviews, issues, ticket, raced>>
  BY DEF Calls, UpdatePage, CreatePage, WritePage, At
<1>2. /\ step.id \in Ids /\ step # Idle /\ UNCHANGED <<mode, options, approved>>
      /\ step \in [id : Ids, next : EveryCall, read : Pages, found : Nat]
  BY <1>1, InHandOnly
<1>3. Actions[step.id].kind = "page" /\ status[step.id] \in {"pending", "approved"}
  BY <1>1, <1>2, KindOfCall DEF DeliveryInv, InHand
<1>4. /\ page' \in Pages /\ page'.section > 0 /\ page'.public = page.public
  <2>1. page' = MergeBody(step.read, A.version)
    BY <1>1 DEF WritePage
  <2>2. step.read \in Pages /\ A.version \in Nat \ {0} /\ page \in Pages
    BY <1>2, DeliveryAssumption DEF A, ActionsAssumption, DeliveryInv, DeliveryTypeOK
  <2> QED
    BY <2>1, <2>2, Merged
<1>5. AfterPage \in EveryCall /\ AfterPage \in {"publish", "link"} /\ (AfterPage = "publish" => Actions[step.id].publish)
  BY DEF AfterPage, EveryCall, CallsOf, Kinds, A
<1>6. /\ status' # Sends
      /\ step' = Idle \/ (UNCHANGED status /\ step'.id = step.id /\ step'.next = AfterPage)
      /\ step' \in [id : Ids, next : EveryCall, read : Pages, found : Nat] \cup {Idle}
  BY <1>1, <1>5, Onward DEF WritePage
<1>7. InHand'
  <2>1. ASSUME step' # Idle PROVE InHand'
    BY <1>3, <1>4, <1>5, <1>6, <2>1 DEF InHand, CallsOf
  <2> QED
    BY <2>1 DEF InHand
<1>8. lost' \subseteq Notes
  <2>1. lost' = (lost \cup HumanContent(page)) \ HumanContent(page')
    BY <1>1 DEF WritePage
  <2> QED
    BY <2>1 DEF HumanContent, DeliveryInv, DeliveryTypeOK, Pages
<1>9. DeliveryTypeOK'
  BY <1>1, <1>4, <1>6, <1>8, CallTypes DEF DeliveryInv, DeliveryTypeOK
<1>10. OthersRight'
  BY <1>1, <1>2, <1>4 DEF DeliveryInv, OthersRight
<1> QED
  BY <1>1, <1>2, <1>4, <1>6, <1>7, <1>9, <1>10, PostsStay, CallInv

LEMMA PublishPageInv == ASSUME DeliveryInv, PublishPage PROVE DeliveryInv'
<1>1. Calls /\ UNCHANGED <<reviews, issues, ticket, raced, lost>> /\ page' = [page EXCEPT !.public = TRUE]
  BY DEF Calls, PublishPage
<1>2. /\ step.id \in Ids /\ step # Idle /\ UNCHANGED <<mode, options, approved>>
  BY <1>1, InHandOnly
<1>3. /\ Actions[step.id].kind = "page" /\ Actions[step.id].publish /\ page.section > 0
      /\ status[step.id] \in {"pending", "approved"} /\ Allowed(step.id)
  BY <1>2, KindOfCall DEF PublishPage, At, DeliveryInv, InHand
<1>4. page' \in Pages /\ page'.section = page.section
  BY <1>1 DEF DeliveryInv, DeliveryTypeOK, Pages
<1>5. "link" \in EveryCall
  BY DEF EveryCall, CallsOf, Kinds
<1>6. /\ status' # Sends
      /\ step' = Idle \/ (UNCHANGED status /\ step'.id = step.id /\ step'.next = "link")
      /\ step' \in [id : Ids, next : EveryCall, read : Pages, found : Nat] \cup {Idle}
  BY <1>1, <1>5, Onward DEF PublishPage
<1>7. InHand'
  <2>1. ASSUME step' # Idle PROVE InHand'
    BY <1>3, <1>4, <1>6, <2>1 DEF InHand, CallsOf
  <2> QED
    BY <2>1 DEF InHand
<1>8. DeliveryTypeOK'
  BY <1>1, <1>4, <1>6, CallTypes DEF DeliveryInv, DeliveryTypeOK
<1>9. OthersRight'
  <2>1. mode # "auto" => step.id \in approved
    BY <1>2, <1>3, BindingIsHigh DEF Allowed
  <2> QED
    BY <1>1, <1>2, <1>3, <2>1 DEF DeliveryInv, OthersRight
<1> QED
  BY <1>1, <1>2, <1>4, <1>6, <1>7, <1>8, <1>9, PostsStay, CallInv

LEMMA CommentInv == ASSUME DeliveryInv, Comment PROVE DeliveryInv'
<1>1. Calls /\ UNCHANGED <<reviews, page, issues, raced, lost>>
      /\ ticket' = [comments |-> [ticket.comments EXCEPT ![step.id] = @ + 1], moved |-> ticket.moved]
  BY DEF Calls, Comment
<1>2. /\ step.id \in Ids /\ step # Idle /\ UNCHANGED <<mode, options, approved>>
      /\ status' \in {status, Sends, Fails}
      /\ step \in [id : Ids, next : EveryCall, read : Pages, found : Nat]
  BY <1>1, InHandOnly
<1>0. PICK i \in Ids : i = step.id
  BY <1>2
<1>3. Actions[i].kind = "status" /\ status[i] \in {"pending", "approved"}
  BY <1>0, <1>2, KindOfCall DEF Comment, At, DeliveryInv, InHand
<1>4. /\ ticket' \in [comments : [Ids -> Nat], moved : BOOLEAN] /\ ticket'.moved = ticket.moved
      /\ ticket'.comments[i] > 0 /\ \A j \in Ids : ticket.comments[j] > 0 => ticket'.comments[j] > 0
  BY <1>0, <1>1 DEF DeliveryInv, DeliveryTypeOK
<1>5. /\ step' = Idle \/ (UNCHANGED status /\ step'.id = step.id /\ step'.next = "move")
      /\ step' \in [id : Ids, next : EveryCall, read : Pages, found : Nat] \cup {Idle}
  <2>1. Then(Go("move")) \/ Then(Sent)
    BY DEF Comment
  <2>2. "move" \in EveryCall
    BY DEF EveryCall, CallsOf, Kinds
  <2> QED
    BY <1>1, <2>1, <2>2, Onward, LastCall
<1>6. InHand'
  <2>1. ASSUME step' # Idle PROVE InHand'
    BY <1>0, <1>3, <1>4, <1>5, <2>1 DEF InHand, CallsOf
  <2> QED
    BY <2>1 DEF InHand
<1>7. DeliveryTypeOK'
  BY <1>1, <1>4, <1>5, CallTypes DEF DeliveryInv, DeliveryTypeOK
<1>8. OthersRight'
  BY <1>1, <1>2, <1>4 DEF DeliveryInv, OthersRight
<1>9. Effect(i)'
  BY <1>3, <1>4 DEF Effect
<1> QED
  BY <1>0, <1>1, <1>2, <1>4, <1>6, <1>7, <1>8, <1>9, PostsStay, CallInv

LEMMA MoveInv == ASSUME DeliveryInv, Move PROVE DeliveryInv'
<1>1. Calls /\ UNCHANGED <<reviews, page, issues, raced, lost>> /\ ticket' = [ticket EXCEPT !.moved = TRUE]
  BY DEF Calls, Move
<1>2. step.id \in Ids /\ step # Idle /\ UNCHANGED <<mode, options, approved>>
  BY <1>1, InHandOnly
<1>0. PICK i \in Ids : i = step.id
  BY <1>2
<1>3. /\ Actions[i].kind = "status" /\ status[i] \in {"pending", "approved"} /\ Allowed(i)
      /\ ticket.comments[i] > 0
  BY <1>0, <1>2, KindOfCall DEF Move, At, DeliveryInv, InHand
<1>4. /\ ticket' \in [comments : [Ids -> Nat], moved : BOOLEAN] /\ ticket'.comments = ticket.comments
  BY <1>1 DEF DeliveryInv, DeliveryTypeOK
<1>5. step' = Idle /\ InHand'
  BY LastCall DEF Move
<1>6. DeliveryTypeOK'
  BY <1>1, <1>4, <1>5, CallTypes DEF DeliveryInv, DeliveryTypeOK
<1>7. OthersRight'
  <2>1. mode # "auto" => i \in approved
    BY <1>2, <1>3, BindingIsHigh DEF Allowed
  <2> QED
    BY <1>1, <1>2, <1>3, <2>1 DEF DeliveryInv, OthersRight
<1>8. Effect(i)'
  BY <1>3, <1>4 DEF Effect
<1> QED
  BY <1>0, <1>1, <1>2, <1>4, <1>5, <1>6, <1>7, <1>8, PostsStay, CallInv

\* Every call keeps the invariant.
LEMMA CallsInv == ASSUME DeliveryInv, Calls PROVE DeliveryInv'
  BY FindReviewInv, PutReviewInv, ReadPageInv, WritePageInv, PublishPageInv, SearchIssueInv,
     FileIssueInv, CommentInv, MoveInv, CallFailsInv DEF Calls

-----------------------------------------------------------------------------
(* The other steps.                                                        *)

LEMMA DeliveryInitInv == DeliveryInit => DeliveryInv
<1> SUFFICES ASSUME DeliveryInit PROVE DeliveryInv
  OBVIOUS
<1>1. mode \in AutonomyModes /\ approved = {} /\ step = Idle /\ ticket = [comments |-> [i \in Ids |-> 0], moved |-> FALSE]
      /\ unsure = [i \in Ids |-> 0] /\ page = EmptyPage /\ raced = {} /\ lost = {}
  BY DeliveryAssumption DEF DeliveryInit
<1>2. PICK planned \in Plans : status = [i \in Ids |-> IF i \in planned THEN Disposition(mode, Actions[i]) ELSE "none"]
  BY DEF DeliveryInit
<1>3. \A i \in Ids : status[i] \in {"none", "skipped", "awaiting", "pending"} /\ Allowed(i)
  <2> TAKE i \in Ids
  <2>1. status[i] = Disposition(mode, Actions[i]) \/ status[i] = "none"
    BY <1>2
  <2>2. /\ Disposition(mode, Actions[i]) \in {"none", "skipped", "awaiting", "pending"}
        /\ mode = "dry_run" <=> Disposition(mode, Actions[i]) = "skipped"
        /\ Disposition(mode, Actions[i]) = "pending" /\ BaselineRisk(Actions[i]) = "high" => mode = "auto"
    BY <1>1, Disposed
  <2> QED
    BY <2>1, <2>2 DEF Allowed
<1>4. status \in [Ids -> Statuses]
  BY <1>2, <1>3 DEF Statuses
<1>5. page \in Pages /\ ~page.public
  BY <1>1 DEF EmptyPage, Pages
<1>6. DeliveryTypeOK
  BY <1>1, <1>4, <1>5 DEF DeliveryTypeOK
<1>7. PostedTypeOK /\ ReviewsRight /\ IssuesRight
  BY DEF DeliveryInit, PostedTypeOK, ReviewsRight, IssuesRight
<1>8. OthersRight
  BY <1>1, <1>5 DEF DeliveryInit, OthersRight
<1>9. \A i \in Ids : Done(i) /\ CommentedOnce(i)
  BY <1>1, <1>3 DEF Done, CommentedOnce, Idle
<1> QED
  BY <1>1, <1>3, <1>6, <1>7, <1>8, <1>9 DEF DeliveryInv, InHand

\* What is done and allowed stays so while nothing is done; people may approve more.
LEMMA NothingDone ==
  ASSUME DeliveryInv, UNCHANGED <<mode, options, world>>, approved \subseteq approved'
  PROVE  PostedTypeOK' /\ ReviewsRight' /\ IssuesRight' /\ OthersRight' /\ Grows
<1> USE DEF world
<1>1. PostedTypeOK'
  BY DEF DeliveryInv, PostedTypeOK
<1>2. ReviewsRight'
  BY DEF DeliveryInv, ReviewsRight
<1>3. IssuesRight'
  BY DEF DeliveryInv, IssuesRight
<1>4. OthersRight'
  BY DEF DeliveryInv, OthersRight
<1>5. Grows
  BY DEF Grows, FindOwnReview, IssuesOf
<1> QED
  BY <1>1, <1>2, <1>3, <1>4, <1>5

LEMMA TakeInv == ASSUME DeliveryInv, NEW i \in Ids, Take(i) PROVE DeliveryInv'
<1>1. /\ UNCHANGED <<mode, options, status, approved, world, unsure, raced, lost>>
      /\ status[i] \in {"pending", "approved"} /\ step = Idle
  BY DEF Take
<1> DEFINE first == FirstCall[Actions[i].kind]
<1>2. /\ first \in CallsOf(Actions[i].kind) /\ first \in EveryCall
      /\ first \in {"find", "post", "read", "search", "comment"}
  BY DeliveryAssumption DEF ActionsAssumption, FirstCall, CallsOf, EveryCall, Kinds
<1>3. step' = [id |-> i, next |-> first, read |-> EmptyPage, found |-> 0]
  BY DEF Take
<1> HIDE DEF first
<1>4. step'.id = i /\ step'.next = first /\ step' # Idle
  BY <1>2, <1>3 DEF Idle
<1>5. InHand'
  BY <1>1, <1>2, <1>4 DEF InHand
<1>6. DeliveryTypeOK'
  <2>1. EmptyPage \in Pages
    BY DEF EmptyPage, Pages
  <2>2. step' \in [id : Ids, next : EveryCall, read : Pages, found : Nat]
    BY <1>2, <1>3, <2>1
  <2> QED
    BY <1>1, <2>2 DEF DeliveryInv, DeliveryTypeOK, world
<1>7. ASSUME NEW j \in Ids PROVE Allowed(j)' /\ Done(j)' /\ CommentedOnce(j)'
  <2>1. BaselineRisk(Actions[j])' = BaselineRisk(Actions[j])
    BY <1>1, OptionsStay
  <2>2. Allowed(j)'
    BY <1>1, <2>1 DEF DeliveryInv, Allowed
  <2>3. Done(j)'
    BY <1>1, EffectStays, NothingDone DEF DeliveryInv, Done
  <2>4. CommentedOnce(j)'
    BY <1>1, <1>2, <1>4 DEF DeliveryInv, CommentedOnce, world, Idle
  <2> QED
    BY <2>2, <2>3, <2>4
<1> QED
  BY <1>1, <1>5, <1>6, <1>7, NothingDone DEF DeliveryInv

\* A status is given to an action that is not in hand, and that nobody has sent.
LEMMA StatusInv ==
  ASSUME DeliveryInv, NEW i \in Ids, NEW given \in Statuses \ {"sent"}, status[i] \in {"none", "awaiting"},
         status' = [status EXCEPT ![i] = given],
         approved' = approved \/ approved' = approved \cup {i}, Allowed(i)',
         UNCHANGED <<mode, options, tries, step, world, unsure, raced, lost>>
  PROVE  DeliveryInv'
<1>1. status \in [Ids -> Statuses] /\ step \in [id : Ids, next : EveryCall, read : Pages, found : Nat] \cup {Idle}
  BY DEF DeliveryInv, DeliveryTypeOK
<1>2. \A j \in Ids : j # i => status'[j] = status[j]
  BY <1>1
<1>3. status'[i] = given /\ status' \in [Ids -> Statuses]
  BY <1>1
<1>4. DeliveryTypeOK'
  BY <1>3 DEF DeliveryInv, DeliveryTypeOK, world
<1>5. ASSUME NEW j \in Ids PROVE Allowed(j)' /\ Done(j)' /\ CommentedOnce(j)'
  <2>1. BaselineRisk(Actions[j])' = BaselineRisk(Actions[j])
    BY OptionsStay
  <2>2. Allowed(j)'
    <3>1. CASE j = i
      BY <3>1
    <3>2. CASE j # i
      BY <1>2, <2>1, <3>2 DEF DeliveryInv, Allowed
    <3> QED
      BY <3>1, <3>2
  <2>3. Done(j)'
    <3>1. status'[j] = "sent" => status[j] = "sent"
      BY <1>2, <1>3
    <3> QED
      BY <3>1, EffectStays, NothingDone DEF DeliveryInv, Done
  <2>4. CommentedOnce(j)'
    <3>1. status[j] \in {"sent", "failed"} => status'[j] = status[j]
      BY <1>2
    <3>2. ticket.comments[j] \in Nat /\ unsure[j] \in Nat /\ CommentedOnce(j) /\ UNCHANGED <<ticket, unsure, step>>
      BY DEF DeliveryInv, DeliveryTypeOK, world
    <3> QED
      BY <3>1, <3>2 DEF CommentedOnce
  <2> QED
    BY <2>2, <2>3, <2>4
<1>6. InHand'
  <2>1. ASSUME step # Idle PROVE InHand'
    <3>1. step.id \in Ids /\ step.id # i
      BY <1>1, <2>1 DEF DeliveryInv, InHand
    <3>2. status'[step.id] = status[step.id]
      BY <1>2, <3>1
    <3> QED
      BY <3>2 DEF DeliveryInv, InHand, FindOwnReview, IssuesOf, world
  <2> QED
    BY <2>1 DEF InHand
<1> QED
  BY <1>4, <1>5, <1>6, NothingDone DEF DeliveryInv

LEMMA DecideInv ==
  ASSUME DeliveryInv, NEW i \in Ids, NEW verdict \in BOOLEAN, Decide(i, verdict)
  PROVE  DeliveryInv'
<1>1. PICK given \in {"approved", "rejected"} : status' = [status EXCEPT ![i] = given]
                                             /\ (given = "approved" => approved' = approved \cup {i})
  BY DEF Decide
<1>2. status'[i] = given /\ status[i] = "awaiting" /\ UNCHANGED mode
  BY <1>1 DEF Decide, DeliveryInv, DeliveryTypeOK
<1>3. Allowed(i)'
  <2>1. mode # "dry_run"
    BY <1>2 DEF DeliveryInv, Allowed
  <2> QED
    BY <1>1, <1>2, <2>1 DEF Allowed
<1> QED
  BY <1>1, <1>2, <1>3, StatusInv DEF Decide, Statuses

LEMMA AbandonInv == ASSUME DeliveryInv, NEW i \in Ids, Abandon(i) PROVE DeliveryInv'
<1> DEFINE given == Disposition(mode, Actions[i])
<1>1. /\ status' = [status EXCEPT ![i] = given] /\ status[i] = "none"
      /\ UNCHANGED <<mode, options, approved, tries, step, world, unsure, raced, lost>>
  BY DEF Abandon
<1>2. /\ given \in {"none", "skipped", "awaiting", "pending"} /\ (mode = "dry_run" <=> given = "skipped")
      /\ (given = "pending" /\ BaselineRisk(Actions[i]) = "high" => mode = "auto")
  BY Disposed DEF DeliveryInv, DeliveryTypeOK
<1>3. BaselineRisk(Actions[i])' = BaselineRisk(Actions[i])
  BY <1>1, OptionsStay
<1>4. status'[i] = given
  BY <1>1 DEF DeliveryInv, DeliveryTypeOK
<1> HIDE DEF given
<1>5. Allowed(i)'
  BY <1>1, <1>2, <1>3, <1>4 DEF Allowed
<1> QED
  BY <1>1, <1>2, <1>5, StatusInv DEF Statuses

\* What people do to a page: a note comes in, or a marker goes.
LEMMA Edited1 ==
  ASSUME page \in Pages, raced \subseteq Notes, Edits
  PROVE  /\ page' \in Pages /\ raced' \subseteq Notes /\ raced \subseteq raced'
         /\ page'.section = page.section /\ page'.public = page.public
         /\ HumanContent(page') \subseteq HumanContent(page) \cup raced'
<1>1. ASSUME NEW n \in Notes, raced' = raced \cup {n}, page' = NotedAbove(n)
      PROVE  /\ page' \in Pages /\ page'.section = page.section /\ page'.public = page.public
             /\ HumanContent(page') \subseteq HumanContent(page) \cup raced'
  BY <1>1 DEF NotedAbove, Pages, HumanContent
<1>2. ASSUME NEW n \in Notes, raced' = raced \cup {n}, page' = [page EXCEPT !.below = @ \cup {n}]
      PROVE  /\ page' \in Pages /\ page'.section = page.section /\ page'.public = page.public
             /\ HumanContent(page') \subseteq HumanContent(page) \cup raced'
  BY <1>2 DEF Pages, HumanContent
<1>3. ASSUME page' = [page EXCEPT !.marks = "begin"]
      PROVE  /\ page' \in Pages /\ page'.section = page.section /\ page'.public = page.public
             /\ HumanContent(page') \subseteq HumanContent(page)
  BY <1>3 DEF Pages, HumanContent
<1>4. CASE UNCHANGED raced /\ page' = [page EXCEPT !.marks = "begin"]
  BY <1>3, <1>4
<1>5. CASE \E n \in Notes : raced' = raced \cup {n} /\ (page' = NotedAbove(n) \/ page' = [page EXCEPT !.below = @ \cup {n}])
  BY <1>1, <1>2, <1>5
<1> QED
  BY <1>4, <1>5 DEF Edits

LEMMA EditPageInv == ASSUME DeliveryInv, EditPage PROVE DeliveryInv'
<1>1. UNCHANGED <<mode, options, approved, tries, reviews, issues, ticket, status, step, unsure, lost>>
  BY DEF EditPage, Keep
<1>2. /\ page' \in Pages /\ raced' \subseteq Notes /\ raced \subseteq raced'
      /\ page'.section = page.section /\ page'.public = page.public
      /\ HumanContent(page') \subseteq HumanContent(page) \cup raced'
  BY Edited1 DEF EditPage, DeliveryInv, DeliveryTypeOK
<1>3. PostedTypeOK' /\ ReviewsRight' /\ IssuesRight' /\ Grows
  BY <1>1, <1>2, PostsStay
<1>4. DeliveryTypeOK'
  BY <1>1, <1>2 DEF DeliveryInv, DeliveryTypeOK
<1>5. OthersRight'
  BY <1>1, <1>2 DEF DeliveryInv, OthersRight
<1>6. ASSUME NEW j \in Ids PROVE Allowed(j)' /\ Done(j)' /\ CommentedOnce(j)'
  <2>1. BaselineRisk(Actions[j])' = BaselineRisk(Actions[j])
    BY <1>1, OptionsStay
  <2>2. Allowed(j)'
    BY <1>1, <2>1 DEF DeliveryInv, Allowed
  <2>3. Done(j)'
    BY <1>1, <1>3, EffectStays DEF DeliveryInv, Done
  <2>4. CommentedOnce(j)'
    BY <1>1 DEF DeliveryInv, CommentedOnce
  <2> QED
    BY <2>2, <2>3, <2>4
<1>7. InHand'
  <2>1. HumanContent(page) \subseteq HumanContent(step.read) \cup raced
          => HumanContent(page') \subseteq HumanContent(step'.read) \cup raced'
    BY <1>1, <1>2
  <2> QED
    BY <1>1, <1>2, <2>1 DEF DeliveryInv, InHand, FindOwnReview, IssuesOf
<1> QED
  BY <1>3, <1>4, <1>5, <1>6, <1>7 DEF DeliveryInv

LEMMA ReviewsInv == ASSUME DeliveryInv, NEW i \in Ids, Reviews(Actions[i].head) PROVE DeliveryInv'
<1> DEFINE new == [ours |-> FALSE, by |-> 0, last |-> 0, head |-> Actions[i].head, event |-> "comment",
                   body |-> {}, inline |-> {}]
<1>1. /\ UNCHANGED <<mode, options, approved, tries, page, issues, ticket, status, step, unsure, raced, lost>>
      /\ reviews' = Append(reviews, new)
  BY DEF Reviews, Keep
<1>2. new \in Reviewed /\ new.ours = FALSE /\ new.event = "comment"
  BY DEF Reviewed
<1>3. reviews \in Seq(Reviewed) /\ ReviewsRight
  BY DEF DeliveryInv, PostedTypeOK
<1> HIDE DEF new
<1>4. /\ reviews' \in Seq(Reviewed) /\ reviews'[Len(reviews')] = new
      /\ \A k \in DOMAIN reviews : k \in DOMAIN reviews' /\ reviews'[k] = reviews[k]
      /\ \A k \in DOMAIN reviews' : k \in DOMAIN reviews \/ k = Len(reviews')
  BY <1>1, <1>2, <1>3
<1>5. \A k \in DOMAIN reviews' : reviews'[k].ours => k \in DOMAIN reviews
  BY <1>2, <1>4
<1>6. ReviewsRight'
  BY <1>1, <1>2, <1>3, <1>4, <1>5 DEF ReviewsRight
<1>7. \A j \in Ids : FindOwnReview(Actions[j].head)' = FindOwnReview(Actions[j].head)
  <2> TAKE j \in Ids
  <2> QED
    BY <1>4, <1>5 DEF FindOwnReview
<1>8. Grows
  BY <1>1, <1>7 DEF Grows, IssuesOf
<1>9. PostedTypeOK' /\ DeliveryTypeOK'
  BY <1>1, <1>4 DEF DeliveryInv, PostedTypeOK, DeliveryTypeOK
<1>10. IssuesRight' /\ OthersRight'
  BY <1>1 DEF DeliveryInv, IssuesRight, OthersRight
<1>11. ASSUME NEW j \in Ids PROVE Allowed(j)' /\ Done(j)' /\ CommentedOnce(j)'
  <2>1. BaselineRisk(Actions[j])' = BaselineRisk(Actions[j])
    BY <1>1, OptionsStay
  <2>2. Allowed(j)'
    BY <1>1, <2>1 DEF DeliveryInv, Allowed
  <2>3. Done(j)'
    BY <1>1, <1>8, EffectStays DEF DeliveryInv, Done
  <2>4. CommentedOnce(j)'
    BY <1>1 DEF DeliveryInv, CommentedOnce
  <2> QED
    BY <2>2, <2>3, <2>4
<1>12. InHand'
  <2>1. ASSUME step # Idle PROVE InHand'
    <3>1. step.id \in Ids
      BY <2>1 DEF DeliveryInv, DeliveryTypeOK
    <3>2. PICK j \in Ids : j = step.id
      BY <3>1
    <3>3. FindOwnReview(Actions[step.id].head)' = FindOwnReview(Actions[step.id].head)
      BY <1>1, <1>4, <1>5 DEF FindOwnReview
    <3> QED
      BY <1>1, <2>1, <3>3 DEF DeliveryInv, InHand, IssuesOf
  <2> QED
    BY <1>1, <2>1 DEF InHand
<1> QED
  BY <1>6, <1>9, <1>10, <1>11, <1>12 DEF DeliveryInv

\* Every step keeps the invariant.
LEMMA DeliveryStepInv == DeliveryInv /\ [DeliveryNext]_deliveryVars => DeliveryInv'
<1> SUFFICES ASSUME DeliveryInv, [DeliveryNext]_deliveryVars PROVE DeliveryInv'
  OBVIOUS
<1>1. ASSUME NEW i \in Ids, Take(i) \/ Decide(i, TRUE) \/ Decide(i, FALSE) \/ Abandon(i) PROVE DeliveryInv'
  BY <1>1, TakeInv, DecideInv, AbandonInv
<1>2. CASE UNCHANGED deliveryVars
  <2> USE <1>2 DEF deliveryVars
  <2>1. DeliveryTypeOK' /\ PostedTypeOK'
    BY DEF DeliveryInv, DeliveryTypeOK, PostedTypeOK
  <2>2. ReviewsRight' /\ IssuesRight' /\ OthersRight' /\ Grows
    BY NothingDone DEF world
  <2>3. ASSUME NEW j \in Ids PROVE Allowed(j)' /\ Done(j)' /\ CommentedOnce(j)'
    <3>1. BaselineRisk(Actions[j])' = BaselineRisk(Actions[j])
      BY OptionsStay
    <3>2. Allowed(j)'
      BY <3>1 DEF DeliveryInv, Allowed
    <3>3. Done(j)'
      BY <2>2, EffectStays DEF DeliveryInv, Done
    <3>4. CommentedOnce(j)'
      BY DEF DeliveryInv, CommentedOnce
    <3> QED
      BY <3>2, <3>3, <3>4
  <2>4. InHand'
    BY DEF DeliveryInv, InHand, FindOwnReview, IssuesOf
  <2> QED
    BY <2>1, <2>2, <2>3, <2>4 DEF DeliveryInv
<1> QED
  BY <1>1, <1>2, CallsInv, EditPageInv, ReviewsInv DEF DeliveryNext

\* The invariant holds of every behaviour (the whole of Delivery).
THEOREM DeliveryInvariant == DeliverySpec => []DeliveryInv
<1>1. DeliveryInit => DeliveryInv
  BY DeliveryInitInv
<1>2. DeliveryInv /\ [DeliveryNext]_deliveryVars => DeliveryInv'
  BY DeliveryStepInv
<1> QED
  BY <1>1, <1>2, PTL DEF DeliverySpec

-----------------------------------------------------------------------------
(* What follows.                                                           *)

LEMMA InvOnce == DeliveryInv => OneOfEach
<1> SUFFICES ASSUME DeliveryInv PROVE OneOfEach
  OBVIOUS
<1>1. ASSUME NEW i \in Ids PROVE ticket.comments[i] <= 1 + unsure[i]
  <2>1. ticket.comments[i] \in Nat /\ unsure[i] \in Nat /\ CommentedOnce(i)
    BY DEF DeliveryInv, DeliveryTypeOK
  <2>2. CASE status[i] \in {"sent", "failed"} \/ (step.id = i /\ step.next = "move")
    BY <2>1, <2>2 DEF CommentedOnce
  <2>3. CASE ~(status[i] \in {"sent", "failed"} \/ (step.id = i /\ step.next = "move"))
    BY <2>1, <2>3 DEF CommentedOnce
  <2> QED
    BY <2>2, <2>3
<1> QED
  BY <1>1 DEF DeliveryInv, ReviewsRight, IssuesRight, OneOfEach

\* However often it is tried and whatever replies are lost, there is one review on a
\* commit, one issue for a fingerprint, and a second comment only after a lost reply
\* (github.rs and andare.rs, execute).
THEOREM Once == DeliverySpec => []OneOfEach
<1>1. DeliveryInv => OneOfEach
  BY InvOnce
<1> QED
  BY <1>1, DeliveryInvariant, PTL

\* Nothing that binds others is done without a person's word, unless the mode is
\* `auto` (risk.rs, baseline_risk; autonomy.rs, disposition).
THEOREM Unasked == DeliverySpec => []NothingBindingUnasked
<1>1. DeliveryInv => NothingBindingUnasked
  BY DEF DeliveryInv, ReviewsRight, IssuesRight, OthersRight, NothingBindingUnasked
<1> QED
  BY <1>1, DeliveryInvariant, PTL

\* A target that is reported as delivered has been sent all that was not turned down.
LEMMA DeliveredMeansSent ==
  ASSUME DeliveryInv, NEW i \in Ids, status[i] \notin {"none", "rejected"}, State(Of(TargetOf(i))) = "delivered"
  PROVE  status[i] = "sent"
<1> DEFINE s == Of(TargetOf(i))
<1>1. status[i] \in s
  <2>1. Actions[i].kind \in TargetOf(i)
    <3>1. \E t \in Targets : Actions[i].kind \in t
      BY DeliveryAssumption DEF ActionsAssumption, Targets, Kinds
    <3> QED
      BY <3>1 DEF TargetOf
  <2> QED
    BY <2>1 DEF Of
<1>2. s \subseteq Statuses
  BY DEF Of, DeliveryInv, DeliveryTypeOK
<1>3. \A x \in s : \E j \in Ids : x = status[j]
  BY DEF Of
<1> HIDE DEF s
<1>4. ~Outstanding(s) /\ "failed" \notin s /\ ("skipped" \in s => "sent" \in s)
  BY DEF State, s
<1>5. status[i] \in {"skipped", "sent"}
  BY <1>1, <1>2, <1>4 DEF Outstanding, Statuses
<1>6. ~("skipped" \in s /\ "sent" \in s)
  BY <1>3 DEF DeliveryInv, Allowed
<1> QED
  BY <1>1, <1>4, <1>5, <1>6

LEMMA InvThere == DeliveryInv => DeliveredIsThere
<1> SUFFICES ASSUME DeliveryInv, NEW i \in Ids, status[i] \notin {"none", "rejected"},
                    State(Of(TargetOf(i))) = "delivered"
             PROVE  CASE Actions[i].kind = "review" ->
                           \E k \in DOMAIN reviews :
                             /\ reviews[k].ours /\ reviews[k].head = Actions[i].head
                             /\ Actions[reviews[k].last].findings \subseteq reviews[k].body \cup reviews[k].inline
                      [] Actions[i].kind = "issue" -> \E k \in DOMAIN issues : issues[k].print = Actions[i].print
                      [] Actions[i].kind = "page" -> page.section > 0
                      [] Actions[i].kind = "check" -> FALSE
                      [] OTHER -> ticket.comments[i] > 0
  BY DEF DeliveredIsThere
<1>1. status[i] = "sent" /\ Effect(i) /\ ReviewsRight
  BY DeliveredMeansSent DEF DeliveryInv, Done
<1>2. CASE Actions[i].kind = "review"
  BY <1>1, <1>2 DEF Effect, FindOwnReview, ReviewsRight
<1>3. CASE Actions[i].kind = "issue"
  BY <1>1, <1>3 DEF Effect, IssuesOf
<1>4. CASE Actions[i].kind \in {"page", "status"}
  BY <1>1, <1>4 DEF Effect
<1>5. CASE Actions[i].kind = "check"
  BY <1>1, <1>5 DEF Effect
<1> QED
  BY <1>2, <1>3, <1>4, <1>5, DeliveryAssumption DEF ActionsAssumption, Kinds

\* What is reported as delivered is in the world (report.rs, state; github.rs, compose).
THEOREM Delivered == DeliverySpec => []DeliveredIsThere
<1>1. DeliveryInv => DeliveredIsThere
  BY InvThere
<1> QED
  BY <1>1, DeliveryInvariant, PTL

\* A step takes from a page only what came in since it was read.
LEMMA StepKeepsText == DeliveryInv /\ [DeliveryNext]_deliveryVars => [lost' \subseteq lost \cup raced]_deliveryVars
<1> SUFFICES ASSUME DeliveryInv, [DeliveryNext]_deliveryVars PROVE lost' \subseteq lost \cup raced
  OBVIOUS
<1>1. CASE UpdatePage \/ CreatePage
  <2>1. /\ step.next \in {"update", "create"} /\ page' = MergeBody(step.read, A.version)
        /\ lost' = (lost \cup HumanContent(page)) \ HumanContent(page')
    BY <1>1 DEF UpdatePage, CreatePage, WritePage, At
  <2>2. Calls
    BY <1>1 DEF Calls
  <2>3. /\ step.id \in Ids /\ step # Idle /\ step.read \in Pages
    BY <2>2, InHandOnly
  <2>4. A.version \in Nat \ {0} /\ page \in Pages
    BY <2>3, DeliveryAssumption DEF A, ActionsAssumption, DeliveryInv, DeliveryTypeOK
  <2>5. HumanContent(page') = HumanContent(step.read)
    BY <2>1, <2>3, <2>4, Merged
  <2>6. HumanContent(page) \subseteq HumanContent(step.read) \cup raced
    BY <2>1, <2>3 DEF DeliveryInv, InHand
  <2> QED
    BY <2>1, <2>5, <2>6
<1>2. UNCHANGED lost \/ UpdatePage \/ CreatePage
  <2>1. Calls => UNCHANGED lost \/ UpdatePage \/ CreatePage
    BY DEF Calls, FindReview, PutReview, ReadPage, Collision, PublishPage, LinkPage, SearchIssue,
           FileIssue, Comment, Move, CallFails, Read
  <2>2. ASSUME NEW i \in Ids, Take(i) \/ Decide(i, TRUE) \/ Decide(i, FALSE) \/ Abandon(i) PROVE UNCHANGED lost
    BY <2>2 DEF Take, Decide, Abandon
  <2>3. ASSUME NEW i \in Ids, Reviews(Actions[i].head) PROVE UNCHANGED lost
    BY <2>3 DEF Reviews
  <2>4. EditPage => UNCHANGED lost
    BY DEF EditPage
  <2> QED
    BY <2>1, <2>2, <2>3, <2>4 DEF DeliveryNext, deliveryVars
<1> QED
  BY <1>1, <1>2

\* What a person wrote around the section stays, but for what came in between the
\* read and the write (trama.rs, upsert and merge_body).
THEOREM TextKept == DeliverySpec => HumanTextKept
<1>1. DeliveryInit => DeliveryInv
  BY DeliveryInitInv
<1>2. DeliveryInv /\ [DeliveryNext]_deliveryVars => DeliveryInv'
  BY DeliveryStepInv
<1>3. DeliveryInv /\ [DeliveryNext]_deliveryVars => [lost' \subseteq lost \cup raced]_deliveryVars
  BY StepKeepsText
<1> QED
  BY <1>1, <1>2, <1>3, PTL DEF DeliverySpec, HumanTextKept

-----------------------------------------------------------------------------
(* The review.                                                             *)

\* What is known of a review before, during and after its attempts: the prompt is the
\* same each time, standard depth has one attempt, and a second was bought.
ReviewInv ==
  /\ diff \in Seq(Files) /\ template \in Templates /\ stage \in {"new", "asked", "over"}
  /\ answered = << >> \/ answered \in FindingLists
  /\ depth \in {"summary", "standard", "deep"} /\ attempts \in 0..2
  /\ asked \in Seq({BuildContext})
  /\ stage # "over" => report = NoReport
  /\ stage = "new" => attempts = 0 /\ asked = << >>
  /\ stage = "over" => report.status \in {"skipped", "failed", "done"}
  /\ depth = "standard" => attempts < 2
  /\ report.status = "skipped" => Kept = {} /\ asked = << >>
  /\ report.status \in {"failed", "done"} => report.omitted = Omitted /\ report.reduced = Reduced
  /\ report.status = "done" => Validate(template)
  /\ SevereMeansDeeper
  /\ FindingsAccountedFor

\* A set of natural numbers that is not empty has a smallest element.
LEMMA Smallest ==
  ASSUME NEW S \in SUBSET Nat, S # {}
  PROVE  \E m \in S : \A i \in S : m <= i
<1> DEFINE Less == {ss \in Nat \X Nat : ss[1] < ss[2]}
<1>1. IsWellFoundedOn(Less, Nat)
  BY NatLessThanWellFounded DEF OpToRel
<1>2. \A i, j \in Nat : i < j => <<i, j>> \in Less
  OBVIOUS
<1> HIDE DEF Less
<1>3. PICK m \in S : \A i \in S : <<i, m>> \notin Less
  BY <1>1, WFMin
<1>4. ASSUME NEW i \in S PROVE m <= i
  <2>1. i \in Nat /\ m \in Nat
    OBVIOUS
  <2>2. ~(i < m)
    BY <1>2, <1>3, <2>1
  <2> QED
    BY <2>1, <2>2
<1> QED
  BY <1>4

\* One that has an upper bound has a largest.
LEMMA Largest ==
  ASSUME NEW n \in Nat, NEW S \in SUBSET (0..n), S # {}
  PROVE  \E m \in S : \A i \in S : i <= m
<1> DEFINE T == {n - i : i \in S}
<1>0. \A i \in S : i \in Nat /\ n - i \in Nat /\ n - i \in T
  OBVIOUS
<1>1. T \in SUBSET Nat /\ T # {}
  BY <1>0
<1>2. PICK k \in T : \A j \in T : k <= j
  BY <1>1, Smallest
<1>3. PICK m \in S : k = n - m
  BY <1>2
<1>4. \A i \in S : i <= m
  <2> TAKE i \in S
  <2>1. n - m <= n - i /\ i \in Nat /\ m \in Nat
    BY <1>0, <1>2, <1>3
  <2> QED
    BY <2>1
<1> QED
  BY <1>4


-----------------------------------------------------------------------------
(* The diff that is cut to size.                                           *)

\* The bytes of some sections, as a set: their number is BytesOf.
BytesIn(sections) == UNION {{i} \X (1..SectionBytes(i)) : i \in sections}

LEMMA SectionsTyped ==
  ASSUME diff \in Seq(Files)
  PROVE  /\ IsFiniteSet(DOMAIN diff)
         /\ DOMAIN diff \in SUBSET Nat
         /\ \A i \in DOMAIN diff : SectionBytes(i) \in Nat /\ Interest(diff[i]) \in 1..4
<1>1. DOMAIN diff = 1..Len(diff) /\ Len(diff) \in Nat /\ \A i \in DOMAIN diff : diff[i] \in Files
  OBVIOUS
<1>2. IsFiniteSet(DOMAIN diff)
  BY <1>1, FS_Interval
<1>3. \A i \in DOMAIN diff : SectionBytes(i) \in Nat
  BY <1>1, SizesAssumption DEF SectionBytes, Files
<1>4. \A f \in Files : Interest(f) \in 1..4
  BY DEF Interest, Files
<1> QED
  BY <1>1, <1>2, <1>3, <1>4

LEMMA BytesFinite ==
  ASSUME diff \in Seq(Files), NEW S \in SUBSET DOMAIN diff
  PROVE  IsFiniteSet(BytesIn(S)) /\ BytesOf(S) \in Nat /\ BytesOf(S) = Cardinality(BytesIn(S))
<1> DEFINE Blocks == {{i} \X (1..SectionBytes(i)) : i \in S}
           block == [i \in S |-> {i} \X (1..SectionBytes(i))]
<1>1. IsFiniteSet(S)
  BY SectionsTyped, FS_Subset
<1>2. block \in Surjection(S, Blocks)
  BY DEF Surjection
<1>3. IsFiniteSet(Blocks)
  <2> HIDE DEF Blocks, block
  <2> QED
    BY <1>1, <1>2, FS_Surjection
<1>4. ASSUME NEW i \in S PROVE IsFiniteSet({i} \X (1..SectionBytes(i)))
  <2>1. SectionBytes(i) \in Nat
    BY SectionsTyped
  <2>2. IsFiniteSet({i})
    BY FS_Singleton
  <2>3. IsFiniteSet(1..SectionBytes(i))
    <3>1. 1 \in Int /\ SectionBytes(i) \in Int
      BY <2>1
    <3> QED
      BY <3>1, FS_Interval
  <2> QED
    BY <2>2, <2>3, FS_Product
<1>5. \A T \in Blocks : IsFiniteSet(T)
  BY <1>4
<1>6. IsFiniteSet(UNION Blocks)
  <2> HIDE DEF Blocks
  <2> QED
    BY <1>3, <1>5, FS_UNION
<1> QED
  BY <1>6, FS_CardinalityType DEF BytesIn, BytesOf

\* Fewer sections are no longer.
LEMMA BytesMonotone ==
  ASSUME diff \in Seq(Files), NEW T \in SUBSET DOMAIN diff, NEW S \in SUBSET T
  PROVE  BytesOf(S) <= BytesOf(T)
<1>1. BytesIn(S) \in SUBSET BytesIn(T)
  BY DEF BytesIn
<1>2. Cardinality(BytesIn(S)) <= Cardinality(BytesIn(T))
  BY <1>1, BytesFinite, FS_Subset
<1> QED
  BY <1>2, BytesFinite

\* What is shown fits: of the sections that are left, the one that would go first was
\* kept because it fits with all that would go after it.
LEMMA ShownFits ==
  ASSUME diff \in Seq(Files)
  PROVE  BytesOf(Shown) <= MaxTotalBytes
<1>0. Shown \in SUBSET DOMAIN diff
  BY DEF Shown
<1>1. CASE Shown = {}
  <2>1. BytesIn(Shown) = {}
    BY <1>1 DEF BytesIn
  <2>2. Cardinality({}) = 0
    BY FS_EmptySet
  <2>3. BytesOf(Shown) = Cardinality(BytesIn(Shown))
    BY <1>0, BytesFinite
  <2> QED
    BY <2>1, <2>2, <2>3, SizesAssumption
<1>2. CASE Shown # {}
  <2> DEFINE Ranks == {Interest(diff[i]) : i \in Shown}
  <2>1. Ranks \in SUBSET Nat /\ Ranks # {}
    BY <1>0, <1>2, SectionsTyped
  <2>2. PICK r \in Ranks : \A q \in Ranks : r <= q
    BY <2>1, Smallest
  <2> DEFINE Lasts == {i \in Shown : Interest(diff[i]) = r}
  <2>3. Lasts \in SUBSET (0..Len(diff)) /\ Lasts # {} /\ Len(diff) \in Nat
    BY <1>0, <2>2
  <2>4. PICK m \in Lasts : \A i \in Lasts : i <= m
    <3> HIDE DEF Lasts
    <3> QED
      BY <2>3, Largest
  <2> DEFINE Rest == {j \in DOMAIN diff : m = j \/ GoesBefore(m, j)}
  <2>5. ASSUME NEW j \in Shown PROVE j \in Rest
    <3>1. r <= Interest(diff[j]) /\ Interest(diff[m]) = r /\ m \in Shown
      BY <2>2, <2>4
    <3>2. r \in Nat /\ Interest(diff[j]) \in Nat /\ j \in Nat /\ m \in Nat /\ j \in DOMAIN diff
      BY <1>0, <2>1, <3>1, SectionsTyped
    <3>3. Interest(diff[j]) = r => j <= m
      BY <2>4
    <3> QED
      BY <3>1, <3>2, <3>3 DEF GoesBefore
  <2>6. m \notin Omitted /\ m \in DOMAIN diff
    BY <2>4 DEF Shown
  <2>7. ~(BytesOf(Rest) > MaxTotalBytes)
    BY <2>6 DEF Omitted
  <2>8. Rest \in SUBSET DOMAIN diff /\ Shown \in SUBSET Rest
    BY <2>5
  <2> HIDE DEF Rest
  <2>9. BytesOf(Shown) <= BytesOf(Rest) /\ BytesOf(Rest) \in Nat /\ BytesOf(Shown) \in Nat
    BY <1>0, <2>8, BytesMonotone, BytesFinite
  <2> QED
    BY <2>7, <2>9, SizesAssumption
<1> QED
  BY <1>1, <1>2

\* Its length is that of the whole sections and of the lines that stand for the others.
LEMMA PromptLength ==
  ASSUME diff \in Seq(Files)
  PROVE  BytesOf(Shown \ Reduced) + StatBytes * Cardinality(Reduced) <= MaxTotalBytes
<1>1. Shown \in SUBSET DOMAIN diff /\ Reduced \in SUBSET Shown /\ Reduced \in SUBSET DOMAIN diff
  BY DEF Shown, Reduced
<1>2. BytesIn(Shown) = BytesIn(Shown \ Reduced) \cup BytesIn(Reduced)
  BY <1>1 DEF BytesIn
<1>3. BytesIn(Shown \ Reduced) \cap BytesIn(Reduced) = {}
  BY DEF BytesIn
<1>4. BytesIn(Reduced) = Reduced \X (1..StatBytes)
  <2>1. \A i \in Reduced : SectionBytes(i) = StatBytes
    BY DEF Reduced, SectionBytes
  <2> QED
    BY <2>1 DEF BytesIn
<1>5. IsFiniteSet(Reduced) /\ IsFiniteSet(1..StatBytes) /\ Cardinality(1..StatBytes) = StatBytes
  BY <1>1, SectionsTyped, FS_Subset, FS_Interval, SizesAssumption
<1>6. BytesOf(Reduced) = Cardinality(Reduced) * StatBytes /\ Cardinality(Reduced) \in Nat
  BY <1>1, <1>4, <1>5, FS_Product, FS_CardinalityType, BytesFinite
<1>7. Shown \ Reduced \in SUBSET DOMAIN diff
  BY <1>1
<1>8. BytesOf(Shown) = BytesOf(Shown \ Reduced) + BytesOf(Reduced)
  <2>1. IsFiniteSet(BytesIn(Shown \ Reduced)) /\ IsFiniteSet(BytesIn(Reduced))
    BY <1>1, <1>7, BytesFinite
  <2>2. \A S, T : IsFiniteSet(S) /\ IsFiniteSet(T) /\ S \cap T = {} =>
          Cardinality(S \cup T) = Cardinality(S) + Cardinality(T) - Cardinality({})
    BY FS_Union
  <2>3. Cardinality({}) = 0
    BY FS_EmptySet
  <2>4. Cardinality(BytesIn(Shown)) = Cardinality(BytesIn(Shown \ Reduced)) + Cardinality(BytesIn(Reduced)) - Cardinality({})
    BY <1>2, <1>3, <2>1, <2>2
  <2>5. /\ BytesOf(Shown) = Cardinality(BytesIn(Shown))
        /\ BytesOf(Reduced) = Cardinality(BytesIn(Reduced)) /\ BytesOf(Reduced) \in Nat
        /\ BytesOf(Shown \ Reduced) = Cardinality(BytesIn(Shown \ Reduced)) /\ BytesOf(Shown \ Reduced) \in Nat
    BY <1>1, <1>7, BytesFinite
  <2> QED
    BY <2>3, <2>4, <2>5
<1>9. \A a, b, n, s, t \in Nat : t = a + b /\ b = n * s /\ t <= MaxTotalBytes => a + s * n <= MaxTotalBytes
  OBVIOUS
<1> QED
  BY <1>1, <1>6, <1>7, <1>8, <1>9, ShownFits, BytesFinite, SizesAssumption

LEMMA SamePrompt == ASSUME UNCHANGED <<diff, guide>> PROVE BuildContext' = BuildContext /\ Kept' = Kept /\ Omitted' = Omitted /\ Reduced' = Reduced /\ Paths' = Paths
<1>1. Kept' = Kept
  BY DEF Kept
<1>2. \A i : AsStatLine(i)' = AsStatLine(i)
  BY <1>1 DEF AsStatLine
<1>3. \A i : SectionBytes(i)' = SectionBytes(i)
  BY <1>2 DEF SectionBytes
<1>4. \A i, j : GoesBefore(i, j)' = GoesBefore(i, j)
  BY DEF GoesBefore
<1>5. Omitted' = Omitted
  BY <1>3, <1>4 DEF Omitted, BytesOf
<1>6. Reduced' = Reduced /\ Shown' = Shown /\ Truncated' = Truncated
  BY <1>2, <1>5 DEF Reduced, Shown, Truncated
<1>7. ReadConventions' = ReadConventions
  BY DEF ReadConventions
<1> QED
  BY <1>1, <1>5, <1>6, <1>7 DEF BuildContext, Paths
-----------------------------------------------------------------------------
(* The findings.                                                           *)

\* Of what is open, no two have one fingerprint; and the first of each fingerprint that
\* is not suppressed is open.
LEMMA Normalized ==
  ASSUME NEW F, DOMAIN F \in SUBSET Nat, NEW at, NEW N, N = Normalize(F, at)
  PROVE  /\ DOMAIN N = DOMAIN F
         /\ \A i \in DOMAIN F : N[i].print = Fingerprint(F[i]) /\ N[i].severity = Clamped(F[i], at)
         /\ \A i \in Open(N) : i \in DOMAIN F /\ ~Suppressed(F[i])
         /\ \A i, j \in Open(N) : N[i].print = N[j].print => i = j
         /\ \A i \in DOMAIN F : ~Suppressed(F[i]) => \E k \in Open(N) : N[k].print = Fingerprint(F[i])
<1>1. /\ DOMAIN N = DOMAIN F
      /\ \A i \in DOMAIN F : /\ N[i].print = Fingerprint(F[i]) /\ N[i].severity = Clamped(F[i], at)
                            /\ N[i].state = StateOf(F[i], SeenBefore(F, i))
  BY DEF Normalize
<1>2. ASSUME NEW i \in DOMAIN F
      PROVE  N[i].state = "open" <=> ~Suppressed(F[i]) /\ Fingerprint(F[i]) \notin SeenBefore(F, i)
  BY <1>1 DEF StateOf, Published
<1>3. \A i : i \in Open(N) <=> i \in DOMAIN F /\ ~Suppressed(F[i]) /\ Fingerprint(F[i]) \notin SeenBefore(F, i)
  BY <1>1, <1>2 DEF Open
<1>4. ASSUME NEW i \in Open(N), NEW j \in Open(N), N[i].print = N[j].print PROVE i = j
  <2>1. \A k, l \in Open(N) : k < l => Fingerprint(F[k]) # Fingerprint(F[l])
    BY <1>3 DEF SeenBefore
  <2>2. ~(i < j) /\ ~(j < i)
    BY <1>1, <1>3, <1>4, <2>1
  <2>3. i \in Nat /\ j \in Nat
    BY <1>3
  <2> QED
    BY <2>2, <2>3
<1>5. ASSUME NEW i \in DOMAIN F, ~Suppressed(F[i])
      PROVE  \E k \in Open(N) : N[k].print = Fingerprint(F[i])
  <2> DEFINE Alike == {k \in DOMAIN F : ~Suppressed(F[k]) /\ Fingerprint(F[k]) = Fingerprint(F[i])}
  <2>1. Alike \in SUBSET Nat /\ Alike # {}
    BY <1>5
  <2>2. PICK k \in Alike : \A j \in Alike : k <= j
    <3> HIDE DEF Alike
    <3> QED
      BY <2>1, Smallest
  <2>3. ASSUME Fingerprint(F[k]) \in SeenBefore(F, k) PROVE FALSE
    <3>1. PICK j \in DOMAIN F : j < k /\ ~Suppressed(F[j]) /\ Fingerprint(F[j]) = Fingerprint(F[k])
      BY <2>3 DEF SeenBefore
    <3>2. j \in Alike /\ j \in Nat /\ k \in Nat
      BY <2>2, <3>1
    <3>3. k <= j
      BY <2>2, <3>2
    <3> QED
      BY <3>1, <3>2, <3>3
  <2>4. k \in Open(N) /\ Fingerprint(F[k]) = Fingerprint(F[i]) /\ k \in DOMAIN F
    BY <1>3, <2>2, <2>3
  <2> QED
    BY <1>1, <2>4
<1> QED
  BY <1>1, <1>3, <1>4, <1>5

\* A document that can be used holds a list of findings, and all its valid ones are
\* normalized, at their places.
LEMMA DocumentRead ==
  ASSUME NEW doc \in Documents, Usable(doc)
  PROVE  /\ doc.findings \in FindingLists /\ doc.findings \in Seq(RawFindings)
         /\ DOMAIN Valid(doc) = {i \in DOMAIN doc.findings : doc.findings[i].flaw = "none"}
         /\ DOMAIN Valid(doc) \in SUBSET Nat
         /\ \A i \in DOMAIN Valid(doc) : Valid(doc)[i] = doc.findings[i] /\ doc.findings[i] \in RawFindings
         /\ ToNormalize(doc) = Valid(doc)
<1>1. doc.findings \in FindingLists
  BY DEF Documents, Usable
<1>2. doc.findings \in Seq(RawFindings)
  BY <1>1, FindingsAssumption
<1>3. /\ DOMAIN Valid(doc) = {i \in DOMAIN doc.findings : doc.findings[i].flaw = "none"}
      /\ \A i \in DOMAIN Valid(doc) : Valid(doc)[i] = doc.findings[i]
  BY DEF Valid, Restrict
<1>4. DOMAIN doc.findings \in SUBSET Nat /\ \A i \in DOMAIN doc.findings : doc.findings[i] \in RawFindings
  BY <1>2
<1>5. DOMAIN Salvage(PassedOn(doc)) = {}
  BY DEF Salvage, Mendable, PassedOn
<1>6. ToNormalize(doc) = [i \in DOMAIN Valid(doc) |-> Valid(doc)[i]]
  BY <1>5 DEF ToNormalize
<1>7. Valid(doc) = [i \in DOMAIN Valid(doc) |-> Valid(doc)[i]]
  BY DEF Valid, Restrict
<1> QED
  BY <1>1, <1>2, <1>3, <1>4, <1>6, <1>7

\* What is left of a severe finding that would be published, once it is clamped: one
\* that names a file of the change.
LEMMA SevereIsReal ==
  ASSUME NEW doc \in Documents, Usable(doc), Escalate(depth, Normalize(Valid(doc), depth))
  PROVE  /\ depth = "standard"
         /\ \E i \in DOMAIN doc.findings :
              doc.findings[i].severity >= High /\ ~Suppressed(doc.findings[i]) /\ ~OutOfDiff(doc.findings[i])
<1> DEFINE N == Normalize(Valid(doc), depth)
<1>1. PICK i \in Open(N) : N[i].severity >= High
  BY DEF Escalate
<1>2. depth = "standard"
  BY DEF Escalate
<1>3. i \in DOMAIN Valid(doc) /\ ~Suppressed(Valid(doc)[i]) /\ N[i].severity = Clamped(Valid(doc)[i], depth)
  <2>1. N = Normalize(Valid(doc), depth) /\ DOMAIN Valid(doc) \in SUBSET Nat
    BY DocumentRead
  <2> HIDE DEF N
  <2> QED
    BY <2>1, Normalized
<1>4. Valid(doc)[i] = doc.findings[i] /\ doc.findings[i] \in RawFindings /\ i \in DOMAIN doc.findings
  BY <1>3, DocumentRead
<1>5. Clamped(doc.findings[i], "standard") >= High
  BY <1>1, <1>2, <1>3, <1>4
<1>6. ~OutOfDiff(doc.findings[i]) /\ doc.findings[i].severity >= High
  BY <1>4, <1>5 DEF Clamped, High, OutOfDiffCeiling, Medium, RawFindings
<1> QED
  BY <1>2, <1>3, <1>4, <1>6

-----------------------------------------------------------------------------
(* The steps.                                                              *)

LEMMA ReviewInitInv == ReviewInit => ReviewInv
<1> SUFFICES ASSUME ReviewInit PROVE ReviewInv
  OBVIOUS
<1>1. diff \in Seq(Files) /\ template \in Templates
  BY DiffsAssumption DEF ReviewInit
<1> QED
  BY <1>1 DEF ReviewInit, ReviewInv, NoReport, SevereMeansDeeper, FindingsAccountedFor

LEMMA SkipInv == ASSUME ReviewInv, Skip PROVE ReviewInv'
<1>1. BuildContext' = BuildContext /\ Kept' = Kept /\ Omitted' = Omitted /\ Reduced' = Reduced
  BY SamePrompt DEF Skip
<1>2. asked' = << >> /\ attempts' = 0
  BY DEF ReviewInv, Skip
<1>3. report'.status = "skipped"
  BY DEF Skip, SkippedReport, NoReport
<1> QED
  BY <1>1, <1>2, <1>3 DEF ReviewInv, Skip, SevereMeansDeeper, FindingsAccountedFor
LEMMA BeginInv == ASSUME ReviewInv, Begin PROVE ReviewInv'
<1>1. BuildContext' = BuildContext /\ Kept' = Kept /\ Omitted' = Omitted /\ Reduced' = Reduced
  BY SamePrompt DEF Begin
<1>2. asked' \in Seq({BuildContext'})
  BY <1>1 DEF Begin
<1>3. Select \in {"summary", "standard", "deep"}
  BY DEF Select
<1>4. report'.status = "none"
  BY DEF ReviewInv, Begin, NoReport
<1> QED
  BY <1>1, <1>2, <1>3, <1>4 DEF ReviewInv, Begin, SevereMeansDeeper, FindingsAccountedFor

LEMMA EngineFailsInv == ASSUME ReviewInv, EngineFails PROVE ReviewInv'
<1>1. BuildContext' = BuildContext /\ Kept' = Kept /\ Omitted' = Omitted /\ Reduced' = Reduced
  BY SamePrompt DEF EngineFails
<1>2. report'.status = "failed" /\ report'.omitted = Omitted /\ report'.reduced = Reduced
  BY DEF EngineFails, ReportOf
<1> QED
  BY <1>1, <1>2 DEF ReviewInv, EngineFails, SevereMeansDeeper, FindingsAccountedFor

LEMMA RunAgainInv == ASSUME ReviewInv, NEW doc \in Documents, RunAgain(doc) PROVE ReviewInv'
<1>1. /\ BuildContext' = BuildContext /\ Kept' = Kept /\ Omitted' = Omitted /\ Reduced' = Reduced
      /\ Paths' = Paths
  BY SamePrompt DEF RunAgain
<1>2. Usable(doc) /\ Escalate(depth, Normalize(Valid(doc), depth)) /\ stage = "asked"
  BY DEF RunAgain, Answers
<1>3. PICK i \in DOMAIN doc.findings :
        doc.findings[i].severity >= High /\ ~Suppressed(doc.findings[i]) /\ ~OutOfDiff(doc.findings[i])
  BY <1>2, SevereIsReal
<1>4. depth = "standard"
  BY <1>2, SevereIsReal
<1>5. asked' \in Seq({BuildContext'})
  BY <1>1 DEF RunAgain, ReviewInv
<1>6. attempts' \in 0..2 /\ depth' = "deep"
  BY <1>4 DEF RunAgain, ReviewInv
<1>7. report'.status = "none"
  BY <1>2 DEF ReviewInv, RunAgain, NoReport
<1>8. answered' = doc.findings /\ answered' \in FindingLists
  BY <1>2, DocumentRead DEF RunAgain
<1>9. SevereMeansDeeper'
  BY <1>1, <1>3, <1>7, <1>8 DEF SevereMeansDeeper, OutOfDiff
<1>10. FindingsAccountedFor'
  BY <1>7 DEF FindingsAccountedFor
<1> QED
  BY <1>1, <1>2, <1>5, <1>6, <1>7, <1>8, <1>9, <1>10 DEF ReviewInv, RunAgain

LEMMA ReportInv == ASSUME ReviewInv, NEW doc \in Documents, Report(doc) PROVE ReviewInv'
<1> DEFINE N == Normalize(Valid(doc), depth)
<1>1. BuildContext' = BuildContext /\ Kept' = Kept /\ Omitted' = Omitted /\ Reduced' = Reduced
  BY SamePrompt DEF Report
<1>2. Usable(doc) /\ Validate(template) /\ ~Escalate(depth, N) /\ stage = "asked"
  BY DEF Report, Answers
<1>3. ToNormalize(doc) = Valid(doc)
  BY <1>2, DocumentRead
<1>4. /\ report'.status = "done" /\ report'.omitted = Omitted /\ report'.reduced = Reduced
      /\ report'.depth = depth
      /\ report'.findings = Publishable(N) /\ report'.withheld = Withheld(N)
  BY <1>3 DEF Report, ReportOf
<1>5. answered' = doc.findings /\ answered' \in FindingLists /\ stage' = "over"
  BY <1>2, DocumentRead DEF Report
<1> DEFINE told == report'.findings
           valid == {i \in DOMAIN doc.findings : doc.findings[i].flaw = "none"}
<1>6. /\ DOMAIN Valid(doc) = valid /\ DOMAIN Valid(doc) \in SUBSET Nat
      /\ \A i \in valid : Valid(doc)[i] = doc.findings[i] /\ doc.findings[i] \in RawFindings
  BY <1>2, DocumentRead
<1>7. /\ DOMAIN N = valid
      /\ \A i \in valid : N[i].print = Fingerprint(doc.findings[i]) /\ N[i].severity = Clamped(doc.findings[i], depth)
      /\ \A i \in Open(N) : i \in valid /\ ~Suppressed(doc.findings[i])
      /\ \A i, j \in Open(N) : N[i].print = N[j].print => i = j
      /\ \A i \in valid : ~Suppressed(doc.findings[i]) => \E k \in Open(N) : N[k].print = Fingerprint(doc.findings[i])
  <2>1. /\ DOMAIN N = DOMAIN Valid(doc)
        /\ \A i \in DOMAIN Valid(doc) : /\ N[i].print = Fingerprint(Valid(doc)[i])
                                        /\ N[i].severity = Clamped(Valid(doc)[i], depth)
        /\ \A i \in Open(N) : i \in DOMAIN Valid(doc) /\ ~Suppressed(Valid(doc)[i])
        /\ \A i, j \in Open(N) : N[i].print = N[j].print => i = j
        /\ \A i \in DOMAIN Valid(doc) :
             ~Suppressed(Valid(doc)[i]) => \E k \in Open(N) : N[k].print = Fingerprint(Valid(doc)[i])
    <3>1. N = Normalize(Valid(doc), depth) /\ DOMAIN Valid(doc) \in SUBSET Nat
      BY <1>6
    <3> HIDE DEF N, valid
    <3> QED
      BY <3>1, Normalized
  <2> HIDE DEF N, valid
  <2> QED
    BY <1>6, <2>1
<1>8. DOMAIN told = Open(N) /\ DOMAIN report'.withheld = valid \ Open(N) /\ \A i \in Open(N) : told[i] = N[i]
  BY <1>4, <1>7 DEF Publishable, Withheld, Restrict
<1>9. SevereMeansDeeper'
  <2>1. ASSUME depth = "standard", NEW i \in Open(N) PROVE N[i].severity < High
    <3>1. ~(N[i].severity >= High)
      BY <1>2, <2>1 DEF Escalate
    <3>2. N[i].severity \in 1..5
      BY <1>6, <1>7 DEF Clamped, RawFindings, OutOfDiffCeiling, Medium
    <3> QED
      BY <3>1, <3>2 DEF High
  <2>2. report'.depth = "standard" => \A i \in DOMAIN told : told[i].severity < High
    BY <1>4, <1>8, <2>1
  <2> QED
    BY <1>4, <1>5, <2>2 DEF SevereMeansDeeper
<1>10. FindingsAccountedFor'
  <2>1. DOMAIN told \cup DOMAIN report'.withheld = valid /\ DOMAIN told \cap DOMAIN report'.withheld = {}
    BY <1>7, <1>8
  <2>2. \A i \in DOMAIN told : told[i].print = Fingerprint(doc.findings[i]) /\ ~Suppressed(doc.findings[i])
    BY <1>7, <1>8
  <2>3. \A i, j \in DOMAIN told : told[i].print = told[j].print => i = j
    BY <1>7, <1>8
  <2>4. ASSUME NEW i \in valid, ~Suppressed(doc.findings[i]) PROVE Fingerprint(doc.findings[i]) \in Prints(told)
    <3>1. PICK k \in Open(N) : N[k].print = Fingerprint(doc.findings[i])
      BY <1>7, <2>4
    <3> QED
      BY <1>8, <3>1 DEF Prints
  <2> QED
    BY <1>5, <2>1, <2>2, <2>3, <2>4 DEF FindingsAccountedFor, Prints
<1>11. asked' \in Seq({BuildContext'})
  BY <1>1 DEF Report, ReviewInv
<1> HIDE DEF N, told, valid
<1> QED
  BY <1>1, <1>2, <1>4, <1>5, <1>9, <1>10, <1>11 DEF ReviewInv, Report

LEMMA ReviewStepInv == ReviewInv /\ [ReviewNext]_rpVars => ReviewInv'
<1> SUFFICES ASSUME ReviewInv, [ReviewNext]_rpVars PROVE ReviewInv'
  OBVIOUS
<1>1. CASE UNCHANGED rpVars
  <2>1. /\ BuildContext' = BuildContext /\ Kept' = Kept /\ Omitted' = Omitted /\ Reduced' = Reduced
        /\ Paths' = Paths
    BY <1>1, SamePrompt DEF rpVars
  <2>2. SevereMeansDeeper' /\ FindingsAccountedFor'
    BY <1>1, <2>1 DEF rpVars, ReviewInv, SevereMeansDeeper, FindingsAccountedFor, Prints, OutOfDiff
  <2> QED
    BY <1>1, <2>1, <2>2 DEF rpVars, ReviewInv
<1> QED
  BY <1>1, SkipInv, BeginInv, EngineFailsInv, RunAgainInv, ReportInv DEF ReviewNext

\* What a review knows of itself holds throughout.
THEOREM ReviewInvariant == ReviewSpec => []ReviewInv
<1> QED
  BY ReviewInitInv, ReviewStepInv, PTL DEF ReviewSpec

-----------------------------------------------------------------------------
(* The properties.                                                         *)

\* Every prompt shows the change whole, or says what is missing of it, and is no longer
\* than it may be.
LEMMA FilesTold == ReviewInv => FilesAccountedFor
<1> SUFFICES ASSUME ReviewInv PROVE FilesAccountedFor
  OBVIOUS
<1>1. diff \in Seq(Files) /\ \A n \in DOMAIN asked : asked[n] = BuildContext
  BY DEF ReviewInv
<1>2. Kept \subseteq (Shown \ Reduced) \cup Reduced \cup Omitted
  BY DEF Kept, Shown
<1>3. Truncated = (Reduced \cup Omitted # {})
  BY DEF Truncated
<1>4. /\ BuildContext.shown = Shown \ Reduced /\ BuildContext.stats = Reduced
      /\ BuildContext.omitted = Omitted /\ BuildContext.truncated = Truncated
  BY DEF BuildContext
<1>5. BytesOf(Shown \ Reduced) + StatBytes * Cardinality(Reduced) <= MaxTotalBytes
  BY <1>1, PromptLength
<1>6. \A n \in DOMAIN asked :
        BytesOf(asked[n].shown) + StatBytes * Cardinality(asked[n].stats) <= MaxTotalBytes
  BY <1>1, <1>4, <1>5
<1> QED
  BY <1>1, <1>2, <1>3, <1>4, <1>6 DEF FilesAccountedFor, ReviewInv

\* Neither a file of a change nor a finding of a document vanishes on the way to the
\* report (truncation.rs, normalize.rs).
THEOREM NoneVanishes == ReviewSpec => []NothingVanishes
<1>1. ReviewInv => NothingVanishes
  BY FilesTold DEF NothingVanishes, ReviewInv
<1> QED
  BY <1>1, ReviewInvariant, PTL

\* Severe findings are published only from a review that looked deeper, and a second run
\* is bought only by one of them (depth.rs, escalate).
THEOREM Deeper == ReviewSpec => []SevereMeansDeeper
<1>1. ReviewInv => SevereMeansDeeper
  BY DEF ReviewInv
<1> QED
  BY <1>1, ReviewInvariant, PTL

\* A template that is valid hands over the prompt in one way (template.rs, validate).
LEMMA ValidDelivers ==
  ASSUME NEW t \in Templates, Validate(t)
  PROVE  Render(t).stdin # (Render(t).args # {})
<1>1. t.stdin \in BOOLEAN /\ Delivering(t) \subseteq UsedBy(t)
  BY TemplatesAssumption DEF Delivering
<1>2. Delivering(t) # {} <=> {i \in DOMAIN t.args : t.args[i] \in Delivering(t)} # {}
  <2>1. ASSUME NEW arg \in Delivering(t) PROVE \E i \in DOMAIN t.args : t.args[i] = arg
    BY <1>1 DEF UsedBy, NamesOf
  <2> QED
    BY <2>1
<1> QED
  BY <1>1, <1>2 DEF Validate, Render

\* The engine of a review that comes to a result had its prompt, in one way.
THEOREM Prompted == ReviewSpec => []PromptDelivered
<1>1. ReviewInv => PromptDelivered
  BY ValidDelivers DEF PromptDelivered, ReviewInv
<1> QED
  BY <1>1, ReviewInvariant, PTL

=============================================================================
