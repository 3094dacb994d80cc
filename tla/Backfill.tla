------------------------------ MODULE Backfill ------------------------------
(***************************************************************************)
(* Reviewing the past: the plan `revlocal backfill` makes of a branch's    *)
(* history (revlocal-cli, backfill.rs) and the walk through it that gives  *)
(* way to live work and to the budget and is taken up where it was left    *)
(* (revlocal-daemon, backfill.rs).  The command only prints the plan; the  *)
(* walk, and the cursor it keeps, are put together as its tests do.        *)
(***************************************************************************)
EXTENDS Integers, Sequences, FiniteSets, SequencesExt

CONSTANTS
  Histories,      \* what the history since the ref may be, oldest change first
  Limits,         \* --limit; 0 for none
  EnumerationCap, \* changes enumerated at most
  MaxCrashes      \* bound: walks that die

NoCursor == "none"

\* A branch has each of its changes once.
ASSUME HistoriesAssumption ==
  /\ EnumerationCap \in Nat /\ Limits \subseteq Nat
  /\ \A h \in Histories :
       /\ h \in Seq(Range(h)) /\ NoCursor \notin Range(h)
       /\ \A i, j \in DOMAIN h : h[i] = h[j] => i = j

VARIABLES
  history, limit,
  place,      \* the stored cursor of the backfill
  plan,       \* [items, excluded]; the walk's, << >> outside one
  at,         \* how many of the items are recorded
  reviewing,  \* the item under review, or NoCursor
  finished,   \* its review is done and not recorded yet
  reviews,    \* the reviews done, in order
  live, spent,  \* live work waits; the budget is used up
  rewritten, crashes

bfVars == <<history, limit, place, plan, at, reviewing, finished, reviews, live, spent, rewritten, crashes>>

NoPlan == [items |-> << >>, excluded |-> -1]

\* plan: what comes after the cursor, or everything when the history no longer has
\* it; then the limit.
Candidates == SubSeq(history, 1, IF Len(history) < EnumerationCap THEN Len(history) ELSE EnumerationCap)
Remaining(candidates, resume) ==
  IF resume \in Range(candidates)
  THEN SubSeq(candidates, SelectInSeq(candidates, LAMBDA c : c = resume) + 1, Len(candidates))
  ELSE candidates
Planned(remaining) ==
  IF limit > 0 /\ Len(remaining) > limit
  THEN [items |-> SubSeq(remaining, 1, limit), excluded |-> Len(remaining) - limit]
  ELSE [items |-> remaining, excluded |-> 0]

BackfillInit ==
  /\ history \in Histories /\ limit \in Limits
  /\ place = NoCursor /\ plan = NoPlan /\ at = 0
  /\ reviewing = NoCursor /\ finished = FALSE /\ reviews = << >>
  /\ live = FALSE /\ spent = FALSE /\ rewritten = FALSE /\ crashes = 0

PlanBackfill ==
  /\ plan = NoPlan
  /\ plan' = Planned(Remaining(Candidates, place))
  /\ at' = 0
  /\ UNCHANGED <<history, limit, place, reviewing, finished, reviews, live, spent, rewritten, crashes>>

\* next_step: nothing is begun while live work waits or the budget is spent.
Yields == live \/ spent
NextStep ==
  /\ plan # NoPlan /\ reviewing = NoCursor /\ ~Yields /\ at < Len(plan.items)
  /\ reviewing' = plan.items[at + 1]
  /\ UNCHANGED <<history, limit, place, plan, at, finished, reviews, live, spent, rewritten, crashes>>

\* The review is done, then recorded, and the cursor with it.
Review ==
  /\ reviewing # NoCursor /\ ~finished
  /\ reviews' = Append(reviews, reviewing) /\ finished' = TRUE
  /\ UNCHANGED <<history, limit, place, plan, at, reviewing, live, spent, rewritten, crashes>>
RecordedTwice ==
  \* with a defect: the walk steps over the next item too
  /\ finished
  /\ at' = at + 2 /\ place' = reviewing /\ reviewing' = NoCursor /\ finished' = FALSE
  /\ UNCHANGED <<history, limit, plan, reviews, live, spent, rewritten, crashes>>
Recorded ==
  /\ finished
  /\ at' = at + 1 /\ place' = reviewing /\ reviewing' = NoCursor /\ finished' = FALSE
  /\ UNCHANGED <<history, limit, plan, reviews, live, spent, rewritten, crashes>>

Done ==
  /\ plan # NoPlan /\ reviewing = NoCursor /\ at = Len(plan.items) /\ plan.excluded > 0
  /\ plan' = NoPlan /\ at' = 0
  /\ UNCHANGED <<history, limit, place, reviewing, finished, reviews, live, spent, rewritten, crashes>>

\* The walk dies with what it has not recorded.
Dies ==
  /\ plan # NoPlan /\ crashes < MaxCrashes
  /\ crashes' = crashes + 1
  /\ plan' = NoPlan /\ at' = 0 /\ reviewing' = NoCursor /\ finished' = FALSE
  /\ UNCHANGED <<history, limit, place, reviews, live, spent, rewritten>>

\* Live work comes and goes, a day's budget is used up or begins; a rewrite replaces
\* the history.
Weather ==
  /\ \/ live' = ~live /\ UNCHANGED <<history, spent, rewritten>>
     \/ spent' = ~spent /\ UNCHANGED <<history, live, rewritten>>
     \/ ~rewritten /\ rewritten' = TRUE /\ history' \in Histories /\ UNCHANGED <<live, spent>>
  /\ UNCHANGED <<limit, place, plan, at, reviewing, finished, reviews, crashes>>

BackfillNext == PlanBackfill \/ NextStep \/ Review \/ Recorded \/ Done \/ Dies \/ Weather

BackfillSpec == BackfillInit /\ [][BackfillNext]_bfVars
-----------------------------------------------------------------------------
\* While the history stands, a backfill reviews it in order from its beginning, with
\* no gap however often it was limited, interrupted or resumed; only a review that
\* was cut off before it was recorded is done again (plan, Backfill::recorded).
InOrderWithoutGaps ==
  ~rewritten =>
    /\ \A k \in DOMAIN reviews :
         LET before == {reviews[j] : j \in 1..(k - 1)} IN
         \A i \in DOMAIN history : history[i] = reviews[k] =>
           {history[j] : j \in 1..(i - 1)} \subseteq before
    /\ Len(reviews) - Cardinality(Range(reviews)) <= crashes
=============================================================================
