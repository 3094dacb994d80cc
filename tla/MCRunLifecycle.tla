--------------------------- MODULE MCRunLifecycle ---------------------------
(* Instances of RunLifecycle small enough for TLC.                         *)
EXTENDS RunLifecycle

CONSTANTS watch, desktop, r1, r2

OneWatch == {watch}
TwoProcesses == {watch, desktop}

OneRepo == {r1}
TwoRepos == {r1, r2}

\* Every change is r1's, or they alternate.
AllOfOne == [c \in Changes |-> r1]
Alternating == [c \in Changes |-> IF c % 2 = 1 THEN r1 ELSE r2]

AllWanted == {}
SecondUnwanted == {2}

\* What a review may conclude.
AnyOutcome == {"clean", "filed", "inbox", "failed", "skipped"}
AnyReview == {"clean", "filed", "inbox", "failed"}
NothingFiled == {"clean", "failed"}
=============================================================================
