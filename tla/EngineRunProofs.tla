--------------------------- MODULE EngineRunProofs ---------------------------
(***************************************************************************)
(* Proofs about EngineRun, for every choice of the timeouts and graces and *)
(* for each way of passing the prompt.                                     *)
(*                                                                         *)
(* WithinLimits is not inductive: it says nothing of how the clock of the  *)
(* present stage relates to the age of the attempt.  Timed adds that, one  *)
(* conjunct per stage.  NothingFromKilled needs Reported: the child is     *)
(* gone by the time its output is judged, and a report ends the review.    *)
(***************************************************************************)
EXTENDS EngineRun, TLAPS

Timed ==
  /\ pc \in {"preparing", "feeding"} => killed = "no" /\ age = 0 /\ clock = 0
  /\ pc = "watching" => killed = "no" /\ age = clock /\ clock <= Timeouts[depth]
  /\ pc = "terminating" =>
       /\ killed # "no" /\ stopAt <= Timeouts[depth]
       /\ age = stopAt + clock /\ clock <= GraceFor(killed)
  /\ pc = "draining" =>
       /\ clock <= DrainFor(killed)
       /\ killed = "no" => age <= Timeouts[depth] + clock
       /\ killed # "no" => stopAt <= Timeouts[depth]
                            /\ age <= stopAt + GraceFor(killed) + clock
  /\ pc \in {"judging", "over"} => WithinLimits

Reported ==
  /\ pc \in {"draining", "judging"} => child = "exited"
  /\ report.status = "done" => pc = "over" /\ killed = "no" /\ child = "exited"

-----------------------------------------------------------------------------
(* Types.                                                                  *)

LEMMA NothingTyped == NoFile \in Files /\ NoReport \in Reports
<1>1. NoFile \in Files
  BY DEF NoFile, Files
<1>2. NoReport \in Reports
  BY DEF NoReport, Reports, Depths
<1>3. QED
  BY <1>1, <1>2

LEMMA InitTyped == Init => TypeOK
<1> SUFFICES ASSUME Init PROVE TypeOK
  OBVIOUS
<1>1. /\ pc = "preparing" /\ depth \in Depths /\ attempt = 1
      /\ child = "none" /\ helper = "none" /\ file = NoFile
      /\ said = "nothing" /\ heard = "nothing" /\ killed = "no"
      /\ clock = 0 /\ age = 0 /\ stopAt = 0 /\ report = NoReport
  BY DEF Init
<1>2. escaped \in BOOLEAN /\ stray \in BOOLEAN /\ cut \in BOOLEAN /\ cancelled \in BOOLEAN
  BY DEF Init
<1>3. QED
  BY <1>1, <1>2, NothingTyped DEF TypeOK, Kinds

\* What a second attempt starts from.
LEMMA RunAgainEffect ==
  ASSUME NEW severe \in BOOLEAN, RunAgain(severe)
  PROVE /\ pc' = "preparing" /\ clock' = 0 /\ depth = "standard" /\ depth' = "deep"
        /\ attempt' = 2 /\ child' = "none" /\ helper' = "none" /\ escaped' = FALSE
        /\ stray' \in BOOLEAN
        /\ said' = "nothing" /\ heard' = "nothing" /\ cut' = FALSE
        /\ age' = 0 /\ stopAt' = 0 /\ killed = "no"
        /\ file' = file /\ killed' = killed /\ cancelled' = cancelled /\ report' = report
        /\ pc = "judging"
<1>1. stray' \in BOOLEAN
  <2>1. stray' = (helper \in {"holding", "loose"})
    BY Zenon DEF RunAgain
  <2>2. (helper \in {"holding", "loose"}) \in BOOLEAN
    OBVIOUS
  <2>3. QED
    BY <2>1, <2>2, Zenon
<1>2. QED
  BY <1>1, Zenon DEF RunAgain, Resolved, Escalates, Enter

\* What the end of a review leaves alone.
LEMMA ConcludeEffect ==
  ASSUME NEW severe \in BOOLEAN, Conclude(severe)
  PROVE /\ pc = "judging" /\ killed = "no" /\ pc' = "over"
        /\ depth' = depth /\ child' = child /\ killed' = killed
        /\ age' = age /\ stopAt' = stopAt
BY Zenon DEF Conclude, Resolved, Enter, process, time

LEMMA TypeStep == TypeOK /\ [Next]_vars => TypeOK'
<1> SUFFICES ASSUME TypeOK, [Next]_vars PROVE TypeOK'
  OBVIOUS
<1> USE TimeoutsAssumption, GracesAssumption
<1>1. ASSUME NEW text \in Kinds, Speak(text)
      PROVE TypeOK'
  BY <1>1 DEF Speak, process, output, time, TypeOK, Depths, Kinds, Files, Reports
<1>2. ASSUME NEW state \in {"invalid", "valid"}, NEW severe \in BOOLEAN, WriteResult(state, severe)
      PROVE TypeOK'
  BY <1>2 DEF WriteResult, process, output, time, TypeOK, Depths, Kinds, Files, Reports
<1>3. ASSUME NEW severe \in BOOLEAN, StrayWrites(severe)
      PROVE TypeOK'
  BY <1>3 DEF StrayWrites, process, output, time, TypeOK, Depths, Kinds, Files, Reports
<1>4. ASSUME NEW kind \in {"holding", "loose"}, NEW leaves \in BOOLEAN, StartHelper(kind, leaves)
      PROVE TypeOK'
  BY <1>4 DEF StartHelper, process, output, time, TypeOK, Depths, Kinds, Files, Reports
<1>5. CASE HelperEnds
  BY <1>5 DEF HelperEnds, process, output, time, TypeOK, Depths, Kinds, Files, Reports
<1>6. CASE ChildExits
  BY <1>6 DEF ChildExits, process, output, time, TypeOK, Depths, Kinds, Files, Reports
<1>7. CASE TakeInput
  BY <1>7 DEF TakeInput, Enter, process, output, time, TypeOK, Depths, Kinds, Files, Reports
<1>8. CASE Spawn
  BY <1>8 DEF Spawn, Enter, process, output, time, TypeOK, Depths, Kinds, Files, Reports
<1>9. CASE NotInstalled
  BY <1>9 DEF NotInstalled, Enter, Fail, process, output, time, TypeOK, Depths, Kinds,
     Files, Reports
<1>10. CASE Feed
  BY <1>10 DEF Feed, Enter, process, output, time, TypeOK, Depths, Kinds, Files, Reports
<1>11. CASE SeeExit
  BY <1>11 DEF SeeExit, Enter, process, output, time, TypeOK, Depths, Kinds, Files, Reports
<1>12. CASE TimeOut
  BY <1>12 DEF TimeOut, StopFor, Enter, process, output, time, TypeOK, Depths, Kinds,
     Files, Reports
<1>13. CASE ObeyCancel
  BY <1>13 DEF ObeyCancel, StopFor, Enter, process, output, time, TypeOK, Depths, Kinds,
     Files, Reports
<1>14. CASE SeeItGone
  BY <1>14 DEF SeeItGone, Enter, process, output, time, TypeOK, Depths, Kinds, Files,
     Reports
<1>15. CASE ForceKill
  BY <1>15 DEF ForceKill, Enter, process, output, time, TypeOK, Depths, Kinds, Files,
     Reports
<1>16. CASE Drained
  BY <1>16 DEF Drained, Enter, process, output, time, TypeOK, Depths, Kinds, Files, Reports
<1>17. CASE GiveUp
  BY <1>17 DEF GiveUp, Enter, process, output, time, TypeOK, Depths, Kinds, Files, Reports
<1>18. CASE Unusable
  BY <1>18 DEF Unusable, Enter, Fail, process, output, time, TypeOK, Depths, Kinds, Files,
     Reports
<1>19. ASSUME NEW severe \in BOOLEAN, RunAgain(severe)
      PROVE TypeOK'
  <2>1. /\ pc' = "preparing" /\ depth' = "deep" /\ attempt' = 2
        /\ child' = "none" /\ helper' = "none" /\ said' = "nothing" /\ heard' = "nothing"
        /\ clock' = 0 /\ age' = 0 /\ stopAt' = 0
        /\ file' = file /\ killed' = killed /\ report' = report
    BY <1>19, RunAgainEffect
  <2>2. escaped' \in BOOLEAN /\ stray' \in BOOLEAN /\ cut' \in BOOLEAN /\ cancelled' \in BOOLEAN
    BY <1>19, RunAgainEffect, Zenon DEF TypeOK
  <2>3. file \in Files /\ report \in Reports /\ killed \in {"no", "timeout", "cancelled"}
    BY DEF TypeOK
  <2>4. QED
    BY <2>1, <2>2, <2>3 DEF TypeOK, Depths, Kinds
<1>20. ASSUME NEW severe \in BOOLEAN, Conclude(severe)
      PROVE TypeOK'
  <2>1. report' \in Reports
    <3>1. (Rung # "file") \in BOOLEAN
      OBVIOUS
    <3>2. (IF Rung = "file" THEN file.by ELSE attempt) \in 0..2
      BY DEF TypeOK, Files
    <3>3. QED
      BY <1>20, <3>1, <3>2 DEF Conclude, TypeOK, Reports
  <2>2. QED
    BY <1>20, <2>1 DEF Conclude, Enter, process, output, time, TypeOK
<1>21. CASE Read
  BY <1>21 DEF Read, process, output, time, TypeOK, Depths, Kinds, Files, Reports
<1>22. CASE Cancel
  BY <1>22 DEF Cancel, process, output, time, TypeOK, Depths, Kinds, Files, Reports
<1>23. CASE Tick
  BY <1>23 DEF Tick, Due, process, output, time, TypeOK, Depths, Kinds, Files, Reports
<1>24. CASE UNCHANGED vars
  BY <1>24 DEF vars, process, output, time, TypeOK, Depths, Kinds, Files, Reports
<1>25. QED
  BY <1>1, <1>2, <1>3, <1>4, <1>5, <1>6, <1>7, <1>8, <1>9, <1>10, <1>11, <1>12, <1>13,
     <1>14, <1>15, <1>16, <1>17, <1>18, <1>19, <1>20, <1>21, <1>22, <1>23, <1>24
  DEF Next, Engine, Supervise

\* Every reachable state is typed: no stage, process or clock takes a value the
\* supervisor does not know (supervise.rs, supervise).
THEOREM TypeCorrect == Spec => []TypeOK
BY InitTyped, TypeStep, PTL DEF Spec

-----------------------------------------------------------------------------
(* The limits.                                                             *)

LEMMA TimedStep == TypeOK /\ Timed /\ [Next]_vars => Timed'
<1> SUFFICES ASSUME TypeOK, Timed, [Next]_vars PROVE Timed'
  OBVIOUS
<1> USE TimeoutsAssumption, GracesAssumption
<1>0. /\ age \in Nat /\ clock \in Nat /\ stopAt \in Nat
      /\ depth \in Depths /\ killed \in {"no", "timeout", "cancelled"}
  BY DEF TypeOK
<1>1. ASSUME NEW text \in Kinds, Speak(text)
      PROVE Timed'
  BY <1>1, <1>0 DEF Speak, process, output, time, Timed, WithinLimits, GraceFor, DrainFor,
     Depths
<1>2. ASSUME NEW state \in {"invalid", "valid"}, NEW severe \in BOOLEAN, WriteResult(state, severe)
      PROVE Timed'
  BY <1>2, <1>0 DEF WriteResult, process, output, time, Timed, WithinLimits, GraceFor,
     DrainFor, Depths
<1>3. ASSUME NEW severe \in BOOLEAN, StrayWrites(severe)
      PROVE Timed'
  BY <1>3, <1>0 DEF StrayWrites, process, output, time, Timed, WithinLimits, GraceFor,
     DrainFor, Depths
<1>4. ASSUME NEW kind \in {"holding", "loose"}, NEW leaves \in BOOLEAN, StartHelper(kind, leaves)
      PROVE Timed'
  BY <1>4, <1>0 DEF StartHelper, process, output, time, Timed, WithinLimits, GraceFor,
     DrainFor, Depths
<1>5. CASE HelperEnds
  BY <1>5, <1>0 DEF HelperEnds, process, output, time, Timed, WithinLimits, GraceFor,
     DrainFor, Depths
<1>6. CASE ChildExits
  BY <1>6, <1>0 DEF ChildExits, process, output, time, Timed, WithinLimits, GraceFor,
     DrainFor, Depths
<1>7. CASE TakeInput
  BY <1>7, <1>0 DEF TakeInput, Enter, process, output, time, Timed, WithinLimits,
     GraceFor, DrainFor, Depths
<1>8. CASE Spawn
  BY <1>8, <1>0 DEF Spawn, Enter, process, output, time, Timed, WithinLimits, GraceFor,
     DrainFor, Depths
<1>9. CASE NotInstalled
  BY <1>9, <1>0 DEF NotInstalled, Enter, Fail, process, output, time, Timed, WithinLimits,
     GraceFor, DrainFor, Depths
<1>10. CASE Feed
  BY <1>10, <1>0 DEF Feed, Enter, process, output, time, Timed, WithinLimits, GraceFor,
     DrainFor, Depths
<1>11. CASE SeeExit
  BY <1>11, <1>0 DEF SeeExit, Enter, process, output, time, Timed, WithinLimits, GraceFor,
     DrainFor, Depths
<1>12. CASE TimeOut
  BY <1>12, <1>0 DEF TimeOut, StopFor, Enter, process, output, time, Timed, WithinLimits,
     GraceFor, DrainFor, Depths
<1>13. CASE ObeyCancel
  BY <1>13, <1>0 DEF ObeyCancel, StopFor, Enter, process, output, time, Timed,
     WithinLimits, GraceFor, DrainFor, Depths
<1>14. CASE SeeItGone
  BY <1>14, <1>0 DEF SeeItGone, Enter, process, output, time, Timed, WithinLimits,
     GraceFor, DrainFor, Depths
<1>15. CASE ForceKill
  BY <1>15, <1>0 DEF ForceKill, Enter, process, output, time, Timed, WithinLimits,
     GraceFor, DrainFor, Depths
<1>16. CASE Drained
  BY <1>16, <1>0 DEF Drained, Enter, process, output, time, Timed, WithinLimits, GraceFor,
     DrainFor, Depths
<1>17. CASE GiveUp
  BY <1>17, <1>0 DEF GiveUp, Enter, process, output, time, Timed, WithinLimits, GraceFor,
     DrainFor, Depths
<1>18. CASE Unusable
  BY <1>18, <1>0 DEF Unusable, Enter, Fail, process, output, time, Timed, WithinLimits,
     GraceFor, DrainFor, Depths
<1>19. ASSUME NEW severe \in BOOLEAN, RunAgain(severe)
      PROVE Timed'
  BY <1>19, RunAgainEffect, <1>0 DEF Timed, WithinLimits, GraceFor, DrainFor, Depths
<1>20. ASSUME NEW severe \in BOOLEAN, Conclude(severe)
      PROVE Timed'
  BY <1>20, ConcludeEffect, <1>0 DEF Timed, WithinLimits, GraceFor, DrainFor, Depths
<1>21. CASE Read
  BY <1>21, <1>0 DEF Read, process, output, time, Timed, WithinLimits, GraceFor, DrainFor,
     Depths
<1>22. CASE Cancel
  BY <1>22, <1>0 DEF Cancel, process, output, time, Timed, WithinLimits, GraceFor,
     DrainFor, Depths
<1>23. CASE Tick
  BY <1>23, <1>0 DEF Tick, Due, process, output, time, Timed, WithinLimits, GraceFor,
     DrainFor, Depths
<1>24. CASE UNCHANGED vars
  BY <1>24, <1>0 DEF vars, process, output, time, Timed, WithinLimits, GraceFor, DrainFor,
     Depths
<1>25. QED
  BY <1>1, <1>2, <1>3, <1>4, <1>5, <1>6, <1>7, <1>8, <1>9, <1>10, <1>11, <1>12, <1>13,
     <1>14, <1>15, <1>16, <1>17, <1>18, <1>19, <1>20, <1>21, <1>22, <1>23, <1>24
  DEF Next, Engine, Supervise

LEMMA TimedIsEnough == TypeOK /\ Timed => WithinLimits
<1> SUFFICES ASSUME TypeOK, Timed PROVE WithinLimits
  OBVIOUS
<1> USE TimeoutsAssumption, GracesAssumption
<1>0. /\ age \in Nat /\ clock \in Nat /\ stopAt \in Nat
      /\ depth \in Depths /\ killed \in {"no", "timeout", "cancelled"}
      /\ pc \in {"preparing", "feeding", "watching", "terminating", "draining",
                 "judging", "over"}
  BY DEF TypeOK
<1>1. QED
  BY <1>0 DEF Timed, WithinLimits, GraceFor, DrainFor, Depths

\* Whatever the engine ignores and its helpers hold on to, an attempt that has its
\* prompt is over within its timeout and two graces (supervise.rs, supervise).
THEOREM Bounded == Spec => []WithinLimits
<1>1. Init => TypeOK /\ Timed
  <2>1. Init => Timed
    BY DEF Init, Timed
  <2>2. QED
    BY <2>1, InitTyped
<1>2. QED
  BY <1>1, TypeStep, TimedStep, TimedIsEnough, PTL DEF Spec

-----------------------------------------------------------------------------
(* What is judged, and what is reported.                                   *)

LEMMA CutStep == TypeOK /\ CutIsShown /\ [Next]_vars => CutIsShown'
<1> SUFFICES ASSUME TypeOK, CutIsShown, [Next]_vars PROVE CutIsShown'
  OBVIOUS
<1>1. ASSUME NEW text \in Kinds, Speak(text)
      PROVE CutIsShown'
  BY <1>1 DEF Speak, process, output, time, CutIsShown, Closed
<1>2. ASSUME NEW state \in {"invalid", "valid"}, NEW severe \in BOOLEAN, WriteResult(state, severe)
      PROVE CutIsShown'
  BY <1>2 DEF WriteResult, process, output, time, CutIsShown, Closed
<1>3. ASSUME NEW severe \in BOOLEAN, StrayWrites(severe)
      PROVE CutIsShown'
  BY <1>3 DEF StrayWrites, process, output, time, CutIsShown, Closed
<1>4. ASSUME NEW kind \in {"holding", "loose"}, NEW leaves \in BOOLEAN, StartHelper(kind, leaves)
      PROVE CutIsShown'
  BY <1>4 DEF StartHelper, process, output, time, CutIsShown, Closed
<1>5. CASE HelperEnds
  BY <1>5 DEF HelperEnds, process, output, time, CutIsShown, Closed
<1>6. CASE ChildExits
  BY <1>6 DEF ChildExits, process, output, time, CutIsShown, Closed
<1>7. CASE TakeInput
  BY <1>7 DEF TakeInput, Enter, process, output, time, CutIsShown, Closed
<1>8. CASE Spawn
  BY <1>8 DEF Spawn, Enter, process, output, time, CutIsShown, Closed
<1>9. CASE NotInstalled
  BY <1>9 DEF NotInstalled, Enter, Fail, process, output, time, CutIsShown, Closed
<1>10. CASE Feed
  BY <1>10 DEF Feed, Enter, process, output, time, CutIsShown, Closed
<1>11. CASE SeeExit
  BY <1>11 DEF SeeExit, Enter, process, output, time, CutIsShown, Closed
<1>12. CASE TimeOut
  BY <1>12 DEF TimeOut, StopFor, Enter, process, output, time, CutIsShown, Closed
<1>13. CASE ObeyCancel
  BY <1>13 DEF ObeyCancel, StopFor, Enter, process, output, time, CutIsShown, Closed
<1>14. CASE SeeItGone
  BY <1>14 DEF SeeItGone, Enter, process, output, time, CutIsShown, Closed
<1>15. CASE ForceKill
  BY <1>15 DEF ForceKill, Enter, process, output, time, CutIsShown, Closed
<1>16. CASE Drained
  BY <1>16 DEF Drained, Enter, process, output, time, CutIsShown, Closed
<1>17. CASE GiveUp
  BY <1>17 DEF GiveUp, Enter, process, output, time, CutIsShown, Closed
<1>18. CASE Unusable
  BY <1>18 DEF Unusable, Enter, Fail, process, output, time, CutIsShown, Closed
<1>19. ASSUME NEW severe \in BOOLEAN, RunAgain(severe)
      PROVE CutIsShown'
  BY <1>19, RunAgainEffect DEF CutIsShown, Closed
<1>20. ASSUME NEW severe \in BOOLEAN, Conclude(severe)
      PROVE CutIsShown'
  BY <1>20, ConcludeEffect DEF CutIsShown, Closed
<1>21. CASE Read
  BY <1>21 DEF Read, process, output, time, CutIsShown, Closed
<1>22. CASE Cancel
  BY <1>22 DEF Cancel, process, output, time, CutIsShown, Closed
<1>23. CASE Tick
  BY <1>23 DEF Tick, Due, process, output, time, CutIsShown, Closed
<1>24. CASE UNCHANGED vars
  BY <1>24 DEF vars, process, output, time, CutIsShown, Closed
<1>25. QED
  BY <1>1, <1>2, <1>3, <1>4, <1>5, <1>6, <1>7, <1>8, <1>9, <1>10, <1>11, <1>12, <1>13,
     <1>14, <1>15, <1>16, <1>17, <1>18, <1>19, <1>20, <1>21, <1>22, <1>23, <1>24
  DEF Next, Engine, Supervise

\* Output that the supervisor hands over is complete or marked as cut
\* (supervise.rs, drain and finish).
THEOREM CutShown == Spec => []CutIsShown
<1>1. Init => TypeOK /\ CutIsShown
  <2>1. Init => CutIsShown
    BY DEF Init, CutIsShown
  <2>2. QED
    BY <2>1, InitTyped
<1>2. QED
  BY <1>1, TypeStep, CutStep, PTL DEF Spec

LEMMA ReportedStep == TypeOK /\ Reported /\ [Next]_vars => Reported'
<1> SUFFICES ASSUME TypeOK, Reported, [Next]_vars PROVE Reported'
  OBVIOUS
<1>1. ASSUME NEW text \in Kinds, Speak(text)
      PROVE Reported'
  BY <1>1 DEF Speak, process, output, time, Reported
<1>2. ASSUME NEW state \in {"invalid", "valid"}, NEW severe \in BOOLEAN, WriteResult(state, severe)
      PROVE Reported'
  BY <1>2 DEF WriteResult, process, output, time, Reported
<1>3. ASSUME NEW severe \in BOOLEAN, StrayWrites(severe)
      PROVE Reported'
  BY <1>3 DEF StrayWrites, process, output, time, Reported
<1>4. ASSUME NEW kind \in {"holding", "loose"}, NEW leaves \in BOOLEAN, StartHelper(kind, leaves)
      PROVE Reported'
  BY <1>4 DEF StartHelper, process, output, time, Reported
<1>5. CASE HelperEnds
  BY <1>5 DEF HelperEnds, process, output, time, Reported
<1>6. CASE ChildExits
  BY <1>6 DEF ChildExits, process, output, time, Reported
<1>7. CASE TakeInput
  BY <1>7 DEF TakeInput, Enter, process, output, time, Reported
<1>8. CASE Spawn
  BY <1>8 DEF Spawn, Enter, process, output, time, Reported
<1>9. CASE NotInstalled
  BY <1>9 DEF NotInstalled, Enter, Fail, process, output, time, Reported
<1>10. CASE Feed
  BY <1>10 DEF Feed, Enter, process, output, time, Reported
<1>11. CASE SeeExit
  BY <1>11 DEF SeeExit, Enter, process, output, time, Reported
<1>12. CASE TimeOut
  BY <1>12 DEF TimeOut, StopFor, Enter, process, output, time, Reported
<1>13. CASE ObeyCancel
  BY <1>13 DEF ObeyCancel, StopFor, Enter, process, output, time, Reported
<1>14. CASE SeeItGone
  BY <1>14 DEF SeeItGone, Enter, process, output, time, Reported
<1>15. CASE ForceKill
  BY <1>15 DEF ForceKill, Enter, process, output, time, Reported
<1>16. CASE Drained
  BY <1>16 DEF Drained, Enter, process, output, time, Reported
<1>17. CASE GiveUp
  BY <1>17 DEF GiveUp, Enter, process, output, time, Reported
<1>18. CASE Unusable
  BY <1>18 DEF Unusable, Enter, Fail, process, output, time, Reported
<1>19. ASSUME NEW severe \in BOOLEAN, RunAgain(severe)
      PROVE Reported'
  BY <1>19, RunAgainEffect DEF Reported
<1>20. ASSUME NEW severe \in BOOLEAN, Conclude(severe)
      PROVE Reported'
  BY <1>20, ConcludeEffect DEF Reported
<1>21. CASE Read
  BY <1>21 DEF Read, process, output, time, Reported
<1>22. CASE Cancel
  BY <1>22 DEF Cancel, process, output, time, Reported
<1>23. CASE Tick
  BY <1>23 DEF Tick, Due, process, output, time, Reported
<1>24. CASE UNCHANGED vars
  BY <1>24 DEF vars, process, output, time, Reported
<1>25. QED
  BY <1>1, <1>2, <1>3, <1>4, <1>5, <1>6, <1>7, <1>8, <1>9, <1>10, <1>11, <1>12, <1>13,
     <1>14, <1>15, <1>16, <1>17, <1>18, <1>19, <1>20, <1>21, <1>22, <1>23, <1>24
  DEF Next, Engine, Supervise

\* A published review is of an engine that was not killed and has exited
\* (runner.rs, run_with_repair).
THEOREM NoneFromKilled == Spec => []NothingFromKilled
<1>1. Init => TypeOK /\ Reported
  <2>1. Init => Reported
    BY DEF Init, Reported, NoReport
  <2>2. QED
    BY <2>1, InitTyped
<1>2. Reported => NothingFromKilled
  BY DEF Reported, NothingFromKilled
<1>3. QED
  BY <1>1, <1>2, TypeStep, ReportedStep, PTL DEF Spec

\* What the supervisor hands over is whole or marked as cut, and no review is made of
\* the output of an engine that was killed (supervise.rs, finish; runner.rs,
\* run_with_repair).
THEOREM HandedOver == Spec => []HandedOverWhole
<1>1. CutIsShown /\ NothingFromKilled => HandedOverWhole
  BY DEF HandedOverWhole
<1>2. QED
  BY <1>1, CutShown, NoneFromKilled, PTL

\* A second engine run only ever looks deeper, and there is no third
\* (depth.rs, escalate: "Exactly once").
THEOREM DeeperOnce == Spec => OnceDeeper
<1>1. [Next]_vars =>
      [attempt' # attempt => depth = "standard" /\ depth' = "deep" /\ attempt' = 2]_vars
  <2> SUFFICES ASSUME [Next]_vars, attempt' # attempt
               PROVE depth = "standard" /\ depth' = "deep" /\ attempt' = 2
    OBVIOUS
  <2>1. \E severe \in BOOLEAN : RunAgain(severe)
    BY DEF Next, Engine, Supervise, Speak, WriteResult, StrayWrites, StartHelper,
       HelperEnds,
           ChildExits, TakeInput, Spawn, NotInstalled, Feed, SeeExit, TimeOut, ObeyCancel,
           StopFor, SeeItGone, ForceKill, Drained, GiveUp, Unusable, Conclude, Read, Cancel,
           Tick, vars
  <2>2. QED
    BY <2>1 DEF RunAgain, Escalates
<1>2. QED
  BY <1>1, PTL DEF Spec, OnceDeeper
=============================================================================
