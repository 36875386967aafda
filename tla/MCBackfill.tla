------------------------------ MODULE MCBackfill ------------------------------
(***************************************************************************)
(* The conversion of old covers on two instances, each behaviour of one:   *)
(* one job that two passes and every failure meet in, and two jobs that    *)
(* compete for the budgets.  Nothing tells two jobs or passes apart.       *)
(***************************************************************************)
EXTENDS CoverBackfill, TLC

CONSTANTS Pair, OnePass   \* the two jobs and who passes over them

VARIABLE subject

TwoJobs == INSTANCE CoverBackfill
    WITH Jobs <- Pair, Passes <- OnePass, Hazards <- {"pause", "error", "call"}

ASSUME BackfillSizes == BackfillBounds /\ TwoJobs!BackfillBounds

BackfillInit ==
    \/ subject = "overlap" /\ Init
    \/ subject = "budget" /\ TwoJobs!Init
BackfillNext ==
    \/ subject = "overlap" /\ Next /\ UNCHANGED subject
    \/ subject = "budget" /\ TwoJobs!Next /\ UNCHANGED subject
BackfillSpec == BackfillInit /\ [][BackfillNext]_<<subject, vars>>

Symmetry == Permutations(Passes) \cup Permutations(Pair)

\* What passes, runs and the operator keep together: the two budgets, and that
\* what is settled is not taken up again.
BudgetsKept == subject = "budget" => TwoJobs!InFlightBounded /\ TwoJobs!MinuteBounded
SettledKept == subject = "overlap" => TypeOK /\ ClosedForGood

\* What no step of theirs does: convert over a newer cover, write a cover off that
\* can still be converted.
CoversRespected == [][subject = "overlap" => NewerCoverWins /\ NotWrittenOff]_<<subject, vars>>
===============================================================================
