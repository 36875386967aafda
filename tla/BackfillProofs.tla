---------------------------- MODULE BackfillProofs ----------------------------
(***************************************************************************)
(* The conversion of old covers keeps SettledKept, CoversRespected and     *)
(* BudgetsKept.                                                            *)
(*                                                                         *)
(* What CoverBackfillProofs shows is about any jobs and any passes.  Here  *)
(* it is used twice: as it stands, for the instance where two passes and   *)
(* every failure meet in a job, and as B, with Pair and OnePass in place   *)
(* of its constants, for the instance whose jobs compete for the budgets.  *)
(* B has definitions of its own, so that instance is first shown to take   *)
(* the steps B speaks of.                                                  *)
(***************************************************************************)
EXTENDS MCBackfill, CoverBackfillProofs

B == INSTANCE CoverBackfillProofs
    WITH Jobs <- Pair, Passes <- OnePass, Hazards <- {"pause", "lookup", "error", "call"}

everything == <<subject, vars>>

-----------------------------------------------------------------------------
(* One job.                                                                 *)

OneJob == subject = "overlap" => BackfillInv

LEMMA OneJobStarts == BackfillInit => OneJob
  BY BackfillSizes, BackfillStarts DEF BackfillInit, OneJob

LEMMA OneJobGoesOn == OneJob /\ [BackfillNext]_everything => OneJob'
<1> SUFFICES ASSUME OneJob, [BackfillNext]_everything, (subject = "overlap")' PROVE BackfillInv'
  BY DEF OneJob
<1>1. subject = "overlap" /\ [Next]_vars
  BY DEF BackfillNext, everything
<1> QED BY <1>1, BackfillSizes, BackfillGoesOn DEF OneJob

\* What is settled is not taken up again, and a closed run has no work left
\* (cover-backfill.ts closeCoverBackfillRuns).
THEOREM SettledIsKept == BackfillSpec => []SettledKept
<1>1. OneJob => SettledKept
  BY InvGives DEF OneJob, SettledKept
<1> QED BY <1>1, OneJobStarts, OneJobGoesOn, PTL DEF BackfillSpec, everything

\* No step converts over a cover the host chose meanwhile, or writes one off that
\* can still be converted (cover-backfill.ts backfillPredicatesHold, recordTerminal).
THEOREM CoversAreRespected == BackfillSpec => CoversRespected
<1>1. OneJob /\ [BackfillNext]_everything
      => [subject = "overlap" => NewerCoverWins /\ NotWrittenOff]_everything
  <2> SUFFICES ASSUME OneJob, BackfillNext, subject = "overlap" PROVE NewerCoverWins /\ NotWrittenOff
    OBVIOUS
  <2>1. BackfillInv /\ Next
    BY DEF OneJob, BackfillNext
  <2> QED BY <2>1, BackfillSizes, StepSpares, StepConvertsOwn
<1> QED BY <1>1, OneJobStarts, OneJobGoesOn, PTL DEF BackfillSpec, CoversRespected, everything

-----------------------------------------------------------------------------
(* The two jobs take the steps of B.                                        *)

LEMMA SameBounds == B!BackfillBounds /\ "delete" \notin {"pause", "lookup", "error", "call"}
  BY BackfillSizes
  DEF B!BackfillBounds, TwoJobs!BackfillBounds, B!IsFiniteSet, TwoJobs!IsFiniteSet, B!NoJob,
  TwoJobs!NoJob

LEMMA SameInit == TwoJobs!Init => B!Init
  BY DEF TwoJobs!Init, B!Init, B!IdleRun, TwoJobs!IdleRun, B!IdlePass, TwoJobs!IdlePass, B!NoJob,
     TwoJobs!NoJob

LEMMA SameCard == \A S : TwoJobs!Cardinality(S) = B!Cardinality(S)
  BY DEF TwoJobs!Cardinality, B!Cardinality

LEMMA SameBudgets ==
    B!InFlightBounded /\ B!MinuteBounded => TwoJobs!InFlightBounded /\ TwoJobs!MinuteBounded
  BY SameCard
  DEF B!InFlightBounded, TwoJobs!InFlightBounded, B!MinuteBounded, TwoJobs!MinuteBounded,
      B!Working, TwoJobs!Working

\* What the two copies of a step are written with.
USE SameCard DEF
    TwoJobs!rows, B!rows, TwoJobs!others, B!others, TwoJobs!Nonterminal, B!Nonterminal,
    TwoJobs!ClaimState, B!ClaimState, TwoJobs!Live, B!Live, TwoJobs!Ended, B!Ended,
    TwoJobs!Slots, B!Slots, TwoJobs!IdleRun, B!IdleRun, TwoJobs!StartedRun, B!StartedRun,
    TwoJobs!IdlePass, B!IdlePass, TwoJobs!NoJob, B!NoJob, TwoJobs!Calling, B!Calling,
    TwoJobs!Blocked, B!Blocked, TwoJobs!Confirms, B!Confirms, TwoJobs!Effect, B!Effect,
    TwoJobs!At, B!At, TwoJobs!Goes, B!Goes, TwoJobs!Ends, B!Ends, TwoJobs!Restarts, B!Restarts,
    TwoJobs!Seen, B!Seen, TwoJobs!Reads, B!Reads, TwoJobs!OnlyRun, B!OnlyRun,
    TwoJobs!OnlyJob, B!OnlyJob, TwoJobs!RecordTerminal, B!RecordTerminal,
    TwoJobs!Nothing, B!Nothing, TwoJobs!Claim, B!Claim, TwoJobs!Outdated, B!Outdated,
    TwoJobs!Budget, B!Budget, TwoJobs!Reconcilable, B!Reconcilable, TwoJobs!Refused, B!Refused,
    TwoJobs!Admitted, B!Admitted, TwoJobs!Publish, B!Publish, TwoJobs!Decided, B!Decided,
    TwoJobs!LookAs, B!LookAs, TwoJobs!Proven, B!Proven, TwoJobs!Checkpoints, B!Checkpoints,
    TwoJobs!Closable, B!Closable

LEMMA SameRunSteps == ASSUME NEW j, TwoJobs!RunSteps(j) PROVE B!RunSteps(j)
  BY DEF TwoJobs!Checkpoint, B!Checkpoint, TwoJobs!Commit, B!Commit, TwoJobs!Finalize, B!Finalize,
     TwoJobs!Freeze, B!Freeze, TwoJobs!Normalize, B!Normalize, TwoJobs!Preflight, B!Preflight,
     TwoJobs!Profile, B!Profile, TwoJobs!ReadFence, B!ReadFence, TwoJobs!Refuse, B!Refuse,
     TwoJobs!RunEnds, B!RunEnds, TwoJobs!RunSteps, B!RunSteps, TwoJobs!Skip, B!Skip,
     TwoJobs!Start, B!Start

LEMMA SameOperatorSteps == ASSUME NEW j, TwoJobs!OperatorSteps(j) PROVE B!OperatorSteps(j)
  BY DEF TwoJobs!OperatorClaims, B!OperatorClaims, TwoJobs!OperatorConfirms, B!OperatorConfirms,
     TwoJobs!OperatorSteps, B!OperatorSteps, TwoJobs!OperatorTriggers, B!OperatorTriggers

LEMMA SamePicks == ASSUME NEW j \in Pair, TwoJobs!Picks(j) PROVE B!Picks(j)
  BY DEF TwoJobs!Picks, B!Picks, TwoJobs!RecoverStale, B!RecoverStale, TwoJobs!Select, B!Select

LEMMA SameSettles == ASSUME NEW j, TwoJobs!Settles(j) PROVE B!Settles(j)
  BY DEF TwoJobs!PurgeBegins, B!PurgeBegins, TwoJobs!ResolveSuperseded, B!ResolveSuperseded,
     TwoJobs!SettleUnreachable, B!SettleUnreachable, TwoJobs!Settles, B!Settles

LEMMA SameHosts == ASSUME NEW j, TwoJobs!Hosts(j) PROVE B!Hosts(j)
  BY DEF TwoJobs!Deletes, B!Deletes, TwoJobs!Hosts, B!Hosts, TwoJobs!Replaces, B!Replaces

LEMMA SameTime == ASSUME NEW j, TwoJobs!Time(j) PROVE B!Time(j)
  BY DEF TwoJobs!Ages, B!Ages, TwoJobs!MinuteEnds, B!MinuteEnds, TwoJobs!Time, B!Time,
     TwoJobs!WindowEnds, B!WindowEnds

LEMMA SamePassSteps == ASSUME NEW p, TwoJobs!PassSteps(p) PROVE B!PassSteps(p)
  BY DEF TwoJobs!Call, B!Call, TwoJobs!ClaimRecovery, B!ClaimRecovery, TwoJobs!ConfirmRecovery,
     B!ConfirmRecovery, TwoJobs!Look, B!Look, TwoJobs!PassSteps, B!PassSteps,
     TwoJobs!RecordFailure, B!RecordFailure

LEMMA SameClose == ASSUME TwoJobs!Close PROVE B!Close
  BY DEF TwoJobs!Close, B!Close

LEMMA SameFaults == TwoJobs!Faults => B!Faults
  BY DEF TwoJobs!Faults, B!Faults, TwoJobs!InstanceErrs, B!InstanceErrs, TwoJobs!NormalizeFails,
     B!NormalizeFails, TwoJobs!OperatorLeaves, B!OperatorLeaves, TwoJobs!PassDies, B!PassDies,
     TwoJobs!LookFails, B!LookFails, TwoJobs!InstancePaused, B!InstancePaused, TwoJobs!CallFails,
     B!CallFails, TwoJobs!Unsupported, B!Unsupported

LEMMA SameNext == TwoJobs!Next => B!Next
  BY SameRunSteps, SameOperatorSteps, SamePicks, SameSettles, SameHosts, SameTime, SamePassSteps,
     SameClose, SameFaults
  DEF TwoJobs!Next, B!Next, TwoJobs!Steady, B!Steady

-----------------------------------------------------------------------------
(* Two jobs.                                                                *)

Competing == subject = "budget" => B!BackfillInv /\ B!BudgetInv

LEMMA CompetingStarts == BackfillInit => Competing
  BY SameBounds, SameInit, B!BackfillStarts, B!BudgetStarts DEF BackfillInit, Competing

LEMMA CompetingGoesOn == Competing /\ [BackfillNext]_everything => Competing'
<1> SUFFICES ASSUME Competing, [BackfillNext]_everything, (subject = "budget")'
             PROVE B!BackfillInv' /\ B!BudgetInv'
  BY DEF Competing
<1>1. subject = "budget" /\ (TwoJobs!Next \/ UNCHANGED vars)
  BY DEF BackfillNext, everything
<1>2. B!Next \/ UNCHANGED B!vars
  BY <1>1, SameNext DEF vars, B!vars
<1> QED BY <1>1, <1>2, SameBounds, B!BackfillGoesOn, B!BudgetGoesOn DEF Competing

\* No more instances convert at once than the run may have in flight, and no more
\* are put on the platform in a minute than the deployment may create
\* (cover-dispatch.ts coverBackfillInFlightBudgetSql, coverBackfillMinuteBudgetSql).
THEOREM BudgetsAreKept == BackfillSpec => []BudgetsKept
<1>1. Competing => BudgetsKept
  BY SameBounds, SameBudgets, B!BudgetGives DEF Competing, BudgetsKept
<1> QED BY <1>1, CompetingStarts, CompetingGoesOn, PTL DEF BackfillSpec, everything
===============================================================================
