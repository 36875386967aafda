----------------------------- MODULE CoverBackfill -----------------------------
(***************************************************************************)
(* The conversion of legacy covers: an operator's run of jobs, one for each *)
(* event, the claims that spend its two budgets, the Workflow instance of   *)
(* each job, the scheduled passes that recover, reconcile, resolve and      *)
(* close, and hosts who replace or delete what is being converted.          *)
(*                                                                          *)
(* Job and fence move their generation together; an observer's flag fresh   *)
(* says that no claim has moved it since.  The clock of a fence also counts *)
(* what settled in the last minute; that only refuses, and is left out.     *)
(***************************************************************************)
EXTENDS Integers, FiniteSets

CONSTANTS Jobs,
          Passes,     \* scheduled passes that may overlap
          InFlight,   \* MAX_COVER_BACKFILL_IN_FLIGHT: twenty-five in the program
          PerMinute,  \* MAX_COVER_BACKFILL_CREATIONS_PER_MINUTE: twenty-five
          Profiles,   \* profile steps of one instance: six
          Hazards     \* what may go wrong in this run of the model

NoJob == "none"

BackfillBounds ==
    /\ InFlight \in Nat \ {0} /\ PerMinute \in Nat \ {0} /\ Profiles \in Nat \ {0}
    /\ IsFiniteSet(Jobs) /\ NoJob \notin Jobs
    /\ Hazards \subseteq {"replace", "delete", "pause", "error", "lookup", "call", "die", "unsupported"}

VARIABLES
    ledger,    \* status of the run
    job, fence, set, rendered, source, platform, run,
    operator,  \* what the operator did of each job's dispatch
    pass

vars == <<ledger, job, fence, set, rendered, source, platform, run, operator, pass>>
rows == <<job, fence, set>>
others == <<ledger, rendered, source>>

Nonterminal == {"queued", "normalizing", "rendering", "finalizing"}
ClaimState == {"creating", "resuming", "restarting"}
Live == ClaimState \cup {"confirmed"}
Ended == {"ended", "complete"}
Slots == 1..Profiles
IdleRun == [pc |-> "off", fresh |-> FALSE, legacy |-> FALSE, status |-> "queued", dispatch |-> "pending", next |-> 1]
StartedRun == [IdleRun EXCEPT !.pc = "preflight"]
IdlePass == [pc |-> "idle", job |-> NoJob, status |-> "queued", dispatch |-> "pending",
             held |-> FALSE, legacy |-> FALSE, fresh |-> FALSE, found |-> "failed", target |-> "creating"]
Calling(j, target) ==
    [pc |-> "call", job |-> j, status |-> "queued", dispatch |-> "pending", held |-> FALSE, legacy |-> FALSE,
     fresh |-> TRUE, found |-> "failed", target |-> target]

JobStatus == Nonterminal \cup {"retryable", "failed", "applied", "skipped", "resolved", "needs_replacement"}
Dispatch == Live \cup {"pending", "blocked"}

TypeOK ==
    /\ ledger \in {"executing", "verified", "failed"}
    /\ job \in [Jobs -> [status: JobStatus, dispatch: Dispatch, young: BOOLEAN, recent: BOOLEAN, late: BOOLEAN]]
    /\ fence \in [Jobs -> {"none", "open", "blocked"}]
    /\ set \in [Jobs -> {"none", "staging", "ready", "active", "abandoned"}]
    /\ rendered \in [Jobs -> SUBSET Slots]
    /\ source \in [Jobs -> {"legacy", "replaced", "deleted", "converted"}]
    /\ platform \in [Jobs -> {"absent", "active", "paused"} \cup Ended]
    /\ run \in [Jobs -> [pc: {"off", "preflight", "fence", "refuse", "skip", "start", "normalize", "freeze", "profile",
                              "finalize", "checkpoint", "commit", "done"},
                         fresh: BOOLEAN, legacy: BOOLEAN, status: JobStatus, dispatch: Dispatch, next: 1..(Profiles + 1)]]
    /\ operator \in [Jobs -> {"idle", "claimed", "launched"}]
    /\ pass \in [Passes -> [pc: {"idle", "look", "record", "claim", "call", "confirm"},
                            job: Jobs \cup {NoJob}, status: JobStatus, dispatch: Dispatch, held: BOOLEAN,
                            legacy: BOOLEAN, fresh: BOOLEAN, found: {"active", "paused", "failed"} \cup Ended,
                            target: ClaimState]]

\* The inventory is complete: a pending job of every legacy cover.
Init ==
    /\ ledger = "executing"
    /\ job = [j \in Jobs |-> [status |-> "queued", dispatch |-> "pending", young |-> FALSE,
                              recent |-> FALSE, late |-> FALSE]]
    /\ fence = [j \in Jobs |-> "none"] /\ set = [j \in Jobs |-> "none"]
    /\ rendered = [j \in Jobs |-> {}] /\ source = [j \in Jobs |-> "legacy"]
    /\ platform = [j \in Jobs |-> "absent"] /\ run = [j \in Jobs |-> IdleRun]
    /\ operator = [j \in Jobs |-> "idle"] /\ pass = [p \in Passes |-> IdlePass]

-----------------------------------------------------------------------------
(* Claims.                                                                 *)

\* Mutant of Budget: every job has a minute of its own.
BudgetOfDispatch(j) == Cardinality({k \in Jobs : fence[k] = "open" /\ job[k].recent}) < PerMinute
\* Capacity of the run, the rolling minute of the deployment, and this instance's own minute.
Budget(j) ==
    /\ Cardinality({k \in Jobs \ {j} : job[k].dispatch \in Live /\ job[k].status \in Nonterminal}) < InFlight
    /\ Cardinality({k \in Jobs : fence[k] = "open" /\ job[k].recent}) < PerMinute
    /\ ~job[j].recent

\* A new generation of job and fence; who holds the old one can only be refused,
\* but for a call that is on its way.
Claim(j, status, dispatch) ==
    /\ job' = [job EXCEPT ![j] = [status |-> status, dispatch |-> dispatch, young |-> TRUE,
                                  recent |-> TRUE, late |-> FALSE]]
    /\ run' = [run EXCEPT ![j].fresh = FALSE]
    /\ UNCHANGED set

Outdated(j) ==
    [p \in Passes |-> IF pass[p].job # j THEN pass[p]
                      ELSE IF pass[p].pc = "call" THEN [pass[p] EXCEPT !.fresh = FALSE] ELSE IdlePass]

\* The dispatch artifact: fence and claim in one unit, refused as a whole.
OperatorClaims(j) ==
    /\ operator[j] = "idle" /\ job[j].dispatch = "pending" /\ job[j].status = "queued"
    /\ ledger = "executing" /\ source[j] # "deleted" /\ fence[j] # "blocked" /\ Budget(j)
    /\ Claim(j, "queued", "creating") /\ fence' = [fence EXCEPT ![j] = "open"]
    /\ operator' = [operator EXCEPT ![j] = "claimed"]
    /\ UNCHANGED <<others, platform, pass>>

\* createBatch skips a retained ID; restart begins again; resume needs a paused instance.
Effect(j, dispatch) ==
    IF \/ dispatch = "creating" /\ platform[j] = "absent"
       \/ dispatch = "restarting" /\ platform[j] # "absent"
    THEN /\ platform' = [platform EXCEPT ![j] = "active"] /\ run' = [run EXCEPT ![j] = StartedRun]
    ELSE /\ platform' = IF dispatch = "resuming" /\ platform[j] = "paused"
                        THEN [platform EXCEPT ![j] = "active"] ELSE platform
         /\ UNCHANGED run

OperatorTriggers(j) ==
    /\ operator[j] = "claimed" /\ operator' = [operator EXCEPT ![j] = "launched"]
    /\ Effect(j, "creating") /\ UNCHANGED <<ledger, rows, rendered, source, pass>>

Blocked(j) == [job EXCEPT ![j].status = "failed", ![j].dispatch = "blocked", ![j].late = FALSE]

\* confirmCoverBackfillDispatch, of a generation that is still the current one.
Confirms(j, from) ==
    IF fence[j] = "blocked"
    THEN job' = IF job[j].status \in Nonterminal THEN Blocked(j) ELSE job
    ELSE job' = IF fence[j] = "open" /\ job[j].dispatch = from /\ source[j] # "deleted"
                THEN [job EXCEPT ![j].dispatch = "confirmed"] ELSE job

\* A fence the purge holds also gets the instance terminated.
OperatorConfirms(j) ==
    /\ operator[j] = "launched" /\ operator' = [operator EXCEPT ![j] = "idle"]
    /\ Confirms(j, "creating")
    /\ IF fence[j] = "blocked" /\ platform[j] \in {"active", "paused"}
       THEN platform' = [platform EXCEPT ![j] = "ended"] /\ run' = [run EXCEPT ![j] = IdleRun]
       ELSE UNCHANGED <<platform, run>>
    /\ UNCHANGED <<others, fence, set, pass>>

OperatorLeaves(j) ==
    /\ "die" \in Hazards /\ operator[j] # "idle" /\ operator' = [operator EXCEPT ![j] = "idle"]
    /\ UNCHANGED <<others, rows, platform, run, pass>>

-----------------------------------------------------------------------------
(* The Workflow instance of a job.                                         *)

At(j, pc) == platform[j] = "active" /\ run[j].pc = pc
Goes(j, pc) == run' = [run EXCEPT ![j].pc = pc]
Ends(j) == run' = [run EXCEPT ![j] = [IdleRun EXCEPT !.pc = "done"]]
Restarts(j) == run' = [run EXCEPT ![j] = [IdleRun EXCEPT !.pc = "finalize"]]

\* Mutant of RecordTerminal: of whatever generation the job has.
RecordTerminalOfAny(j, status, seen) ==
    IF job[j].status = seen.status /\ fence[j] = "open"
    THEN /\ job' = [job EXCEPT ![j].status = status, ![j].late = FALSE]
         /\ set' = [set EXCEPT ![j] = IF @ \in {"staging", "ready"} THEN "abandoned" ELSE @]
    ELSE UNCHANGED <<job, set>>
\* recordTerminal, of the job as it was read.
RecordTerminal(j, status, seen) ==
    IF /\ seen.fresh /\ job[j].status = seen.status /\ job[j].dispatch = seen.dispatch
       /\ job[j].status # "failed" /\ fence[j] = "open"
    THEN /\ job' = [job EXCEPT ![j].status = status, ![j].late = FALSE]
         /\ set' = [set EXCEPT ![j] = IF @ \in {"staging", "ready"} THEN "abandoned" ELSE @]
    ELSE UNCHANGED <<job, set>>

Seen(j) ==
    [pc |-> "off", fresh |-> TRUE, legacy |-> (source[j] = "legacy"),
     status |-> job[j].status, dispatch |-> job[j].dispatch, next |-> 1]
Reads(j, pc) == run' = [run EXCEPT ![j] = [Seen(j) EXCEPT !.pc = pc]]
OnlyRun == UNCHANGED <<others, rows, platform, operator, pass>>
OnlyJob == UNCHANGED <<others, fence, platform, operator, pass>>

\* coverBackfillConfirmStep, then the reads of the preflight: a settled job and
\* one that was never claimed end it.
Preflight(j) ==
    /\ At(j, "preflight")
    /\ Confirms(j, "creating")
    /\ IF job'[j].status \in Nonterminal \cup {"retryable"} /\ job'[j].dispatch \in Live
       THEN run' = [run EXCEPT ![j] = [Seen(j) EXCEPT !.pc = "fence", !.dispatch = job'[j].dispatch]]
       ELSE Ends(j)
    /\ UNCHANGED set /\ OnlyJob

\* The fence, at the generation that was read; and the event, as it was read.
ReadFence(j) ==
    /\ At(j, "fence")
    /\ Goes(j, IF fence[j] # "open" \/ ~run[j].fresh THEN "refuse" ELSE IF run[j].legacy THEN "start" ELSE "skip")
    /\ OnlyRun
Refuse(j) == At(j, "refuse") /\ RecordTerminal(j, "failed", run[j]) /\ Ends(j) /\ OnlyJob
Skip(j) == At(j, "skip") /\ RecordTerminal(j, "skipped", run[j]) /\ Ends(j) /\ OnlyJob

Start(j) ==
    /\ At(j, "start")
    /\ IF run[j].status \in {"rendering", "finalizing"} THEN Goes(j, "normalize") /\ UNCHANGED job
       ELSE IF job[j].status \in {"queued", "normalizing"}
       THEN job' = [job EXCEPT ![j].status = "normalizing"] /\ Goes(j, "normalize")
       ELSE Ends(j) /\ UNCHANGED job
    /\ UNCHANGED set /\ OnlyJob

\* coverBackfillNormalize reads.
Normalize(j) ==
    /\ At(j, "normalize")
    /\ CASE job[j].status \in {"rendering", "finalizing"} -> Reads(j, "profile")
         [] job[j].status = "normalizing" -> Reads(j, IF source[j] = "legacy" THEN "freeze" ELSE "skip")
         [] OTHER -> Ends(j)
    /\ OnlyRun

\* A master, then the frozen manifest and its set with the job's move.
Freeze(j) ==
    /\ At(j, "freeze")
    /\ IF source[j] = "legacy" /\ job[j].status = "normalizing"
       THEN /\ job' = [job EXCEPT ![j].status = "rendering"] /\ set' = [set EXCEPT ![j] = "staging"]
            /\ Goes(j, "profile")
       ELSE Ends(j) /\ UNCHANGED <<job, set>>
    /\ OnlyJob
Unsupported(j) ==
    /\ "unsupported" \in Hazards
    /\ At(j, "freeze") /\ RecordTerminal(j, "needs_replacement", run[j]) /\ Ends(j) /\ OnlyJob
NormalizeFails(j) ==
    /\ "error" \in Hazards
    /\ At(j, "freeze") /\ RecordTerminal(j, "retryable", run[j]) /\ Ends(j) /\ OnlyJob

\* A profile step works for a job that is rendering, and for no other.
Profile(j) ==
    /\ At(j, "profile")
    /\ IF run[j].next > Profiles THEN Restarts(j) /\ UNCHANGED rendered
       ELSE /\ rendered' = IF job[j].status = "rendering" THEN [rendered EXCEPT ![j] = @ \cup {run[j].next}] ELSE rendered
            /\ run' = [run EXCEPT ![j] = [IdleRun EXCEPT !.pc = "profile", !.next = run[j].next + 1]]
    /\ UNCHANGED <<ledger, source, rows, platform, operator, pass>>

\* coverBackfillFinalize reads.
Finalize(j) ==
    /\ At(j, "finalize")
    /\ IF job[j].status \notin {"rendering", "finalizing"} THEN Ends(j)
       ELSE Reads(j, IF source[j] # "legacy" THEN "skip"
                     ELSE IF job[j].status = "finalizing" /\ set[j] = "ready" THEN "commit"
                     ELSE "checkpoint")
    /\ OnlyRun

\* After a batch that did not commit: what is settled ends the run, a changed
\* row is skipped as it is now, and anything else is thrown to the step's retry.
Refused(j) ==
    IF job[j].status \in {"applied", "failed", "retryable"} THEN Ends(j) /\ UNCHANGED <<job, set>>
    ELSE IF source[j] # "legacy" THEN RecordTerminal(j, "skipped", Seen(j)) /\ Ends(j)
    ELSE Restarts(j) /\ UNCHANGED <<job, set>>

Admitted(j) == run[j].fresh /\ fence[j] = "open" /\ source[j] = "legacy"

\* An incomplete inventory ends the job; a complete one is recorded.
Checkpoint(j) ==
    /\ At(j, "checkpoint")
    /\ IF rendered[j] # Slots THEN RecordTerminal(j, "failed", run[j]) /\ Ends(j)
       ELSE IF Admitted(j) /\ job[j].status \in {"rendering", "finalizing"} /\ set[j] = "staging"
       THEN /\ set' = [set EXCEPT ![j] = "ready"] /\ job' = [job EXCEPT ![j].status = "finalizing"]
            /\ Goes(j, "commit")
       ELSE Refused(j)
    /\ OnlyJob

\* The pointer swap, of a job that still owns it.
Publish(j) == Admitted(j) /\ job[j].status = "finalizing" /\ set[j] = "ready"

Commit(j) ==
    /\ At(j, "commit")
    /\ IF Publish(j)
       THEN /\ job' = [job EXCEPT ![j].status = "applied"] /\ set' = [set EXCEPT ![j] = "active"]
            /\ source' = [source EXCEPT ![j] = "converted"] /\ Ends(j)
       ELSE Refused(j) /\ UNCHANGED source
    /\ UNCHANGED <<ledger, fence, rendered, platform, operator, pass>>

RunEnds(j) ==
    /\ At(j, "done") /\ platform' = [platform EXCEPT ![j] = "complete"] /\ run' = [run EXCEPT ![j] = IdleRun]
    /\ UNCHANGED <<others, rows, operator, pass>>
InstanceErrs(j) ==
    /\ "error" \in Hazards
    /\ platform[j] = "active" /\ platform' = [platform EXCEPT ![j] = "ended"] /\ run' = [run EXCEPT ![j] = IdleRun]
    /\ UNCHANGED <<others, rows, operator, pass>>
InstancePaused(j) ==
    /\ "pause" \in Hazards
    /\ platform[j] = "active" /\ run[j].pc \in {"preflight", "normalize", "profile", "finalize"}
    /\ platform' = [platform EXCEPT ![j] = "paused"] /\ UNCHANGED <<others, rows, run, operator, pass>>

-----------------------------------------------------------------------------
(* The scheduled pass.                                                     *)

\* resolveSupersededBackfillJobsBounded
ResolveSuperseded(j) ==
    /\ job[j].status \in {"needs_replacement", "failed", "retryable"} /\ source[j] # "legacy"
    /\ job' = [job EXCEPT ![j].status = "resolved", ![j].late = FALSE]
    /\ UNCHANGED <<others, fence, set, platform, run, operator, pass>>

\* recoverStaleInitialBackfillDispatches: the claim is replayed, without a lookup.
RecoverStale(p, j) ==
    /\ pass[p].pc = "idle" /\ job[j].dispatch = "creating" /\ ~job[j].young /\ job[j].status \in Nonterminal
    /\ IF fence[j] = "open"
       THEN /\ pass' = [pass EXCEPT ![p] = Calling(j, "creating")]
            /\ UNCHANGED job
       ELSE Confirms(j, "creating") /\ UNCHANGED pass
    /\ UNCHANGED <<others, fence, set, platform, run, operator>>

\* Mutant of Reconcilable: a recovery nobody confirmed is left to itself.
ReconcilableConfirmed(j) ==
    \/ job[j].dispatch = "confirmed" /\ job[j].status \in Nonterminal
    \/ job[j].status = "retryable" /\ ~job[j].late
Reconcilable(j) ==
    \/ job[j].dispatch = "confirmed" /\ job[j].status \in Nonterminal
    \/ job[j].status = "retryable" /\ ~job[j].late
    \/ job[j].dispatch \in {"resuming", "restarting"} /\ ~job[j].young /\ job[j].status \in Nonterminal

\* settleUnreachableBackfillJob
SettleUnreachable(j) ==
    /\ Reconcilable(j) /\ (source[j] = "deleted" \/ fence[j] # "open")
    /\ job[j].status \notin {"applied", "skipped", "resolved", "needs_replacement", "failed"}
    /\ fence[j] # "none" \/ job[j].dispatch # "pending"
    /\ job' = Blocked(j)
    /\ UNCHANGED <<others, fence, set, platform, run, operator, pass>>

\* The selection of one row of the pass.
Select(p, j) ==
    /\ pass[p].pc = "idle" /\ Reconcilable(j) /\ fence[j] = "open" /\ source[j] # "deleted"
    /\ pass' = [pass EXCEPT ![p] =
         [pc |-> "look", job |-> j, status |-> job[j].status, dispatch |-> job[j].dispatch,
          held |-> (set[j] # "none"), legacy |-> (source[j] = "legacy"), fresh |-> TRUE,
          found |-> "failed", target |-> "creating"]]
    /\ UNCHANGED <<others, rows, platform, run, operator>>

Nothing(p) == pass' = [pass EXCEPT ![p] = IdlePass]

\* What a lookup's answer calls for.
Decided(p, found) ==
    LET On(pc, target) ==
            [pc |-> pc, job |-> pass[p].job, status |-> pass[p].status, dispatch |-> pass[p].dispatch,
             held |-> pass[p].held, legacy |-> pass[p].legacy, fresh |-> pass[p].fresh,
             found |-> found, target |-> target]
    IN  CASE found = "failed" -> On("claim", "creating")
          [] found = "paused" -> On("claim", "resuming")
          [] found = "active" /\ pass[p].dispatch \in {"resuming", "restarting"} -> On("confirm", pass[p].dispatch)
          [] found \in Ended /\ pass[p].status \in Nonterminal -> On("record", "restarting")
          [] found = "ended" /\ pass[p].status = "retryable" -> On("claim", "restarting")
          [] OTHER -> IdlePass

LookAs(p, found) ==
    /\ pass[p].pc = "look" /\ pass' = [pass EXCEPT ![p] = Decided(p, found)]
    /\ UNCHANGED <<others, rows, platform, run, operator>>
Look(p) ==
    /\ pass[p].pc = "look"
    /\ LookAs(p, IF platform[pass[p].job] = "absent" THEN "failed" ELSE platform[pass[p].job])
LookFails(p) == "lookup" \in Hazards /\ LookAs(p, "failed")

\* recordReconcilePlatformFailure, before the restart is claimed.
RecordFailure(p) ==
    /\ pass[p].pc = "record"
    /\ LET j == pass[p].job
       IN  IF /\ job[j].dispatch = pass[p].dispatch /\ job[j].status \in Nonterminal /\ fence[j] = "open"
           THEN /\ job' = [job EXCEPT ![j].status = "retryable"]
                /\ pass' = [pass EXCEPT ![p].pc = "claim"]
           ELSE Nothing(p) /\ UNCHANGED job
    /\ UNCHANGED <<others, fence, set, platform, run, operator>>

\* The stage D1 can prove of a job whose quartet is as it was read.
Proven(j) == IF set[j] = "none" THEN "queued" ELSE IF rendered[j] = Slots THEN "finalizing" ELSE "rendering"
Checkpoints(p) ==
    LET j == pass[p].job
    IN  IF pass[p].found # "paused" THEN {Proven(j)}
        ELSE CASE pass[p].status = "retryable" /\ set[j] = "none" -> {"normalizing"}
               [] pass[p].status = "retryable" -> {Proven(j)}
               [] pass[p].status \in {"queued", "normalizing"} /\ set[j] = "none" -> {pass[p].status}
               [] pass[p].status = "rendering" /\ set[j] # "none" -> {"rendering"}
               [] pass[p].status = "finalizing" /\ Proven(j) = "finalizing" -> {"finalizing"}
               [] OTHER -> {}

ClaimRecovery(p) ==
    /\ pass[p].pc = "claim"
    /\ LET j == pass[p].job
           admitted == /\ pass[p].legacy /\ source[j] = "legacy" /\ fence[j] = "open"
                       /\ job[j].dispatch \in {"confirmed", "resuming", "restarting"}
                       /\ job[j].status \in Nonterminal \cup {"retryable"}
                       /\ pass[p].held = (set[j] # "none") /\ Budget(j)
       IN  \/ \E status \in Checkpoints(p) :
                 /\ admitted /\ Claim(j, status, pass[p].target)
                 /\ pass' = [Outdated(j) EXCEPT ![p] = Calling(j, pass[p].target)]
                 /\ operator' = [operator EXCEPT ![j] = "idle"]
           \/ /\ ~admitted \/ Checkpoints(p) = {}
              /\ Nothing(p) /\ UNCHANGED <<job, set, run, operator>>
    /\ UNCHANGED <<others, fence, platform>>

Call(p) ==
    /\ pass[p].pc = "call" /\ Effect(pass[p].job, pass[p].target)
    /\ pass' = [pass EXCEPT ![p] = IF pass[p].fresh THEN [@ EXCEPT !.pc = "confirm"] ELSE IdlePass]
    /\ UNCHANGED <<others, rows, operator>>
\* A call may also have reached the platform and still fail.
CallFails(p) ==
    /\ "call" \in Hazards /\ pass[p].pc = "call" /\ Nothing(p)
    /\ Effect(pass[p].job, pass[p].target) \/ UNCHANGED <<platform, run>>
    /\ UNCHANGED <<others, rows, operator>>

ConfirmRecovery(p) ==
    /\ pass[p].pc = "confirm" /\ Confirms(pass[p].job, pass[p].target) /\ Nothing(p)
    /\ UNCHANGED <<others, fence, set, platform, run, operator>>

PassDies(p) ==
    /\ "die" \in Hazards /\ pass[p].pc # "idle" /\ Nothing(p)
    /\ UNCHANGED <<others, rows, platform, run, operator>>

\* Mutant of Closable: a failure counts as one, whether it may still be restarted or not.
ClosableEarly ==
    \A j \in Jobs :
        /\ job[j].status \notin Nonterminal
        /\ ~(job[j].status = "needs_replacement" /\ source[j] = "legacy")
\* closeCoverBackfillRuns, with the proof derived in its statement.
Closable ==
    \A j \in Jobs :
        /\ job[j].status \notin Nonterminal
        /\ ~(job[j].status = "needs_replacement" /\ source[j] = "legacy")
        /\ ~(job[j].status = "retryable" /\ ~job[j].late)
Close ==
    /\ ledger = "executing" /\ Closable
    /\ ledger' = IF \A j \in Jobs : source[j] # "legacy" THEN "verified" ELSE "failed"
    /\ UNCHANGED <<rows, rendered, source, platform, run, operator, pass>>

-----------------------------------------------------------------------------
(* Hosts, the purge, and time.                                             *)

Replaces(j) ==
    /\ "replace" \in Hazards /\ source[j] = "legacy" /\ source' = [source EXCEPT ![j] = "replaced"]
    /\ UNCHANGED <<ledger, rows, rendered, platform, run, operator, pass>>
Deletes(j) ==
    /\ "delete" \in Hazards /\ source[j] # "deleted" /\ source' = [source EXCEPT ![j] = "deleted"]
    /\ UNCHANGED <<ledger, rows, rendered, platform, run, operator, pass>>
\* The first batch of the event's purge.
PurgeBegins(j) ==
    /\ source[j] = "deleted"
    /\ job[j].status \in Nonterminal \/ fence[j] = "open"
    /\ fence' = [fence EXCEPT ![j] = IF @ = "open" THEN "blocked" ELSE @]
    /\ job' = IF job[j].status \notin Nonterminal THEN job
              ELSE [job EXCEPT ![j].status = "failed", ![j].late = FALSE,
                      ![j].dispatch = IF @ = "confirmed" THEN "blocked" ELSE @]
    /\ UNCHANGED <<others, set, platform, run, operator, pass>>

MinuteEnds(j) ==
    /\ job[j].recent /\ job' = [job EXCEPT ![j].recent = FALSE]
    /\ UNCHANGED <<others, fence, set, platform, run, operator, pass>>
\* A call is answered before its claim is two minutes old.
Ages(j) ==
    /\ job[j].young /\ ~job[j].recent /\ \A p \in Passes : pass[p].pc = "call" => pass[p].job # j
    /\ job' = [job EXCEPT ![j].young = FALSE]
    /\ UNCHANGED <<others, fence, set, platform, run, operator, pass>>
\* A pass is over long before the day of a retryable failure is.
WindowEnds(j) ==
    /\ job[j].status = "retryable" /\ ~job[j].late /\ \A p \in Passes : pass[p].job # j
    /\ job' = [job EXCEPT ![j].late = TRUE]
    /\ UNCHANGED <<others, fence, set, platform, run, operator, pass>>

RunSteps(j) ==
    \/ Preflight(j) \/ ReadFence(j) \/ Refuse(j) \/ Skip(j) \/ Start(j) \/ Normalize(j) \/ Freeze(j)
    \/ Profile(j) \/ Finalize(j) \/ Checkpoint(j) \/ Commit(j) \/ RunEnds(j)
OperatorSteps(j) == OperatorClaims(j) \/ OperatorTriggers(j) \/ OperatorConfirms(j)
PassSteps(p) == Look(p) \/ RecordFailure(p) \/ ClaimRecovery(p) \/ Call(p) \/ ConfirmRecovery(p)
Picks(j) == \E p \in Passes : RecoverStale(p, j) \/ Select(p, j)
Settles(j) == ResolveSuperseded(j) \/ SettleUnreachable(j) \/ PurgeBegins(j)
Hosts(j) == Replaces(j) \/ Deletes(j)
Time(j) == MinuteEnds(j) \/ Ages(j) \/ WindowEnds(j)

Steady ==
    \/ \E j \in Jobs : RunSteps(j) \/ OperatorSteps(j) \/ Picks(j) \/ Settles(j) \/ Hosts(j) \/ Time(j)
    \/ \E p \in Passes : PassSteps(p)
    \/ Close
Faults ==
    \/ \E j \in Jobs : InstanceErrs(j) \/ InstancePaused(j) \/ OperatorLeaves(j) \/ NormalizeFails(j) \/ Unsupported(j)
    \/ \E p \in Passes : LookFails(p) \/ CallFails(p) \/ PassDies(p)

Next == Steady \/ Faults
Spec == Init /\ [][Next]_vars

-----------------------------------------------------------------------------
Working(j) == platform[j] = "active" /\ run[j].pc \in {"normalize", "freeze", "profile", "finalize",
                                                        "checkpoint", "commit"}

\* No more instances convert at once than the run may have in flight, whatever
\* was triggered, recovered, resumed and restarted beside each other
\* (cover-dispatch.ts coverBackfillInFlightBudgetSql, cover-backfill.ts coverBackfillPreflight).
InFlightBounded == Cardinality({j \in Jobs : Working(j)}) <= InFlight

\* The rolling minute bounds every way an instance is put on the platform
\* (cover-dispatch.ts coverBackfillMinuteBudgetSql).
MinuteBounded == Cardinality({j \in Jobs : job[j].recent}) <= PerMinute

\* A cover the host chose meanwhile is not converted over
\* (cover-backfill.ts backfillPredicatesHold).
NewerCoverWins == \A j \in Jobs : source'[j] = "converted" => source[j] \in {"legacy", "converted"}

\* No interleaving of passes and runs turns a cover that can be converted into
\* a permanent failure (cover-backfill.ts recordTerminal).
NotWrittenOff ==
    \A j \in Jobs : job'[j].status = "failed" /\ job[j].status # "failed" => source[j] = "deleted"

\* What is settled is not taken up again, and a run that is closed has no work
\* left (cover-backfill.ts closeCoverBackfillRuns).
ClosedForGood == ledger # "executing" => \A j \in Jobs : job[j].status \notin Nonterminal

-----------------------------------------------------------------------------
\* A run comes to its end, unless a source that cannot be converted stays
\* (cover-backfill.ts reconcileCoverBackfillJobs, closeCoverBackfillRuns).
RunCloses == <>(ledger # "executing" \/ \E j \in Jobs : job[j].status = "needs_replacement" /\ source[j] = "legacy")
=============================================================================
