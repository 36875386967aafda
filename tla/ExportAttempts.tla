--------------------------- MODULE ExportAttempts ---------------------------
(***************************************************************************)
(* One archive export from its request to the end of its links: the job's  *)
(* row, the routes that create and retry it, the Workflow instance of each *)
(* attempt and its callbacks, the archive objects they write under the     *)
(* attempt's prefix, and the cron that expires them.                       *)
(*                                                                         *)
(* What the job freezes of the photos, and the hold it has on them, is the *)
(* matter of MediaRecovery; here the sources are there or missing.         *)
(***************************************************************************)
EXTENDS Integers, FiniteSets

CONSTANTS MaxAttempts,  \* bound: retries of the job
          NumParts,     \* archive parts, the last one followed by the manifest
          Execs,        \* callbacks of Workflow steps
          Handlers,     \* requests of the create and retry routes
          Overlap       \* may a callback outlive its step and meet the next?

ExportSizes == MaxAttempts \in Nat \ {0} /\ NumParts \in Nat \ {0} /\ Overlap \in BOOLEAN

Attempts == 1..MaxAttempts
Artifacts == 1..NumParts
Objects == Attempts \X Artifacts
Prefix(a) == {a} \X Artifacts

VARIABLES
    job,        \* the export_jobs row
    eventLive,
    linksOver,  \* the clock has passed expires_at
    objects,    \* what R2 holds of the export
    instance,   \* per attempt, the Workflow instance
    exec, handler, cleaner

vars == <<job, eventLive, linksOver, objects, instance, exec, handler, cleaner>>

IdleExec == [pc |-> "idle", attempt |-> 1, part |-> 1, uploaded |-> {}, keys |-> {}]
IdleHandler == [pc |-> "idle", seen |-> 1, recovering |-> FALSE, keys |-> {}]
IdleCleaner == [pc |-> "idle", attempt |-> 1]

TypeOK ==
    /\ job \in [state: {"none", "queued", "running", "ready", "failed", "expired"},
                attempt: Attempts, owned: BOOLEAN, progress: 0..NumParts, recorded: BOOLEAN]
    /\ eventLive \in BOOLEAN /\ linksOver \in BOOLEAN
    /\ objects \subseteq Objects
    /\ instance \in [Attempts -> {"none", "active", "ended", "errored"}]
    /\ exec \in [Execs -> [pc: {"idle", "clear", "delete", "reset", "put", "record", "ready", "undo"},
                           attempt: Attempts, part: Artifacts, uploaded: SUBSET Objects,
                           keys: SUBSET Objects]]
    /\ handler \in [Handlers -> [pc: {"idle", "list", "commit", "delete", "dispatch", "fence"},
                                 seen: Attempts, recovering: BOOLEAN, keys: SUBSET Objects]]
    /\ cleaner \in [pc: {"idle", "delete", "clear"}, attempt: Attempts]
    \* export_jobs_execution_update: what the state says of the milestones
    /\ job.state = "ready" => job.owned /\ job.progress = NumParts /\ job.recorded
    /\ job.state \in {"none", "queued", "running", "failed"} => ~job.recorded
    /\ job.state = "running" => job.owned

Init ==
    /\ job = [state |-> "none", attempt |-> 1, owned |-> FALSE, progress |-> 0, recorded |-> FALSE]
    /\ eventLive = TRUE /\ linksOver = FALSE /\ objects = {}
    /\ instance = [a \in Attempts |-> "none"]
    /\ exec = [x \in Execs |-> IdleExec] /\ handler = [h \in Handlers |-> IdleHandler]
    /\ cleaner = IdleCleaner

Pristine == job.state = "queued" /\ ~job.owned
Owns(x) == job.state = "running" /\ job.attempt = exec[x].attempt
MayGoOn(x) == Owns(x) /\ eventLive

-----------------------------------------------------------------------------
(* The routes.                                                             *)

HandlerAt(h, pc) == handler' = [handler EXCEPT ![h].pc = pc]
HandlerDone(h) == handler' = [handler EXCEPT ![h] = IdleHandler]

\* createActive: the row and its frozen entries, before any Workflow exists.
Create(h) ==
    /\ handler[h].pc = "idle" /\ job.state = "none" /\ eventLive
    /\ job' = [job EXCEPT !.state = "queued"]
    /\ HandlerAt(h, "dispatch")
    /\ UNCHANGED <<eventLive, linksOver, objects, instance, exec, cleaner>>

\* The retry route reads the row; links past their time are first expired.
ReadForRetry(h) ==
    /\ handler[h].pc = "idle" /\ job.attempt < MaxAttempts
    /\ \/ job.state \in {"failed", "expired"} /\ UNCHANGED job
       \/ job.state = "ready" /\ linksOver /\ job' = [job EXCEPT !.state = "expired"]
       \/ Pristine /\ job.attempt > 1 /\ UNCHANGED job
    /\ handler' = [handler EXCEPT ![h] = [pc |-> "list", seen |-> job.attempt,
                       recovering |-> job.state = "queued",
                       keys |-> IF job.recorded THEN Prefix(job.attempt) ELSE {}]]
    /\ UNCHANGED <<eventLive, linksOver, objects, instance, exec, cleaner>>

\* The attempt whose leftovers this request looks for.
PriorAttempt(h) == IF handler[h].recovering THEN handler[h].seen - 1 ELSE handler[h].seen

\* attemptKeys: R2's listing of that attempt.
ListPrior(h) ==
    /\ handler[h].pc = "list"
    /\ handler' = [handler EXCEPT ![h].pc = IF @ = "list" /\ handler[h].recovering
                                            THEN "delete" ELSE "commit",
                                  ![h].keys = @ \cup (objects \cap Prefix(PriorAttempt(h)))]
    /\ UNCHANGED <<job, eventLive, linksOver, objects, instance, exec, cleaner>>

\* Mutant of Requeued: the inventory columns of the earlier attempt stay.
RequeuedWithInventory == [job EXCEPT !.state = "queued", !.attempt = @ + 1,
                                     !.owned = FALSE, !.progress = 0]
Requeued == [job EXCEPT !.state = "queued", !.attempt = @ + 1, !.owned = FALSE,
                        !.progress = 0, !.recorded = FALSE]

\* retry, by its own reading of the row; commitOrRecoverRetry adopts the next
\* attempt when another request has just queued it.
CommitRetry(h) ==
    /\ handler[h].pc = "commit"
    /\ \/ /\ job.state \in {"failed", "expired"} /\ job.attempt < MaxAttempts
          /\ job' = Requeued
          /\ handler' = [handler EXCEPT ![h].pc = "delete", ![h].seen = job.attempt + 1]
          /\ linksOver' = FALSE
       \/ /\ Pristine /\ job.attempt = handler[h].seen + 1
          /\ handler' = [handler EXCEPT ![h].pc = "delete", ![h].seen = job.attempt]
          /\ UNCHANGED <<job, linksOver>>
       \/ HandlerDone(h) /\ UNCHANGED <<job, linksOver>>    \* refused
    /\ UNCHANGED <<eventLive, objects, instance, exec, cleaner>>

DeletePrior(h) ==
    /\ handler[h].pc = "delete"
    /\ objects' = objects \ handler[h].keys
    /\ HandlerAt(h, "dispatch")
    /\ UNCHANGED <<job, eventLive, linksOver, instance, exec, cleaner>>

\* ensureInitialWorkflow, ensureRetryWorkflow: createBatch is idempotent for the
\* attempt's identifier; a call whose outcome stays unknown counts as failed.
Dispatch(h) ==
    /\ handler[h].pc = "dispatch"
    /\ LET a == handler[h].seen  created == [instance EXCEPT ![a] = IF @ = "none" THEN "active" ELSE @]
       IN \/ instance' = created /\ instance[a] \notin {"ended", "errored"} /\ HandlerDone(h)
          \/ instance' = created /\ HandlerAt(h, "fence")
          \/ UNCHANGED instance /\ HandlerAt(h, "fence")
    /\ UNCHANGED <<job, eventLive, linksOver, objects, exec, cleaner>>

\* markInitialDispatchFailed, markRetryDispatchFailed.
FenceDispatch(h) ==
    /\ handler[h].pc = "fence"
    /\ job' = IF Pristine /\ job.attempt = handler[h].seen
              THEN [job EXCEPT !.state = "failed"] ELSE job
    /\ HandlerDone(h)
    /\ UNCHANGED <<eventLive, linksOver, objects, instance, exec, cleaner>>

HandlerDies(h) ==
    /\ handler[h].pc # "idle" /\ HandlerDone(h)
    /\ UNCHANGED <<job, eventLive, linksOver, objects, instance, exec, cleaner>>

-----------------------------------------------------------------------------
(* processExport, as the callback of the one step of the attempt's Workflow. *)

ExecAt(x, pc) == exec' = [exec EXCEPT ![x].pc = pc]
Returns(x) ==
    /\ exec' = [exec EXCEPT ![x] = IdleExec]
    /\ instance' = [instance EXCEPT ![exec[x].attempt] = "ended"]

\* Assertion failed: the event's deletion is recorded, anything else is left.
Stops(x) ==
    /\ job' = IF Owns(x) THEN [job EXCEPT !.state = "failed"] ELSE job
    /\ Returns(x)

Resumes(a) == job.state = "running" /\ job.attempt = a
\* claimRunning, first or resumed.
Claim(x, a) ==
    /\ exec[x].pc = "idle" /\ instance[a] = "active"
    /\ Overlap \/ \A y \in Execs : exec[y].pc = "idle"
    /\ \/ /\ Pristine /\ job.attempt = a /\ eventLive
          /\ job' = [job EXCEPT !.state = "running", !.owned = TRUE, !.progress = 0]
          /\ exec' = [exec EXCEPT ![x] = [IdleExec EXCEPT !.pc = "put", !.attempt = a]]
          /\ UNCHANGED instance
       \/ /\ Resumes(a)
          /\ exec' = [exec EXCEPT ![x] = [IdleExec EXCEPT !.pc = "clear", !.attempt = a]]
          /\ UNCHANGED <<job, instance>>
       \/ /\ ~Resumes(a) /\ ~(Pristine /\ job.attempt = a /\ eventLive)
          /\ instance' = [instance EXCEPT ![a] = "ended"]
          /\ UNCHANGED <<job, exec>>
    /\ UNCHANGED <<eventLive, linksOver, objects, handler, cleaner>>

\* clearIncompleteAttempt: list until the prefix is empty ...
ListIncomplete(x) ==
    LET keys == objects \cap Prefix(exec[x].attempt) IN
    /\ exec[x].pc = "clear"
    /\ IF ~MayGoOn(x) THEN Stops(x)
       ELSE /\ exec' = [exec EXCEPT ![x].pc = IF keys = {} THEN "reset" ELSE "delete",
                                    ![x].keys = keys]
            /\ UNCHANGED <<job, instance>>
    /\ UNCHANGED <<eventLive, linksOver, objects, handler, cleaner>>

\* ... and delete what was listed; the assertion before the call is the listing's.
DeleteIncomplete(x) ==
    /\ exec[x].pc = "delete"
    /\ objects' = objects \ exec[x].keys /\ ExecAt(x, "clear")
    /\ UNCHANGED <<job, eventLive, linksOver, instance, handler, cleaner>>

ResetProgress(x) ==
    /\ exec[x].pc = "reset"
    /\ IF Owns(x)
       THEN job' = [job EXCEPT !.progress = 0] /\ ExecAt(x, "put") /\ UNCHANGED instance
       ELSE Returns(x) /\ UNCHANGED job
    /\ UNCHANGED <<eventLive, linksOver, objects, handler, cleaner>>

\* markOwnedFailed after a missing source, a failed call or a failed proof; what
\* is known to be uploaded goes afterwards, if this callback made the transition.
Fails(x) ==
    IF Owns(x)
    THEN /\ job' = [job EXCEPT !.state = "failed"] /\ ExecAt(x, "undo") /\ UNCHANGED instance
    ELSE Returns(x) /\ UNCHANGED job

PutPart(x) ==
    /\ exec[x].pc = "put"
    /\ \/ MayGoOn(x) /\ objects' = objects \cup {<<exec[x].attempt, exec[x].part>>}
          /\ ExecAt(x, "record") /\ UNCHANGED <<job, instance>>
       \/ MayGoOn(x) /\ Fails(x)
          /\ objects' \in {objects, objects \cup {<<exec[x].attempt, exec[x].part>>}}
       \/ ~MayGoOn(x) /\ Stops(x) /\ UNCHANGED objects
    /\ UNCHANGED <<eventLive, linksOver, handler, cleaner>>

\* recordProgress: forward, or what is already recorded.
Advances(p) == p >= job.progress

RecordPart(x) ==
    LET p == exec[x].part IN
    /\ exec[x].pc = "record"
    /\ IF ~MayGoOn(x) THEN Stops(x)
       ELSE IF Advances(p)
       THEN /\ job' = [job EXCEPT !.progress = p]
            /\ exec' = [exec EXCEPT ![x].uploaded = @ \cup {<<exec[x].attempt, p>>},
                                    ![x].pc = IF p = NumParts THEN "ready" ELSE "put",
                                    ![x].part = IF p = NumParts THEN p ELSE p + 1]
            /\ UNCHANGED instance
       ELSE Returns(x) /\ UNCHANGED job
    /\ UNCHANGED <<eventLive, linksOver, objects, handler, cleaner>>

\* markReady; refused while it still owns a live run, the attempt has failed.
MarkReady(x) ==
    /\ exec[x].pc = "ready"
    /\ IF MayGoOn(x) /\ job.progress = NumParts
       THEN job' = [job EXCEPT !.state = "ready", !.recorded = TRUE] /\ Returns(x)
       ELSE IF MayGoOn(x) THEN Fails(x) ELSE Stops(x)
    /\ UNCHANGED <<eventLive, linksOver, objects, handler, cleaner>>

DeleteUploaded(x) ==
    /\ exec[x].pc = "undo"
    /\ objects' \in {objects, objects \ exec[x].uploaded}      \* the call may fail
    /\ Returns(x)
    /\ UNCHANGED <<job, eventLive, linksOver, handler, cleaner>>

\* An exception outside the handlers, or the isolate's end: the step retries, or
\* that was its last retry.
ExecDies(x) ==
    /\ exec[x].pc # "idle" /\ exec' = [exec EXCEPT ![x] = IdleExec]
    /\ instance' \in {instance, [instance EXCEPT ![exec[x].attempt] =
                                  IF @ = "active" THEN "errored" ELSE @]}
    /\ UNCHANGED <<job, eventLive, linksOver, objects, handler, cleaner>>

-----------------------------------------------------------------------------
(* The cron, the clock and the event.                                      *)

LinksEnd ==
    /\ job.state = "ready" /\ ~linksOver /\ linksOver' = TRUE
    /\ UNCHANGED <<job, eventLive, objects, instance, exec, handler, cleaner>>

\* listExpiredWithInventory: an earlier deletion was not confirmed.
Retained == job.state = "expired" /\ job.recorded

\* cleanupExpiredExports takes a candidate: retained, or expired by markExpired.
TakeExpired ==
    /\ cleaner.pc = "idle"
    /\ \/ Retained /\ UNCHANGED job
       \/ job.state = "ready" /\ linksOver /\ job' = [job EXCEPT !.state = "expired"]
    /\ cleaner' = [pc |-> "delete", attempt |-> job.attempt]
    /\ UNCHANGED <<eventLive, linksOver, objects, instance, exec, handler>>

\* The deletion's calls, the first of which may fail.
DeleteExpired ==
    /\ cleaner.pc = "delete"
    /\ objects' = objects \ Prefix(cleaner.attempt) /\ cleaner' = [cleaner EXCEPT !.pc = "clear"]
    /\ UNCHANGED <<job, eventLive, linksOver, instance, exec, handler>>

SameExpiry == job.state = "expired" /\ job.attempt = cleaner.attempt

\* clearExpiredInventory, for the exact attempt that was deleted.
ClearInventory ==
    /\ cleaner.pc = "clear" /\ cleaner' = IdleCleaner
    /\ job' = IF SameExpiry THEN [job EXCEPT !.recorded = FALSE] ELSE job
    /\ UNCHANGED <<eventLive, linksOver, objects, instance, exec, handler>>

\* A failed deletion, or the cron's death.
CleanerDies ==
    /\ cleaner.pc # "idle" /\ cleaner' = IdleCleaner
    /\ UNCHANGED <<job, eventLive, linksOver, objects, instance, exec, handler>>

\* A deletion fences the jobs that have not been claimed in its own batch.
EventDeleted ==
    /\ eventLive /\ eventLive' = FALSE
    /\ job' = IF job.state = "queued" THEN [job EXCEPT !.state = "failed"] ELSE job
    /\ UNCHANGED <<linksOver, objects, instance, exec, handler, cleaner>>

-----------------------------------------------------------------------------
HandlerStep(h) ==
    ListPrior(h) \/ CommitRetry(h) \/ DeletePrior(h) \/ Dispatch(h) \/ FenceDispatch(h)
ExecStep(x) ==
    \/ \E a \in Attempts : Claim(x, a)
    \/ ListIncomplete(x) \/ DeleteIncomplete(x) \/ ResetProgress(x) \/ PutPart(x)
    \/ RecordPart(x) \/ MarkReady(x) \/ DeleteUploaded(x)
CleanerStep == TakeExpired \/ DeleteExpired \/ ClearInventory

Fault ==
    \/ \E h \in Handlers : HandlerDies(h)
    \/ \E x \in Execs : ExecDies(x)
    \/ CleanerDies
Sound ==
    \/ \E h \in Handlers : Create(h) \/ ReadForRetry(h) \/ HandlerStep(h)
    \/ \E x \in Execs : ExecStep(x)
    \/ CleanerStep \/ LinksEnd \/ EventDeleted

Next == Sound \/ Fault

Spec == Init /\ [][Next]_vars

-----------------------------------------------------------------------------
(* Properties.                                                             *)

\* Every archive of a ready export can be downloaded: whatever was cleared,
\* retried, abandoned or deleted before, the whole inventory is in R2.
ReadyComplete == job.state = "ready" => Prefix(job.attempt) \subseteq objects

\* An expired export whose inventory was cleared from its row has nothing left:
\* a slow cleanup of one attempt never clears the inventory of the next.
ExpiredRemembered ==
    job.state = "expired" /\ ~job.recorded => objects \cap Prefix(job.attempt) = {}

\* Both, of archives whose callbacks do not overlap.
ArchivesSound == TypeOK /\ ReadyComplete /\ ExpiredRemembered

\* Once faults stop, a running export ends, unless its Workflow has given up.
RunEnds ==
    job.state = "running" ~>
        (job.state # "running" \/ instance[job.attempt] = "errored")

\* Once faults stop, the archives of an expired export leave R2, or the host has
\* asked for them again.
ExpiredGoes ==
    job.state = "expired" ~> (job.state # "expired" \/ objects \cap Prefix(job.attempt) = {})
=============================================================================
