----------------------------- MODULE EventPurge -----------------------------
(***************************************************************************)
(* reconcileEventCoverPurge as the photographs see it.  Deleting an event  *)
(* (by its host, or by retention) and every later cron pass run the same   *)
(* code: fence, check that nobody can still write or read, end recovery,   *)
(* sweep both buckets, prove them empty, drop the rows.  The phase is      *)
(* durable; a pass may die between any two awaits and the next one re-runs *)
(* the checks from the start.                                              *)
(***************************************************************************)
EXTENDS MediaState

\* The fencing batch: deleted_at, and queued exports fail.
BeginPass ==
    /\ purger = "idle" /\ purge # "complete"
    /\ eventLive' = FALSE
    /\ job' = [j \in JobIds |-> IF job[j].state = "queued"
                                THEN [job[j] EXCEPT !.state = "failed"] ELSE job[j]]
    /\ purge' = IF purge = "none" THEN "fences" ELSE purge
    /\ purger' = "guard"
    /\ UNCHANGED <<intakeOpen, counts, bytes, row, promo, suppressed, object,
                   inflight, receipt, req, pass, sweep>>

\* No export attempt runs, no promotion row is left, no reservation's writable
\* alias is open.  After deletion each of these can only become true, so the
\* separate reads are one.
Quiescent ==
    /\ \A j \in JobIds : job[j].state # "running"
    /\ \A m \in Media : promo[m].state = "none"
    /\ \A m \in Media : row[m].state = "absent" \/ row[m].expired

\* terminalizeRecoverableMedia: what recovery still kept and no export reads.
EndsRecovery(m) == Recoverable(m) /\ ~Held(m, row[m].ptr)
StillKept == {m \in Media : Recoverable(m) /\ Held(m, row[m].ptr)}
NoHolds == \A j \in JobIds : job[j].state \in {"queued", "running"} => job[j].entries = {}

GuardPasses ==
    /\ purger = "guard" /\ Quiescent
    /\ row' = [m \in Media |-> IF EndsRecovery(m)
                 THEN [row[m] EXCEPT !.state = "deleted", !.trash = "no"] ELSE row[m]]
    /\ counts' = [counts EXCEPT !["recoverable"] = Cardinality(StillKept)]
    /\ bytes' = [bytes EXCEPT !["recoverable"] = Weight[StillKept]]
    /\ IF StillKept = {} /\ NoHolds
       THEN /\ purge' = IF purge = "fences" THEN "r2" ELSE purge
            /\ purger' = IF purge = "relational" THEN "rows" ELSE "sweep"
       ELSE purge' = "fences" /\ purger' = "idle"
    /\ UNCHANGED <<eventLive, intakeOpen, promo, suppressed, object, inflight,
                   receipt, req, pass, sweep, job>>

\* Mutant of GuardFails: the name of the step is stored as the phase.
GuardMisfiles ==
    /\ purger = "guard" /\ ~Quiescent
    /\ purge' = "guard" /\ purger' = "idle"
    /\ UNCHANGED <<eventVars, row, promo, suppressed, object, inflight, receipt,
                   req, pass, sweep, job>>

\* A persisted phase never bypasses the check.
GuardFails ==
    /\ purger = "guard" /\ ~Quiescent
    /\ purge' = "fences" /\ purger' = "idle"
    /\ UNCHANGED <<eventVars, row, promo, suppressed, object, inflight, receipt,
                   req, pass, sweep, job>>

Empty == [m \in Media |-> [k \in Keys |-> NoBytes]]

\* deletePrefix on both buckets.
SweepPrefix ==
    /\ purger = "sweep"
    /\ object' = Empty
    /\ purger' = "check"
    /\ UNCHANGED <<eventVars, row, promo, suppressed, inflight, receipt, req, pass,
                   sweep, job, purge>>

\* Both prefixes listed again: anything left waits for the next pass.
CheckPrefix ==
    /\ purger = "check"
    /\ IF object = Empty THEN purge' = "relational" /\ purger' = "rows"
       ELSE UNCHANGED purge /\ purger' = "idle"
    /\ UNCHANGED <<eventVars, row, promo, suppressed, object, inflight, receipt,
                   req, pass, sweep, job>>

\* purgeEventRelationalRows: media, jobs (cascade) and the event row itself.
\* Tombstones have no foreign key and stay.
PurgeRows ==
    /\ purger = "rows"
    /\ row' = [m \in Media |-> NoRow]
    /\ job' = [j \in JobIds |-> NoJob]
    /\ counts' = [b \in Buckets |-> 0] /\ bytes' = [b \in Buckets |-> 0]
    /\ purge' = "complete" /\ purger' = "idle"
    /\ UNCHANGED <<eventLive, intakeOpen, promo, suppressed, object, inflight,
                   receipt, req, pass, sweep>>

PurgerDies ==
    /\ purger # "idle" /\ purger' = "idle"
    /\ UNCHANGED <<eventVars, row, promo, suppressed, object, inflight, receipt,
                   req, pass, sweep, job, purge>>

PurgeAdvances ==
    GuardPasses \/ GuardFails \/ SweepPrefix \/ CheckPrefix \/ PurgeRows

PurgeStep == BeginPass \/ PurgeAdvances \/ PurgerDies
=============================================================================
