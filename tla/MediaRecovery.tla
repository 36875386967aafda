---------------------------- MODULE MediaRecovery ----------------------------
(***************************************************************************)
(* Recently deleted, permanent deletion, and the collection of the bytes   *)
(* that outlive their photo.  No statement here touches R2: a key is first *)
(* suppressed for good in D1, and only a suppressed key is ever deleted.   *)
(*                                                                         *)
(* And what holds them: a complete-collection export freezes the stored    *)
(* originals of the event, and while it is queued or running its entries   *)
(* hold those objects against every retirement path.                       *)
(***************************************************************************)
EXTENDS MediaState

\* trashStored: the photo keeps its bytes and moves to the recoverable bucket.
Trash(m) ==
    /\ eventLive /\ Active(m)
    /\ row' = [row EXCEPT ![m].trash = "restorable"]
    /\ Recount(m, "recoverable")
    /\ UNCHANGED <<eventLive, intakeOpen, promo, suppressed, object, inflight,
                   receipt, job, purge, processVars>>

\* restoreTrashed.  Only the current pointer may veto it (the triggers'
\* recovery exception); a legacy row whose promotion was retired gets a fresh
\* one from media_object_promotion_inventory_update.
Restore(m) ==
    /\ eventLive /\ row[m].state = "stored" /\ row[m].trash = "restorable"
    /\ row[m].ptr \notin suppressed[m]
    /\ row' = [row EXCEPT ![m].trash = "no"]
    /\ Recount(m, "stored")
    /\ promo' = IF row[m].ptr = "source" /\ promo[m].state = "none"
                THEN [promo EXCEPT ![m] = PendingPromotion] ELSE promo
    /\ UNCHANGED <<eventLive, intakeOpen, suppressed, object, inflight, receipt,
                   job, purge, processVars>>

\* restore_until passes.
RecoveryDeadline(m) ==
    /\ row[m].trash = "restorable"
    /\ row' = [row EXCEPT ![m].trash = "lapsed"]
    /\ UNCHANGED <<eventVars, promo, suppressed, object, inflight, receipt, job,
                   purge, processVars>>

BecomesDeleted(m) ==
    /\ row' = [row EXCEPT ![m].state = "deleted", ![m].trash = "no"]
    /\ Recount(m, "none")
    /\ UNCHANGED <<eventLive, intakeOpen, promo, suppressed, object, inflight,
                   receipt, job, purge, processVars>>

\* permanentlyDeleteTrashed, run by the recovery sweep.
PermanentlyDeleteTrashed(m) ==
    /\ row[m].state = "stored" /\ row[m].trash = "lapsed"
    /\ ~Held(m, row[m].ptr)
    /\ BecomesDeleted(m)

\* delete: a guest's or host's removal, from any state a photo can be seen in.
Delete(m) ==
    /\ row[m].state \in {"reserved", "failed", "stored"}
    /\ BecomesDeleted(m)

\* claimMediaObjectDeletion: the aliases of a deleted row, once its promotion
\* is gone, except those an export still reads.
ClaimObjectDeletion(m) ==
    /\ row[m].state = "deleted" /\ promo[m].state = "none"
    /\ suppressed' = [suppressed EXCEPT ![m] = @ \cup {k \in Keys : ~Held(m, k)}]
    /\ suppressed' # suppressed
    /\ UNCHANGED <<eventVars, row, promo, object, inflight, receipt, job, purge,
                   processVars>>

\* beginSuppression, by the tombstone janitor: nobody owns the key.  Recoverable
\* photos and export holds are kept out by the triggers (MaySuppress).
Owned(m, k) ==
    \/ /\ eventLive /\ row[m].ptr = k
       /\ Active(m) \/ (k = "source" /\ row[m].state = "reserved")
    \/ promo[m].state # "none"

\* Mutant of BeginSuppression: the tombstones of purged events are skipped.
SuppressesKnownRows(m, k) ==
    /\ k \notin suppressed[m] /\ ~Owned(m, k) /\ MaySuppress(m, {k})
    /\ row[m].state # "absent"
    /\ suppressed' = [suppressed EXCEPT ![m] = @ \cup {k}]
    /\ UNCHANGED <<eventVars, row, promo, object, inflight, receipt, job, purge,
                   processVars>>

BeginSuppression(m, k) ==
    /\ k \notin suppressed[m] /\ ~Owned(m, k) /\ MaySuppress(m, {k})
    /\ row[m].state # "absent" \/ purge = "complete"
    /\ suppressed' = [suppressed EXCEPT ![m] = @ \cup {k}]
    /\ UNCHANGED <<eventVars, row, promo, object, inflight, receipt, job, purge,
                   processVars>>

DeletesSourceOnly(m, k) ==
    /\ k = "source" /\ k \in suppressed[m] /\ object[m][k] # NoBytes
    /\ object' = [object EXCEPT ![m][k] = NoBytes]
    /\ UNCHANGED <<eventVars, row, promo, suppressed, inflight, receipt, job, purge,
                   processVars>>

\* deleteMediaObjectAliases and the janitor's own exact delete.
DeleteSuppressed(m, k) ==
    /\ k \in suppressed[m] /\ object[m][k] # NoBytes
    /\ object' = [object EXCEPT ![m][k] = NoBytes]
    /\ UNCHANGED <<eventVars, row, promo, suppressed, inflight, receipt, job, purge,
                   processVars>>

RecoveryStep ==
    \E m \in Media :
        \/ Trash(m) \/ Restore(m) \/ RecoveryDeadline(m)
        \/ PermanentlyDeleteTrashed(m) \/ Delete(m) \/ ClaimObjectDeletion(m)
        \/ \E k \in Keys : BeginSuppression(m, k) \/ DeleteSuppressed(m, k)

-----------------------------------------------------------------------------
(* What a complete-collection export asks of the photos.                   *)

Deliverable == {m \in Media : Active(m)}
NoActiveJobBut(j) ==
    \A i \in JobIds \ {j} : job[i].state \notin {"queued", "running"}

\* Job ids stand for creation order, so the next job takes the next id.
NextJob(j) == job[j].state = "none" /\ \A i \in 1..(j-1) : job[i].state # "none"

\* createActive: EXPORT_MEDIA_UPGRADE_REQUIRED unless every photo is canonical.
CreateExport(j) ==
    /\ NextJob(j) /\ eventLive /\ NoActiveJobBut(j)
    /\ Deliverable # {}
    /\ \A m \in Deliverable : row[m].ptr = "final" /\ "final" \notin suppressed[m]
    /\ job' = [job EXCEPT ![j] = [state |-> "queued", entries |-> Deliverable, attempt |-> 1]]
    /\ UNCHANGED <<eventVars, row, promo, suppressed, object, inflight, receipt,
                   purge, processVars>>

Moves(j, from, to) ==
    /\ job[j].state = from
    /\ job' = [job EXCEPT ![j].state = to]
    /\ UNCHANGED <<eventVars, row, promo, suppressed, object, inflight, receipt,
                   purge, processVars>>

\* claimRunning, with export_jobs_running_source_fence.
ClaimRunning(j) ==
    /\ eventLive
    /\ \A m \in job[j].entries : "final" \notin suppressed[m]
    /\ Moves(j, "queued", "running")

\* markReady; markOwnedFailed; the dispatch-failure fences; markExpired.
MarkReady(j) == eventLive /\ Moves(j, "running", "ready")
MarkOwnedFailed(j) == Moves(j, "running", "failed")
MarkDispatchFailed(j) == Moves(j, "queued", "failed")
MarkExpired(j) == Moves(j, "ready", "expired")

\* retry: the hold is taken again only if every frozen source is still its
\* row's current, unsuppressed object.  The statement does not ask whether the
\* event is live.
Retry(j) ==
    /\ job[j].state \in {"failed", "expired"}
    /\ job[j].attempt < MaxAttempts
    /\ \A i \in (j+1)..MaxJobs : job[i].state = "none"
    /\ NoActiveJobBut(j)
    /\ \A m \in job[j].entries :
         row[m].state = "stored" /\ row[m].ptr = "final" /\ "final" \notin suppressed[m]
    /\ job' = [job EXCEPT ![j].state = "queued", ![j].attempt = @ + 1]
    /\ UNCHANGED <<eventVars, row, promo, suppressed, object, inflight, receipt,
                   purge, processVars>>

ExportStep ==
    \E j \in JobIds :
        \/ CreateExport(j) \/ ClaimRunning(j) \/ MarkReady(j) \/ MarkOwnedFailed(j)
        \/ MarkDispatchFailed(j) \/ MarkExpired(j) \/ Retry(j)
=============================================================================
