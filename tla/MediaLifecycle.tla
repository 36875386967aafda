--------------------------- MODULE MediaLifecycle ---------------------------
(***************************************************************************)
(* The photographs of one event, with everybody who acts on them at once:  *)
(* guests and hosts reserving, refreshing, cancelling, trashing, restoring *)
(* and deleting; upload handlers; the two crons' promoter passes, sweeps   *)
(* and janitor; the export job; and the purge of the event itself.         *)
(***************************************************************************)
EXTENDS MediaIntake, MediaPromotion, MediaRecovery, EventPurge

Next == \/ ReservationStep
        \/ IngressStep
        \/ PromotionStep
        \/ RecoveryStep
        \/ ExportStep
        \/ PurgeStep

Spec == Init /\ [][Next]_vars

(***************************************************************************)
(* What the schedule guarantees. Clocks advance; R2 answers every PUT and  *)
(* does not refuse the same one for ever; a queued export of a live event  *)
(* starts or fails, and an attempt that runs ends; the crons run for ever, *)
(* and from some time on an invocation ends only when it has nothing left  *)
(* to do (before that it may be killed at any await). Nothing is assumed   *)
(* of guests, hosts or upload handlers but that a handler ends; the        *)
(* deletion that follows a removal at once (ClaimObjectDeletion) may       *)
(* always be lost; and nobody has to delete the event: only a purge that   *)
(* has begun is resumed.                                                   *)
(***************************************************************************)
TimePasses ==
    \A m \in Media : /\ WF_vars(ReservationDeadline(m))
                     /\ WF_vars(LeaseDeadline(m))
                     /\ WF_vars(RecoveryDeadline(m))

StorageAnswers ==
    \A put \in (Requests \cup Passes) \X Media \X Digests :
        WF_vars(PutLands(put) \/ PutFails(put)) /\ SF_vars(PutLands(put))

ExportsFinish ==
    \A j \in JobIds : /\ WF_vars(eventLive /\ (ClaimRunning(j) \/ MarkDispatchFailed(j)))
                      /\ WF_vars(MarkReady(j) \/ MarkOwnedFailed(j))

SweepsRun ==
    \A m \in Media :
        /\ WF_vars(ListExpired(m)) /\ WF_vars(FailReservation(m))
        /\ WF_vars(PermanentlyDeleteTrashed(m))
        /\ \A k \in Keys : WF_vars(BeginSuppression(m, k)) /\ WF_vars(DeleteSuppressed(m, k))

\* listPromotionWork rotates its candidates; a legacy source that is read again
\* and again is found to be the image its row describes.
PromoterRuns ==
    \A p \in Passes : /\ \A m \in Media : SF_vars(PickCandidate(p, m))
                      /\ WF_vars(PassAdvances(p) \/ PassEnds(p))
                      /\ SF_vars(RecordSource(p))

PurgeResumed == WF_vars(~eventLive /\ BeginPass) /\ WF_vars(PurgeAdvances)

HandlersEnd == \A w \in Requests : WF_vars(RequestEnds(w))

EventuallyUninterrupted ==
    <>[][/\ \A p \in Passes : PassEnds(p) /\ ENABLED PassAdvances(p) => PassAdvances(p)
         /\ PurgerDies /\ ENABLED PurgeAdvances => PurgeAdvances]_vars

Fairness == /\ TimePasses /\ StorageAnswers /\ ExportsFinish /\ SweepsRun
            /\ PromoterRuns /\ PurgeResumed /\ HandlersEnd
            /\ EventuallyUninterrupted

FairSpec == Spec /\ Fairness

-----------------------------------------------------------------------------
(* Safety.                                                                 *)

\* The event's counters are the number and the bytes of the photos in each
\* bucket, through every interleaving of reservations, adoptions, sweeps, trash
\* and terminalization: the admission guards of media.ts and the capacity
\* trigger read nothing else.
CountersExact ==
    \A b \in Buckets : /\ counts[b] = Cardinality(Charged(b))
                       /\ bytes[b] = Weight[Charged(b)]

\* No sequence of reservations, refreshes and restores takes the event past
\* MAX_EVENT_MEDIA or MAX_EVENT_BYTES, recoverable photos included, although
\* the refresh of a failed row forgets them in its own guard.
WithinCapacity == WithinLimits(counts, bytes)

\* Both: whatever competes for what is left, the event never passes its limits.
CapacityKept == CountersExact /\ WithinCapacity

\* A photo the event still shows, or could still restore, has its bytes: its
\* pointer is not suppressed and the object under it is what was delivered.
\* This is what promoter, janitor, sweeps and late PUTs must never break.
NoDanglingPhoto ==
    \A m \in Media : eventLive /\ row[m].state = "stored" =>
        /\ row[m].ptr \notin suppressed[m]
        /\ object[m][row[m].ptr] = receipt[m]

\* While an accepted export of a live event is queued or running, every frozen
\* original stays in place, even when its photo is meanwhile deleted.
HeldSourceIntact ==
    \A m \in Media : eventLive /\ Held(m, "final") =>
        /\ "final" \notin suppressed[m]
        /\ object[m]["final"] = receipt[m]

\* Every photo whose bytes can still reach their canonical key is on the
\* promoter's work list: a reservation open to its upload, and an active legacy
\* photo, also when its promotion was retired in Recently deleted.  (A legacy
\* photo whose canonical key was suppressed meanwhile is lost to the promoter:
\* see LegacyPhotosMove.)
InventoryComplete ==
    \A m \in Media :
        \/ row[m].state = "reserved" /\ ~row[m].expired
        \/ LegacyActive(m) /\ "final" \notin suppressed[m]
        => promo[m].state # "none"

\* A reservation nobody has claimed can still be uploaded: none of its aliases
\* has been suppressed behind its guest's back.
ReservationUsable ==
    \A m \in Media : row[m].state = "reserved" /\ promo[m].state = "pending" =>
        suppressed[m] = {}

\* What is counted, within what the event may hold, and what the promoter and the
\* handlers will need, is written down, whatever order the batches of media.ts come in.
Accounted == CountersExact /\ WithinCapacity /\ InventoryComplete /\ ReservationUsable

-----------------------------------------------------------------------------
(* What the event promises of its photos, and how this module keeps it.    *)

Stage == [m \in Media |->
    CASE ~eventLive -> "gone"
      [] eventLive /\ row[m].state = "absent" -> "new"
      [] eventLive /\ row[m].state \in {"reserved", "failed"} -> row[m].state
      [] eventLive /\ Active(m) -> "delivered"
      [] eventLive /\ Recoverable(m) -> "trashed"
      [] OTHER -> "gone"]

Content == [m \in Media |->
    IF eventLive /\ row[m].state = "stored" THEN object[m][row[m].ptr] ELSE NoBytes]

Promise == INSTANCE PhotoPromise WITH stage <- Stage, content <- Content

\* Upload handlers, promoter, sweeps, janitor, exports and purge together
\* implement PhotoPromise: a cutover to the canonical key, a lost commit
\* adopted later, a refreshed reservation or a late PUT is never visible as
\* anything but one of its steps.
PhotosKeepPromise == Promise!Spec

-----------------------------------------------------------------------------
(* Liveness, under FairSpec.                                               *)

\* docs/operations.md: a legacy photo blocks the event's exports only until the
\* scheduled promotion has moved it, so retrying the export is enough.
LegacyPhotosMove == \A m \in Media : LegacyActive(m) ~> ~LegacyActive(m)

\* What the code does guarantee: the promoter moves every legacy photo whose
\* canonical key was not suppressed while it lay in Recently deleted.
UnsuppressedLegacyMoves ==
    \A m \in Media : LegacyActive(m) ~> (~LegacyActive(m) \/ "final" \in suppressed[m])

\* The bytes of a deleted photo are gone for good, in both buckets, whatever
\* exports held them and whatever PUTs were still on their way.
DeletedBytesGo ==
    \A m \in Media : row[m].state = "deleted" ~> [](\A k \in Keys : object[m][k] = NoBytes)

\* An expired reservation never keeps its place: it is delivered, refreshed,
\* failed or removed.
ReservationsResolve ==
    \A m \in Media : row[m].state = "reserved" /\ row[m].expired ~>
        (row[m].state # "reserved" \/ ~row[m].expired)

\* A deletion of the event, once begun, ends with its rows gone, past every
\* promotion, recoverable photo and export that must be settled first.
PurgeCompletes == ~eventLive ~> purge = "complete"

\* ... and then nothing of it stays in R2, although a PUT issued long before
\* may land after the last check of the prefix.
PurgeLeavesNothing == purge = "complete" ~> [](object = Empty)
-----------------------------------------------------------------------------
(* Why no photo dangles: the inductive invariant behind NoDanglingPhoto    *)
(* and HeldSourceIntact.  Neither is inductive alone: that a photo's bytes *)
(* are in place when its pointer moves rests on what handlers and passes   *)
(* saw several awaits earlier, and that a handoff retires the other key    *)
(* rests on the promotion agreeing with the row.                           *)


Photo(m) == eventLive /\ row[m].state = "stored"
LegacyPhoto(m) == Photo(m) /\ row[m].ptr = "source"

\* Bytes seen under the final key stay there until the key is suppressed.
FinalHolds(m, d) == "final" \in suppressed[m] \/ object[m]["final"] = d

\* A purge pass only runs once the event is deleted.
PurgeAfterDeletion == purger # "idle" => ~eventLive

\* What a promotion row can say on its own.
PromotionShape ==
    \A m \in Media :
        /\ promo[m].committed => promo[m].state = "cleanup_pending"
        /\ promo[m].kind = "buffer" => promo[m].digest # NoBytes

\* The promotion of a photo names the key its row points to.
PointerAgrees ==
    \A m \in Media : Photo(m) /\ promo[m].state # "none" =>
        row[m].ptr = IF promo[m].committed THEN "final" ELSE "source"

\* Where a photo's delivered bytes are.
DeliveredInPlace ==
    \A m \in Media : Photo(m) =>
        /\ receipt[m] # NoBytes
        /\ row[m].ptr \notin suppressed[m]
        /\ object[m][row[m].ptr] = receipt[m]

\* What the promotion of a legacy photo has recorded and verified.
PromotionKnows ==
    \A m \in Media : LegacyPhoto(m) =>
        /\ promo[m].digest # NoBytes => promo[m].digest = receipt[m]
        /\ promo[m].state = "target_verified" => FinalHolds(m, receipt[m])

\* What a pass carries from one await to the next: a digest, of the photo's own
\* bytes if it is a legacy photo, and that it was seen under the final key.
Carries(p) ==
    LET m == pass[p].m IN
    /\ pass[p].pc \in {"ingress", "adopt", "recover", "write", "wrote", "mark"} =>
         pass[p].digest # NoBytes
    /\ pass[p].pc \in {"recover", "write", "wrote", "mark"} /\ LegacyPhoto(m) =>
         pass[p].digest = receipt[m]
    /\ pass[p].pc \in {"mark", "adopt"} /\ eventLive => FinalHolds(m, pass[p].digest)

PassKnows == \A p \in Passes : Carries(p)

\* ... and a handler.
RequestKnows ==
    \A w \in Requests :
        eventLive /\ req[w].pc = "commit" => FinalHolds(req[w].m, req[w].d)

\* What an accepted export holds.
HoldsInPlace ==
    \A m \in Media : eventLive /\ Held(m, "final") =>
        /\ row[m].state \in {"stored", "deleted"}
        /\ receipt[m] # NoBytes
        /\ "final" \notin suppressed[m]
        /\ object[m]["final"] = receipt[m]

\* The inductive invariant, together with TypeOK.
Integrity ==
    /\ PurgeAfterDeletion /\ PromotionShape /\ PointerAgrees /\ DeliveredInPlace
    /\ PromotionKnows /\ PassKnows /\ RequestKnows /\ HoldsInPlace
=============================================================================
