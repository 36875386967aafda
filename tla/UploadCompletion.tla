-------------------------- MODULE UploadCompletion --------------------------
(***************************************************************************)
(* The workflow that turns a transfer's parts into the photo's final       *)
(* object (processUploadCompletion), the dispatcher that keeps it going,   *)
(* and the cleanup that leaves nothing of an ended transfer in R2.         *)
(*                                                                         *)
(* An execution may die between any two awaits, and may also outlive its   *)
(* instance: a step that timed out, or whose instance was terminated or    *)
(* restarted, still finishes the code it is in.                            *)
(***************************************************************************)
EXTENDS UploadTransfers

Live == Writable /\ tr.state \in Active

To(x, pc) == exec' = [exec EXCEPT ![x] = pc]
Else(x) == To(x, "settle")      \* CompletionFenced: nothing is recorded

rowsBut == <<media, open, expired, part>>
others == <<handler, instance, restarting, cleaner>>

-----------------------------------------------------------------------------
(* Dispatch.                                                               *)

\* A dispatcher may settle the writer of an instance that has ended, once its
\* lease has lapsed.
MaySettle == asm.state = "completing" /\ ~asm.settled /\ ~lease /\ Live

\* dispatchUploadCompletion up to its decision, by the complete route or the
\* cron: create the instance (idempotent), or look at the one there is.
Dispatch ==
    /\ tr.state \in {"processing", "retryable"} /\ ~expired
    /\ \/ instance = "none" /\ instance' = "active" /\ UNCHANGED <<asm, restarting>>
       \/ /\ instance = "ended"
          /\ asm' = IF MaySettle THEN [asm EXCEPT !.settled = TRUE] ELSE asm
          /\ restarting' = (restarting \/ (asm'.state = "completing" /\ asm'.settled))
          /\ UNCHANGED instance
    /\ UNCHANGED <<rowsBut, tr, promo, lease, storage, handler, exec, cleaner>>

Restart ==
    /\ restarting /\ restarting' = FALSE /\ instance' = "active"
    /\ UNCHANGED <<rows, storage, handler, exec, cleaner>>

\* The platform reports the run complete, errored or terminated.
InstanceEnds ==
    /\ instance = "active" /\ instance' = "ended"
    /\ UNCHANGED <<rows, storage, handler, exec, restarting, cleaner>>

-----------------------------------------------------------------------------
(* One execution, from its claim to its settlement.                        *)

\* beginCompletion: take the claim over from a writer that has settled.
BeginCompletion(x) ==
    /\ instance = "active" /\ exec[x] = "idle"
    /\ Writable /\ tr.state \in {"processing", "retryable"}
    /\ asm.state = "completing" /\ asm.settled /\ asm.token = tr.token
    /\ asm' = [asm EXCEPT !.token = x, !.settled = FALSE]
    /\ tr' = [tr EXCEPT !.state = "processing", !.token = x] /\ lease' = TRUE
    /\ To(x, "look")
    /\ UNCHANGED <<rowsBut, promo, storage, others>>

\* head of the assembly; when it is absent and every part is accepted, the
\* complete call is on its way.  Whatever it answers, the next head decides.
LookAssembly(x) ==
    /\ exec[x] = "look"
    /\ IF ~Live THEN Else(x) /\ UNCHANGED calls
       ELSE IF object["assembly"] # Nothing THEN To(x, "record") /\ UNCHANGED calls
       ELSE IF \A p \in Parts : part[p].state = "accepted"
       THEN To(x, "record") /\ calls' = [calls EXCEPT !.complete = TRUE]
       ELSE Else(x) /\ UNCHANGED calls
    /\ UNCHANGED <<rows, multipart, uploaded, object, others>>

\* recordAssemblyObject also records for a suppressed assembly: the multipart
\* upload is closed.
RecordObject(x) ==
    /\ exec[x] = "record"
    /\ IF object["assembly"] = Nothing THEN To(x, "retry") /\ UNCHANGED asm
       ELSE IF asm.token = x /\ asm.state \in {"completing", "suppressed"}
       THEN asm' = [asm EXCEPT !.etag = TRUE, !.closed = TRUE] /\ To(x, "hash")
       ELSE Else(x) /\ UNCHANGED asm
    /\ UNCHANGED <<rowsBut, tr, promo, lease, storage, others>>

\* The digest of the pinned object, unless an earlier execution recorded it.
RecordHash(x) ==
    /\ exec[x] = "hash"
    /\ IF ~Live THEN Else(x) /\ UNCHANGED asm
       ELSE IF object["assembly"] = Nothing THEN To(x, "retry") /\ UNCHANGED asm
       ELSE IF asm.token = x /\ asm.state = "completing" /\ asm.etag
               /\ asm.hash \in {Nothing, object["assembly"]}
       THEN asm' = [asm EXCEPT !.hash = object["assembly"]] /\ To(x, "inspect")
       ELSE Else(x) /\ UNCHANGED asm
    /\ UNCHANGED <<rowsBut, tr, promo, lease, storage, others>>

\* The decoder's verdict; recordInspection wants the claim still held.
Inspect(x) ==
    /\ exec[x] = "inspect"
    /\ \/ To(x, IF Writable /\ tr.state = "processing" /\ tr.token = x /\ lease
                THEN "claim" ELSE "settle")
       \/ To(x, "reject") \/ To(x, "retry")
    /\ UNCHANGED <<rows, storage, others>>

\* assemblyIngressGuard: the claim, its lease and the assembly, as they are now.
ClaimHeld(x) ==
    /\ tr.state = "processing" /\ tr.token = x /\ ~expired /\ lease
    /\ asm.token = x /\ asm.state = "completing" /\ asm.etag /\ asm.hash # Nothing

\* claimReservationIngress with the assembly's marker.
ClaimFinal(x) ==
    /\ exec[x] = "claim"
    /\ IF Live /\ ClaimHeld(x) /\ promo.state \in {"pending", "copying"}
       THEN promo' = [state |-> "copying", token |-> x] /\ To(x, "put")
       ELSE UNCHANGED promo /\ Else(x)
    /\ UNCHANGED <<rowsBut, tr, asm, lease, storage, others>>

\* Create-only PUT of the pinned bytes; it may land after everything else.
PutFinal(x) ==
    /\ exec[x] = "put"
    /\ IF ~Live THEN Else(x) /\ UNCHANGED calls
       ELSE IF object["assembly"] = Nothing THEN To(x, "retry") /\ UNCHANGED calls
       ELSE calls' = [calls EXCEPT !.put = object["assembly"]] /\ To(x, "verify")
    /\ UNCHANGED <<rows, multipart, uploaded, object, others>>

\* The stored final object decides, not the answer to the PUT.
VerifyFinal(x) ==
    /\ exec[x] = "verify"
    /\ To(x, IF object["final"] = Nothing \/ object["final"] # asm.hash THEN "retry" ELSE "commit")
    /\ UNCHANGED <<rows, storage, others>>

\* Mutant of CommitFinal: the claim is not compared at the commit.
CommitsUnguarded(x) ==
    /\ exec[x] = "commit"
    /\ IF media = "reserved" /\ promo = [state |-> "copying", token |-> x]
       THEN /\ media' = "stored"
            /\ tr' = [tr EXCEPT !.state = IF @ = "processing" THEN "delivered" ELSE @]
            /\ promo' = [promo EXCEPT !.state = "committed"]
       ELSE UNCHANGED <<media, tr, promo>>
    /\ Else(x)
    /\ UNCHANGED <<open, expired, part, asm, lease, storage, others>>

\* commitReservationIngress: photo, promotion and transfer in one batch.
CommitFinal(x) ==
    /\ exec[x] = "commit"
    /\ IF Writable /\ ClaimHeld(x) /\ promo = [state |-> "copying", token |-> x]
       THEN /\ media' = "stored"
            /\ tr' = [tr EXCEPT !.state = "delivered"]
            /\ promo' = [promo EXCEPT !.state = "committed"]
       ELSE UNCHANGED <<media, tr, promo>>
    /\ Else(x)
    /\ UNCHANGED <<open, expired, part, asm, lease, storage, others>>

\* Any exception, or the heartbeat's abort signal.
Interrupted(x) ==
    /\ exec[x] \notin {"idle", "retry", "reject", "release", "settle"}
    /\ To(x, "retry")
    /\ UNCHANGED <<rows, storage, others>>

Holds(x) == tr.state = "processing" /\ tr.token = x

\* Mutant of FailCompletion: a verdict no CHECK of the table allows.
FailsUnnamed(x) ==
    /\ exec[x] \in {"retry", "reject"} /\ To(x, "settle")
    /\ tr' = IF Live /\ Holds(x) THEN [tr EXCEPT !.state = "failed"] ELSE tr
    /\ UNCHANGED <<media, open, expired, part, asm, promo, lease, storage, others>>

\* failCompletion: retryable keeps the claim for the next execution, rejected
\* fences; nothing is recorded once the transfer is no longer writable.
FailCompletion(x) ==
    /\ exec[x] \in {"retry", "reject"}
    /\ IF exec[x] = "reject" /\ Live /\ Holds(x)
       THEN Fence("rejected")
       ELSE /\ tr' = IF Live /\ Holds(x) THEN [tr EXCEPT !.state = "retryable"] ELSE tr
            /\ UNCHANGED <<part, asm>>
    /\ To(x, IF exec[x] = "reject" /\ Live THEN "release" ELSE "settle")
    /\ UNCHANGED <<media, open, expired, promo, lease, storage, others>>

\* failReservation after a rejection.
ReleaseRejected(x) ==
    /\ exec[x] = "release" /\ Else(x)
    /\ IF media = "reserved" THEN media' = "failed" /\ Fence("aborted")
       ELSE UNCHANGED <<media, tr, part, asm>>
    /\ UNCHANGED <<open, expired, promo, lease, storage, others>>

\* settleCompletion, in the finally: only this execution's claim.
SettleCompletion(x) ==
    /\ exec[x] = "settle"
    /\ exec' = [exec EXCEPT ![x] = "idle"]
    /\ asm' = IF asm.token # x \/ asm.state = "none" THEN asm
              ELSE [asm EXCEPT !.settled = TRUE,
                      !.state = IF @ = "completing" /\ tr.state = "delivered"
                                THEN "completed" ELSE @]
    /\ UNCHANGED <<rowsBut, tr, promo, lease, storage, others>>

ExecDies(x) ==
    /\ exec[x] # "idle" /\ exec' = [exec EXCEPT ![x] = "idle"]
    /\ UNCHANGED <<rows, storage, others>>

\* renewCompletionLease extends only a live lease, every 30 s: the lease lapses
\* when no heartbeat came in time.
LeaseLapses ==
    /\ tr.state \in Active /\ lease /\ lease' = FALSE
    /\ UNCHANGED <<rowsBut, tr, asm, promo, storage, workers>>

-----------------------------------------------------------------------------
(* Calls that land in R2, in their own time.                               *)

\* complete publishes the object once, while the multipart upload is open; that
\* R2 also compares the parts' etags is not relied upon here.
CompleteLands ==
    /\ calls.complete /\ calls' = [calls EXCEPT !.complete = FALSE]
    /\ IF multipart = "open"
       THEN multipart' = "gone" /\ object' = [object EXCEPT !["assembly"] = uploaded]
       ELSE UNCHANGED <<multipart, object>>
    /\ UNCHANGED <<rows, uploaded, workers>>

CompleteFails ==
    /\ calls.complete /\ calls' = [calls EXCEPT !.complete = FALSE]
    /\ UNCHANGED <<rows, multipart, uploaded, object, workers>>

PutLands ==
    /\ calls.put # Nothing /\ calls' = [calls EXCEPT !.put = Nothing]
    /\ object' = [object EXCEPT !["final"] = IF @ = Nothing THEN calls.put ELSE @]
    /\ UNCHANGED <<rows, multipart, uploaded, workers>>

PutFails ==
    /\ calls.put # Nothing /\ calls' = [calls EXCEPT !.put = Nothing]
    /\ UNCHANGED <<rows, multipart, uploaded, object, workers>>

-----------------------------------------------------------------------------
(* cleanupUploadTransfers and the purge, one action per statement.         *)

RetireCompleted ==
    /\ asm.state = "completed" /\ asm.settled /\ tr.state = "delivered"
    /\ asm' = [asm EXCEPT !.state = "suppressed"]
    /\ UNCHANGED <<rowsBut, tr, promo, lease, storage, workers>>

\* An intent no handler claimed cannot have reached R2.
RetireUnclaimed ==
    /\ asm.state = "suppressed" /\ asm.token = NoToken /\ ~asm.id /\ ~asm.created
    /\ asm' = [asm EXCEPT !.state = "absent", !.created = TRUE, !.settled = TRUE, !.closed = TRUE]
    /\ UNCHANGED <<rowsBut, tr, promo, lease, storage, workers>>

Retiring == asm.state = "suppressed" /\ asm.id /\ asm.created

AbortMultipart ==
    /\ Retiring /\ ~asm.closed /\ multipart # "gone"
    /\ multipart' = "gone"
    /\ UNCHANGED <<rows, uploaded, object, calls, workers>>

MarkClosed ==
    /\ Retiring /\ ~asm.closed /\ multipart = "gone"
    /\ asm' = [asm EXCEPT !.closed = TRUE]
    /\ UNCHANGED <<rowsBut, tr, promo, lease, storage, workers>>

\* Mutant of SettleByPlatform: an instance that still runs is left alone.
SettlesEnded ==
    /\ Retiring /\ asm.closed /\ ~asm.settled /\ instance = "ended"
    /\ asm' = [asm EXCEPT !.settled = TRUE]
    /\ UNCHANGED <<rowsBut, tr, promo, lease, storage, workers>>

\* Only the platform's word that the instance ended settles its writer.
SettleByPlatform ==
    /\ Retiring /\ asm.closed /\ ~asm.settled /\ instance # "none"
    /\ instance' = "ended"
    /\ asm' = [asm EXCEPT !.settled = TRUE]
    /\ UNCHANGED <<rowsBut, tr, promo, lease, storage, handler, exec, restarting, cleaner>>

PartsSettled == \A p \in Parts : part[p].settled

\* Delete, then head: absent unless something published it again.
DeleteAssembly ==
    /\ cleaner = "idle" /\ Retiring /\ asm.closed /\ asm.settled /\ PartsSettled
    /\ object' = [object EXCEPT !["assembly"] = Nothing]
    /\ cleaner' = "mark"
    /\ UNCHANGED <<rows, multipart, uploaded, calls, handler, exec, instance, restarting>>

MarkAbsent ==
    /\ cleaner = "mark" /\ cleaner' = "idle"
    /\ asm' = IF Retiring /\ asm.closed /\ asm.settled /\ PartsSettled
              THEN [asm EXCEPT !.state = "absent"] ELSE asm
    /\ UNCHANGED <<rowsBut, tr, promo, lease, storage, handler, exec, instance, restarting>>

\* eventHasUploadInventory, asked before the purge and by its triggers.
HasInventory ==
    tr.state \in Active \/ asm.state \notin {"none", "absent"} \/ ~PartsSettled

\* purgeUploadInventory: the rows go, and with them all knowledge of R2.
PurgeInventory ==
    /\ tr.state # "none" /\ media # "reserved" /\ ~open /\ ~HasInventory
    /\ tr' = NoTransfer /\ part' = [p \in Parts |-> NoPart] /\ asm' = NoAssembly
    /\ UNCHANGED <<media, open, expired, promo, lease, storage, workers>>

CleanupStep ==
    \/ FenceIfUnwritable \/ FailTerminal \/ RetireCompleted \/ RetireUnclaimed
    \/ AbortMultipart \/ MarkClosed \/ SettleByPlatform \/ DeleteAssembly \/ MarkAbsent
    \/ PurgeInventory

ExecStep(x) ==
    \/ BeginCompletion(x) \/ LookAssembly(x) \/ RecordObject(x)
    \/ RecordHash(x) \/ Inspect(x) \/ ClaimFinal(x) \/ PutFinal(x) \/ VerifyFinal(x)
    \/ CommitFinal(x) \/ FailCompletion(x) \/ ReleaseRejected(x) \/ SettleCompletion(x)

Next ==
    \/ TransferStep \/ Dispatch \/ Restart \/ InstanceEnds
    \/ \E x \in Execs : ExecStep(x) \/ Interrupted(x) \/ ExecDies(x)
    \/ LeaseLapses \/ CompleteLands \/ CompleteFails \/ PutLands \/ PutFails
    \/ CleanupStep

Spec == Init /\ [][Next]_vars

-----------------------------------------------------------------------------
(* Properties.                                                             *)

\* A photo is stored exactly when its transfer says delivered, whatever
\* executions, cancellations and deadlines met on the way.
OutcomesAgree ==
    tr.state # "none" => (tr.state = "delivered" <=> media \in {"stored", "deleted"})

\* What was delivered is what the client sent: every part under the digest its
\* first claim pinned, although parts were retried and executions overlapped.
DeliveredBytes ==
    media = "stored" /\ tr.state # "none" =>
                        /\ object["final"] = [p \in Parts |-> part[p].sha]
                        /\ \A p \in Parts : part[p].sha # NoBytes

\* An assembly declared absent, or forgotten by the purge, has nothing left in
\* R2 and no call under way that could bring it back.
AbsentForGood ==
    asm.state = "absent" \/ (asm.state = "none" /\ tr.state = "none")
        => object["assembly"] = Nothing /\ multipart \notin {"asked", "open"}

\* Transfer and assembly name the same claim while a completion may still be
\* taken over: if they parted, no execution could ever begin again.
ClaimsAgree ==
    tr.state \in {"processing", "retryable"} =>
        asm.state = "completing" /\ asm.token = tr.token /\ ~tr.fenced

\* Photo, transfer and assembly tell one story, whatever executions, cancellations
\* and deadlines met on the way.
DeliveriesAgree == OutcomesAgree /\ ClaimsAgree

\* What is in R2 is what was sent, and what is gone stays gone.
BytesAccounted == DeliveredBytes /\ AbsentForGood

-----------------------------------------------------------------------------
(* What must end, under the fairness MCEndings states.                      *)

\* A running execution's heartbeat keeps its lease; intake does not flap.
Steady ==
    /\ lease /\ ~lease' => \A x \in Execs : exec[x] = "idle" \/ tr.token # x
    /\ open' => open

\* A step other than the failure of a call, of the decoder or of a process.
Sound ==
    \/ TransferStep \/ Dispatch \/ Restart \/ InstanceEnds
    \/ \E x \in Execs : ExecStep(x) /\ ~(exec[x] = "inspect" /\ exec'[x] = "retry")
    \/ LeaseLapses \/ CompleteLands \/ PutLands \/ CleanupStep

\* The state of a transfer whose last part has been accepted, no request under
\* way: where the runs about completion start.
AllPartsSent ==
    \E sent \in [Parts -> Contents], h \in Handlers :
        /\ media = "reserved" /\ open = TRUE /\ expired = FALSE
        /\ tr = [NoTransfer EXCEPT !.state = "receiving"]
        /\ part = [p \in Parts |-> [state |-> "accepted", sha |-> sent[p], token |-> h,
                                   lease |-> FALSE, settled |-> TRUE]]
        /\ asm = [NoAssembly EXCEPT !.state = "receiving", !.token = h, !.id = TRUE,
                                    !.created = TRUE, !.settled = TRUE]
        /\ promo = [state |-> "pending", token |-> NoToken] /\ lease = FALSE
        /\ multipart = "open" /\ uploaded = sent
        /\ object = [k \in {"assembly", "final"} |-> Nothing]
        /\ calls = [complete |-> FALSE, put |-> Nothing]
        /\ handler = [w \in Handlers |-> IdleHandler]
        /\ exec = [x \in Execs |-> "idle"]
        /\ instance = "none" /\ restarting = FALSE /\ cleaner = "idle"

\* The quota of a transfer that ended without delivery is given back, also when
\* the process that ended it died before doing so.
ReservationReleased == tr.state \in Terminal ~> media # "reserved"

\* What an ended transfer left in R2 is removed, unless the answer to its create
\* was lost or one of its part writers vanished: those the code keeps for ever.
InventoryGoes ==
    tr.fenced /\ (asm.id \/ (asm.state # "none" /\ asm.token = NoToken)) /\ PartsSettled
        ~> asm.state \in {"none", "absent"} \/ ~PartsSettled
=============================================================================
