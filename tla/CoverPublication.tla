--------------------------- MODULE CoverPublication ---------------------------
(***************************************************************************)
(* One uploaded cover on its way to the event: the receipt the host polls, *)
(* the draft and the render set it holds, the fence of its Workflow        *)
(* instance, the requests that dispatch and restart that instance, the run *)
(* itself, the sweep of what was never restarted, and the purge of the     *)
(* event.                                                                  *)
(*                                                                         *)
(* Receipt and fence change their dispatch generation in one batch, so the *)
(* two never differ; what an observer does depends only on whether the     *)
(* generation it read is still the current one, its flag fresh.  A failed  *)
(* lookup says nothing: no matcher certifies an absent instance.           *)
(***************************************************************************)
EXTENDS Integers, FiniteSets

CONSTANTS Requests,
          SlotCount, \* derived slots of the set: twelve to twenty-four in the program
          StaleCalls \* whether a call may still land two minutes after its claim

ASSUME CoverSlots == SlotCount \in Nat \ {0} /\ IsFiniteSet(Requests) /\ StaleCalls \in BOOLEAN

VARIABLES
    current,   \* the event's cover revision is the one the receipt expects
    deleted,   \* events.deleted_at
    receipt, fence, set, draft, rows, objects,
    platform,  \* the Workflow instance, as its status call answers
    run, request, sweeper, purge

vars == <<current, deleted, receipt, fence, set, draft, rows, objects, platform, run, request, sweeper, purge>>
event == <<current, deleted>>
graph == <<receipt, fence, set, draft>>
stored == <<rows, objects>>

Slots == 1..SlotCount
Working == {"queued", "rendering", "finalizing"}
Unresolved == Working \cup {"retryable"}
ClaimState == {"creating", "resuming", "restarting"}
Ended == {"ended", "complete"}
IdleRun == [pc |-> "off", next |-> 1, status |-> "queued", fresh |-> FALSE, wrote |-> FALSE]
StartedRun == [IdleRun EXCEPT !.pc = "preflight"]
IdleRequest == [pc |-> "idle", status |-> "queued", dispatch |-> "pending", fresh |-> FALSE, found |-> "failed"]
IdleSweeper == [pc |-> "idle", found |-> "failed", fresh |-> FALSE]

Found == {"active", "paused", "ended", "complete", "failed"}
Statuses == Unresolved \cup {"applied", "conflict", "exhausted", "failed", "gone"}
Dispatches == ClaimState \cup {"pending", "confirmed", "failed", "blocked"}

Receipt == [status: Statuses, dispatch: Dispatches, young: BOOLEAN, expired: BOOLEAN]
Fence == [state: {"open", "blocked"}, proof: BOOLEAN]
Run == [pc: {"off", "preflight", "start", "profile", "admitted", "written", "drop",
             "finalize", "exhaust", "checkpoint", "commit", "done"},
        next: 1..(SlotCount + 1), status: Statuses, fresh: BOOLEAN, wrote: BOOLEAN]
Caller == [pc: {"idle", "decide", "call", "threw", "follow", "confirm", "terminate", "observe", "settle"},
           status: Statuses, dispatch: Dispatches, fresh: BOOLEAN, found: Found]
Expirer == [pc: {"idle", "claim", "look", "terminate", "observe", "settle"}, found: Found, fresh: BOOLEAN]

TypeOK ==
    /\ current \in BOOLEAN /\ deleted \in BOOLEAN
    /\ receipt \in Receipt /\ fence \in Fence
    /\ set \in {"staging", "ready", "active", "abandoned"}
    /\ draft \in {"publishing", "ready", "published"}
    /\ rows \subseteq Slots /\ objects \subseteq Slots
    /\ platform \in {"absent", "active", "paused", "ended", "complete"}
    /\ run \in Run /\ request \in [Requests -> Caller] /\ sweeper \in Expirer
    /\ purge \in {"none", "fences", "settling", "r2", "relational", "done"}

\* acceptCoverPublication: receipt, frozen draft, staging set and open fence in one batch.
Init ==
    /\ current = TRUE /\ deleted = FALSE
    /\ receipt = [status |-> "queued", dispatch |-> "pending", young |-> FALSE, expired |-> FALSE]
    /\ fence = [state |-> "open", proof |-> FALSE] /\ set = "staging" /\ draft = "publishing"
    /\ rows = {} /\ objects = {} /\ platform = "absent" /\ run = IdleRun
    /\ request = [r \in Requests |-> IdleRequest] /\ sweeper = IdleSweeper /\ purge = "none"

Live == current /\ ~deleted
Held == draft = "publishing" /\ set \in {"staging", "ready"}
Young == receipt.dispatch \in ClaimState /\ receipt.young

\* Mutant of Settle: the draft stays with the publication.
SettleAlone(status, dispatch) ==
    /\ receipt' = [receipt EXCEPT !.status = status, !.dispatch = dispatch]
    /\ set' = "abandoned" /\ fence' = [fence EXCEPT !.proof = TRUE] /\ UNCHANGED draft
\* A guarded batch that makes the receipt terminal: the set is abandoned, the
\* draft handed back, and the fence gets its terminal expiry.
Settle(status, dispatch) ==
    /\ receipt' = [receipt EXCEPT !.status = status, !.dispatch = dispatch]
    /\ set' = "abandoned" /\ draft' = "ready" /\ fence' = [fence EXCEPT !.proof = TRUE]

\* A claim: a new generation of receipt and fence, and the hold of the fence.
ClaimGraph(status, dispatch) ==
    /\ receipt' = [status |-> status, dispatch |-> dispatch, young |-> TRUE,
                   expired |-> receipt.expired /\ status = "retryable"]
    /\ fence' = [fence EXCEPT !.proof = FALSE] /\ UNCHANGED <<set, draft>>

RunOutdated == run' = [run EXCEPT !.fresh = FALSE]
\* Who compares with an old generation before any call writes nothing any more.
RequestsOutdated ==
    [q \in Requests |-> IF request[q].pc = "decide" THEN IdleRequest ELSE [request[q] EXCEPT !.fresh = FALSE]]
Then(pc, found, fresh) == [IdleRequest EXCEPT !.pc = pc, !.found = found, !.fresh = fresh]

-----------------------------------------------------------------------------
(* The first dispatch, and the host's retry.                               *)

\* claimInitialCoverDispatch, of the one generation that is still pending.
ClaimInitial(r) ==
    /\ request[r].pc = "idle" /\ receipt.status = "queued" /\ receipt.dispatch = "pending"
    /\ fence.state = "open" /\ Live
    /\ ClaimGraph("queued", "creating") /\ RunOutdated
    /\ request' = [RequestsOutdated EXCEPT ![r] = Then("call", "failed", TRUE)]
    /\ UNCHANGED <<event, stored, platform, sweeper, purge>>

\* ... which the revision has overtaken: settled without any platform call.
ConflictInitial(r) ==
    /\ request[r].pc = "idle" /\ receipt.status = "queued" /\ receipt.dispatch = "pending"
    /\ fence.state = "open" /\ ~deleted /\ ~current /\ Held
    /\ Settle("conflict", "pending")
    /\ UNCHANGED <<event, stored, platform, run, request, sweeper, purge>>

\* restartCoverPublication, up to its lookup.  A receipt that changes between
\* the read and the lookup is one the reread refuses: the two are one step.
LoadAs(r, found) ==
    /\ request[r].pc = "idle" /\ receipt.status \in Unresolved
    /\ ~(receipt.status = "retryable" /\ receipt.expired)
    /\ request' = [request EXCEPT ![r] = [pc |-> "decide", found |-> found, fresh |-> TRUE,
         status |-> receipt.status, dispatch |-> receipt.dispatch]]
    /\ UNCHANGED <<event, graph, stored, platform, run, sweeper, purge>>

\* The truth, where there is one to tell.
Answer == IF platform = "absent" THEN "failed" ELSE platform
Load(r) == LoadAs(r, Answer)
LoadFails(r) == platform # "absent" /\ LoadAs(r, "failed")

Looks(r, from, to, found) ==
    /\ request[r].pc = from /\ request' = [request EXCEPT ![r].pc = to, ![r].found = found]
    /\ UNCHANGED <<event, graph, stored, platform, run, sweeper, purge>>

SameSnapshot(r) ==
    request[r].fresh /\ receipt.status = request[r].status /\ receipt.dispatch = request[r].dispatch
\* The receipt as it is after the lookup: nothing newer, and no claim another caller is acting on.
Reread(r) ==
    /\ request[r].pc = "decide" /\ receipt.status \in Unresolved /\ SameSnapshot(r) /\ ~Young
    /\ ~(request[r].found = "complete" /\ receipt.status = "retryable")

Claimed(found) ==
    CASE found = "paused" -> "resuming" [] found = "failed" -> "creating" [] OTHER -> "restarting"

Claimable ==
    /\ fence.state = "open" /\ Live
    /\ receipt.status \in Working \/ (receipt.status = "retryable" /\ ~receipt.expired)

ClaimRestart(r) ==
    /\ Reread(r) /\ request[r].found # "active" /\ Claimable
    /\ ClaimGraph("queued", Claimed(request[r].found)) /\ RunOutdated
    /\ request' = [RequestsOutdated EXCEPT ![r] = Then("call", request[r].found, TRUE)]
    /\ sweeper' = [sweeper EXCEPT !.fresh = FALSE]
    /\ UNCHANGED <<event, stored, platform, purge>>

\* The claim of an instance whose revision lost: it is to be stopped before D1 settles.
ConflictClaimable(r) ==
    /\ Reread(r) /\ request[r].found # "active" /\ ~Claimable
    /\ request[r].found = "paused" \/ receipt.dispatch \in ClaimState
    /\ ~deleted /\ ~current /\ Held /\ fence.state = "open"
ClaimConflict(r) ==
    /\ ConflictClaimable(r)
    /\ ClaimGraph(receipt.status, IF request[r].found = "paused" THEN "resuming" ELSE "restarting")
    /\ RunOutdated
    /\ request' = [RequestsOutdated EXCEPT ![r] = Then("terminate", "failed", TRUE)]
    /\ sweeper' = [sweeper EXCEPT !.fresh = FALSE]
    /\ UNCHANGED <<event, stored, platform, purge>>

\* settleCoverDispatchRevisionConflict, of an instance seen to have ended.
SettleEnded(r) ==
    /\ Reread(r) /\ ~Claimable /\ request[r].found \in Ended /\ receipt.dispatch \notin ClaimState
    /\ ~deleted /\ ~current /\ Held /\ fence.state = "open"
    /\ Settle("conflict", receipt.dispatch)
    /\ request' = [request EXCEPT ![r] = IdleRequest]
    /\ UNCHANGED <<event, stored, platform, run, sweeper, purge>>

\* A claim whose instance turns out to be active is confirmed.
ConfirmActive(r) ==
    /\ Reread(r) /\ request[r].found = "active" /\ receipt.dispatch \in ClaimState
    /\ receipt.status # "retryable"
    /\ request' = [request EXCEPT ![r] = Then("confirm", "failed", TRUE)]
    /\ UNCHANGED <<event, graph, stored, platform, run, sweeper, purge>>

\* The caller reports and writes nothing.
Leave(r) ==
    /\ request[r].pc = "decide"
    /\ ~(Reread(r) /\ request[r].found # "active" /\ Claimable) /\ ~ConflictClaimable(r)
    /\ ~(Reread(r) /\ request[r].found = "active" /\ receipt.dispatch \in ClaimState)
    /\ request' = [request EXCEPT ![r] = IdleRequest]
    /\ UNCHANGED <<event, graph, stored, platform, run, sweeper, purge>>

-----------------------------------------------------------------------------
(* The platform call, and what follows it.                                 *)

\* createBatch skips a retained ID; restart begins again; resume needs a paused instance.
Effect(dispatch) ==
    CASE dispatch = "creating" /\ platform = "absent" -> platform' = "active" /\ run' = StartedRun
      [] dispatch = "restarting" /\ platform # "absent" -> platform' = "active" /\ run' = StartedRun
      [] dispatch = "resuming" /\ platform = "paused" -> platform' = "active" /\ UNCHANGED run
      [] OTHER -> UNCHANGED <<platform, run>>

Call(r) ==
    /\ request[r].pc = "call" /\ Effect(Claimed(request[r].found))
    /\ \E pc \in {"confirm", "threw"} : request' = [request EXCEPT ![r] = Then(pc, "failed", request[r].fresh)]
    /\ UNCHANGED <<event, graph, stored, sweeper, purge>>
CallFails(r) ==
    /\ request[r].pc = "call"
    /\ request' = [request EXCEPT ![r] = Then("threw", "failed", request[r].fresh)]
    /\ UNCHANGED <<event, graph, stored, platform, run, sweeper, purge>>

FollowUp(r) == Looks(r, "threw", "follow", Answer)
FollowUpFails(r) == platform # "absent" /\ Looks(r, "threw", "follow", "failed")

Terminate == platform' = (IF platform = "absent" THEN "absent" ELSE IF platform \in Ended THEN platform ELSE "ended")
             /\ run' = IF platform \in {"active", "paused"} THEN IdleRun ELSE run

\* inspectAndGuardCoverDispatch: when the instance must not be left alive.
LostAdmission(r) ==
    \/ fence.state = "blocked"
    \/ request[r].fresh /\ receipt.status \in Unresolved /\ ~Live
    \/ ~request[r].fresh /\ receipt.status \notin Unresolved /\ fence.proof
Guard(r) == IF LostAdmission(r) THEN Terminate ELSE UNCHANGED <<platform, run>>

\* An unknown answer: nothing is written, but the fence is checked.
FollowUnknown(r) ==
    /\ request[r].pc = "follow" /\ request[r].found = "failed" /\ Guard(r)
    /\ request' = [request EXCEPT ![r] = IdleRequest]
    /\ UNCHANGED <<event, graph, stored, sweeper, purge>>
FollowActive(r) ==
    /\ request[r].pc = "follow" /\ request[r].found = "active"
    /\ request' = [request EXCEPT ![r] = Then("confirm", "failed", request[r].fresh)]
    /\ UNCHANGED <<event, graph, stored, platform, run, sweeper, purge>>
\* markDispatchFailed, and without its write the confirmation's check.
MarkFailed(r) ==
    /\ request[r].pc = "follow" /\ request[r].found \notin {"failed", "active"}
    /\ IF request[r].fresh /\ receipt.dispatch \in ClaimState /\ receipt.status \in Working
          /\ Live /\ fence.state = "open"
       THEN /\ receipt' = [receipt EXCEPT !.status = "retryable", !.dispatch = "failed", !.expired = FALSE]
            /\ request' = [request EXCEPT ![r] = IdleRequest]
       ELSE request' = [request EXCEPT ![r] = Then("confirm", "failed", request[r].fresh)] /\ UNCHANGED receipt
    /\ UNCHANGED <<event, fence, set, draft, stored, platform, run, sweeper, purge>>

\* confirmCoverDispatch, and the guard when it does not hold.
Confirm(r) ==
    /\ request[r].pc = "confirm"
    /\ IF request[r].fresh /\ receipt.dispatch \in ClaimState /\ fence.state = "open" /\ ~deleted
          /\ receipt.status # "gone" /\ (current \/ receipt.status \notin Unresolved)
       THEN receipt' = [receipt EXCEPT !.dispatch = "confirmed"] /\ UNCHANGED <<platform, run>>
       ELSE Guard(r) /\ UNCHANGED receipt
    /\ request' = [request EXCEPT ![r] = IdleRequest]
    /\ UNCHANGED <<event, fence, set, draft, stored, sweeper, purge>>

\* terminateRevisionConflict: stopped, observed, settled.
Stop(r) ==
    /\ request[r].pc = "terminate" /\ request' = [request EXCEPT ![r].pc = "observe"] /\ Terminate
    /\ UNCHANGED <<event, graph, stored, sweeper, purge>>
StopFails(r) ==
    /\ request[r].pc = "terminate" /\ request' = [request EXCEPT ![r].pc = "observe"]
    /\ UNCHANGED <<event, graph, stored, platform, run, sweeper, purge>>
Observe(r) == Looks(r, "observe", "settle", Answer)
\* Mutant of SettleStopped: that the instance ended is enough.
SettleStoppedAny(r) ==
    /\ request[r].pc = "settle"
    /\ IF request[r].found \in Ended /\ ~deleted THEN Settle("conflict", receipt.dispatch) ELSE UNCHANGED graph
    /\ request' = [request EXCEPT ![r] = IdleRequest]
    /\ UNCHANGED <<event, stored, platform, run, sweeper, purge>>
SettleStopped(r) ==
    /\ request[r].pc = "settle"
    /\ IF request[r].found \in Ended /\ request[r].fresh /\ receipt.dispatch \in ClaimState
          /\ receipt.status \in Unresolved /\ ~deleted /\ Held /\ fence.state = "open"
       THEN Settle("conflict", receipt.dispatch) ELSE UNCHANGED graph
    /\ request' = [request EXCEPT ![r] = IdleRequest]
    /\ UNCHANGED <<event, stored, platform, run, sweeper, purge>>

RequestDies(r) ==
    /\ request[r].pc # "idle" /\ request' = [request EXCEPT ![r] = IdleRequest]
    /\ UNCHANGED <<event, graph, stored, platform, run, sweeper, purge>>

-----------------------------------------------------------------------------
(* The run of the instance.                                                *)

RunOnly(fields) == run' = fields /\ UNCHANGED <<event, graph, stored, platform, request, sweeper, purge>>
At(pc) == platform = "active" /\ run.pc = pc

\* recordConflict and recordSafeFailure, of the generation this run read.
RunSettles(status) ==
    IF run.fresh /\ receipt.status \in Unresolved /\ Held /\ fence.state = "open"
    THEN Settle(status, receipt.dispatch) ELSE UNCHANGED graph

\* coverRenderPreflight reads; a terminal or failed receipt, and a blocked
\* fence, end the run without a write.
Preflight ==
    /\ At("preflight")
    /\ RunOnly(IF receipt.status \in Working /\ fence.state = "open"
               THEN [run EXCEPT !.pc = "start", !.status = receipt.status, !.fresh = TRUE]
               ELSE [IdleRun EXCEPT !.pc = "done"])

\* ... and writes: a failure, a conflict, or the move to rendering.
Begin ==
    /\ At("start")
    /\ IF deleted THEN RunSettles("failed") /\ run' = [IdleRun EXCEPT !.pc = "done"]
       ELSE IF ~current \/ draft # "publishing"
       THEN RunSettles("conflict") /\ run' = [IdleRun EXCEPT !.pc = "done"]
       ELSE IF run.fresh /\ receipt.status = run.status /\ receipt.status \in {"queued", "rendering"}
               /\ set = "staging" /\ fence.state = "open"
       THEN /\ receipt' = [receipt EXCEPT !.status = "rendering"] /\ UNCHANGED <<fence, set, draft>>
            /\ run' = [IdleRun EXCEPT !.pc = "profile"]
       ELSE UNCHANGED graph /\ run' = [IdleRun EXCEPT !.pc = "done"]
    /\ UNCHANGED <<event, stored, platform, request, sweeper, purge>>

Admitted ==
    /\ receipt.status = "rendering" /\ Live /\ set = "staging" /\ draft = "publishing" /\ fence.state = "open"

NextSlot == [IdleRun EXCEPT !.pc = "profile", !.next = run.next + 1]
Profile ==
    /\ At("profile")
    /\ RunOnly(IF run.next > SlotCount THEN [IdleRun EXCEPT !.pc = "finalize"]
               ELSE IF Admitted THEN [run EXCEPT !.pc = "admitted", !.fresh = TRUE]
               ELSE NextSlot)

\* The conditional create of a slot's object.
Put ==
    /\ At("admitted") /\ objects' = objects \cup {run.next}
    /\ run' = [run EXCEPT !.pc = "written", !.wrote = run.next \notin objects]
    /\ UNCHANGED <<event, graph, rows, platform, request, sweeper, purge>>

Adopt ==
    /\ At("written")
    /\ IF Admitted /\ run.fresh
       THEN rows' = rows \cup {run.next} /\ run' = NextSlot
       ELSE UNCHANGED rows /\ run' = IF run.wrote THEN [run EXCEPT !.pc = "drop"] ELSE NextSlot
    /\ UNCHANGED <<event, graph, objects, platform, request, sweeper, purge>>

Drop ==
    /\ At("drop") /\ objects' = objects \ {run.next}
    /\ run' = NextSlot
    /\ UNCHANGED <<event, graph, rows, platform, request, sweeper, purge>>

Complete == rows = Slots /\ objects = Slots

\* coverRenderFinalize reads.
Finalize ==
    /\ At("finalize")
    /\ RunOnly([run EXCEPT !.fresh = TRUE, !.pc =
         CASE receipt.status = "rendering" -> (IF Complete THEN "checkpoint" ELSE "exhaust")
           [] receipt.status = "finalizing" -> "commit"
           [] OTHER -> "done"])

\* An incomplete manifest is a permanent failure.
Exhaust ==
    /\ At("exhaust") /\ RunSettles("exhausted") /\ run' = [IdleRun EXCEPT !.pc = "done"]
    /\ UNCHANGED <<event, stored, platform, request, sweeper, purge>>

\* recordReadyCheckpoint: all of it or, by its assertion, nothing; then a lost
\* revision is a conflict, and everything else is thrown to the step's retry.
Checkpoint ==
    /\ At("checkpoint")
    /\ IF Admitted /\ run.fresh
       THEN /\ set' = "ready" /\ receipt' = [receipt EXCEPT !.status = "finalizing"]
            /\ run' = [run EXCEPT !.pc = "commit"] /\ UNCHANGED <<fence, draft>>
       ELSE IF run.fresh /\ receipt.status \in Unresolved /\ ~deleted /\ ~current
       THEN RunSettles("conflict") /\ run' = [IdleRun EXCEPT !.pc = "done"]
       ELSE run' = [IdleRun EXCEPT !.pc = "finalize"] /\ UNCHANGED graph
    /\ UNCHANGED <<event, stored, platform, request, sweeper, purge>>

Owned == run.fresh /\ receipt.status = "finalizing" /\ set = "ready" /\ draft = "publishing" /\ fence.state = "open"

\* The one batch of pointer, receipt, set, draft and fence; or the conflict.
Commit ==
    /\ At("commit")
    /\ IF Owned
       THEN /\ run' = [IdleRun EXCEPT !.pc = "done"]
            /\ IF Live
               THEN /\ receipt' = [receipt EXCEPT !.status = "applied"] /\ set' = "active"
                    /\ draft' = "published" /\ fence' = [fence EXCEPT !.proof = TRUE]
               ELSE Settle("conflict", receipt.dispatch)
       ELSE run' = [IdleRun EXCEPT !.pc = "finalize"] /\ UNCHANGED graph
    /\ UNCHANGED <<event, stored, platform, request, sweeper, purge>>

RunEnds ==
    /\ At("done") /\ platform' = "complete" /\ run' = IdleRun
    /\ UNCHANGED <<event, graph, stored, request, sweeper, purge>>

\* The platform: a step out of retries, and an operator's pause between steps.
InstanceErrs ==
    /\ platform = "active" /\ platform' = "ended" /\ run' = IdleRun
    /\ UNCHANGED <<event, graph, stored, request, sweeper, purge>>
InstancePaused ==
    /\ platform = "active" /\ run.pc \in {"preflight", "profile", "finalize"} /\ platform' = "paused"
    /\ UNCHANGED <<event, graph, stored, run, request, sweeper, purge>>

-----------------------------------------------------------------------------
(* The sweep of a failure nobody restarted within its window.              *)

\* Mutant of Expired: what another cover overtook is not looked at.
ExpiredCurrent ==
    receipt.status = "retryable" /\ receipt.expired /\ Live /\ Held /\ fence.state = "open"
Expired == receipt.status = "retryable" /\ receipt.expired /\ ~deleted /\ Held /\ fence.state = "open"

SweepLooks ==
    /\ sweeper.pc = "idle" /\ Expired /\ ~Young /\ platform # "absent"
    /\ sweeper' = [pc |-> "claim", found |-> platform, fresh |-> TRUE]
    /\ UNCHANGED <<event, graph, stored, platform, run, request, purge>>

\* claimRetryableReceiptExpiry: a generation of the sweep's own.
SweepClaims ==
    /\ sweeper.pc = "claim"
    /\ IF sweeper.fresh /\ Expired /\ ~Young
       THEN /\ ClaimGraph("retryable", IF sweeper.found = "paused" THEN "resuming" ELSE "restarting")
            /\ RunOutdated /\ request' = RequestsOutdated
            /\ sweeper' = [sweeper EXCEPT !.pc = "look"]
       ELSE sweeper' = IdleSweeper /\ UNCHANGED <<graph, run, request>>
    /\ UNCHANGED <<event, stored, platform, purge>>

SweepRelooks ==
    /\ sweeper.pc \in {"look", "observe"}
    /\ sweeper' = IF platform \in Ended THEN [sweeper EXCEPT !.pc = "settle"]
                  ELSE IF sweeper.pc = "look" THEN [sweeper EXCEPT !.pc = "terminate"] ELSE IdleSweeper
    /\ UNCHANGED <<event, graph, stored, platform, run, request, purge>>

SweepStops ==
    /\ sweeper.pc = "terminate" /\ Terminate /\ sweeper' = [sweeper EXCEPT !.pc = "observe"]
    /\ UNCHANGED <<event, graph, stored, request, purge>>

\* settleRetryableReceiptExpiry
SweepSettles ==
    /\ sweeper.pc = "settle" /\ sweeper' = IdleSweeper
    /\ IF sweeper.fresh /\ Expired
       THEN IF current THEN Settle("failed", "failed") ELSE Settle("conflict", receipt.dispatch)
       ELSE UNCHANGED graph
    /\ UNCHANGED <<event, stored, platform, run, request, purge>>

SweepDies ==
    /\ sweeper.pc # "idle" /\ sweeper' = IdleSweeper
    /\ UNCHANGED <<event, graph, stored, platform, run, request, purge>>

-----------------------------------------------------------------------------
(* The event: another cover published, its deletion, and its purge.        *)

\* A publication without an upload is not kept out by one that is prepared.
Moves ==
    /\ current /\ ~deleted /\ receipt.status \in Unresolved /\ current' = FALSE
    /\ UNCHANGED <<deleted, graph, stored, platform, run, request, sweeper, purge>>
Deletes ==
    /\ ~deleted /\ deleted' = TRUE
    /\ UNCHANGED <<current, graph, stored, platform, run, request, sweeper, purge>>

\* The first batch: a fence with terminal proof keeps it, every other is held.
PurgeBegins ==
    /\ purge = "none" /\ deleted /\ purge' = "fences"
    /\ fence' = [fence EXCEPT !.state = "blocked"]
    /\ receipt' = IF receipt.status \in Unresolved
                  THEN [receipt EXCEPT !.status = "failed",
                          !.dispatch = IF receipt.dispatch \in ClaimState THEN receipt.dispatch ELSE "blocked"]
                  ELSE receipt
    /\ UNCHANGED <<event, set, draft, stored, platform, run, request, sweeper>>

\* Mutant of PurgeSees: that the instance answers is enough.
PurgeSeesAny == platform # "absent"
\* purgeActionFor: only an instance seen to have ended settles its fence.
PurgeSees == platform \in Ended

PurgeLooks ==
    /\ purge = "fences" /\ ~fence.proof /\ ~Young /\ PurgeSees /\ purge' = "settling"
    /\ UNCHANGED <<event, graph, stored, platform, run, request, sweeper>>
PurgeStops ==
    /\ purge = "fences" /\ ~fence.proof /\ ~Young /\ platform \in {"active", "paused"} /\ Terminate
    /\ UNCHANGED <<event, graph, stored, request, sweeper, purge>>
PurgeSettles ==
    /\ purge = "settling" /\ purge' = "r2" /\ fence' = [fence EXCEPT !.proof = TRUE]
    /\ UNCHANGED <<event, receipt, set, draft, stored, platform, run, request, sweeper>>
PurgeTrusts ==
    /\ purge = "fences" /\ fence.proof /\ purge' = "r2"
    /\ UNCHANGED <<event, graph, stored, platform, run, request, sweeper>>
PurgeSweeps ==
    /\ purge = "r2" /\ objects' = {} /\ purge' = "relational"
    /\ UNCHANGED <<event, graph, rows, platform, run, request, sweeper>>
\* The event's rows go; the fence stays for the platform's retention and a day.
PurgeEnds ==
    /\ purge = "relational" /\ purge' = "done" /\ rows' = {} /\ set' = "abandoned" /\ draft' = "ready"
    /\ receipt' = [receipt EXCEPT !.status = "gone"]
    /\ UNCHANGED <<event, fence, objects, platform, run, request, sweeper>>

-----------------------------------------------------------------------------
Ages ==
    /\ receipt.young /\ (StaleCalls \/ \A r \in Requests : request[r].pc # "call")
    /\ receipt' = [receipt EXCEPT !.young = FALSE]
    /\ UNCHANGED <<event, fence, set, draft, stored, platform, run, request, sweeper, purge>>
WindowEnds ==
    /\ receipt.status = "retryable" /\ ~receipt.expired /\ receipt' = [receipt EXCEPT !.expired = TRUE]
    /\ UNCHANGED <<event, fence, set, draft, stored, platform, run, request, sweeper, purge>>

RequestSteps(r) ==
    \/ ClaimInitial(r) \/ ConflictInitial(r) \/ Load(r) \/ ClaimRestart(r) \/ ClaimConflict(r)
    \/ SettleEnded(r) \/ ConfirmActive(r) \/ Leave(r) \/ Call(r) \/ FollowUp(r) \/ FollowUnknown(r)
    \/ FollowActive(r) \/ MarkFailed(r) \/ Confirm(r) \/ Stop(r) \/ Observe(r) \/ SettleStopped(r)
RunSteps ==
    \/ Preflight \/ Begin \/ Profile \/ Put \/ Adopt \/ Drop \/ Finalize \/ Exhaust \/ Checkpoint
    \/ Commit \/ RunEnds
SweeperSteps == SweepLooks \/ SweepClaims \/ SweepRelooks \/ SweepStops \/ SweepSettles
PurgeSteps ==
    \/ PurgeBegins \/ PurgeLooks \/ PurgeStops \/ PurgeSettles \/ PurgeTrusts \/ PurgeSweeps \/ PurgeEnds
\* What may go wrong, at any time and any number of times.
Faults ==
    \/ \E r \in Requests : LoadFails(r) \/ CallFails(r) \/ FollowUpFails(r) \/ StopFails(r) \/ RequestDies(r)
    \/ InstanceErrs \/ InstancePaused \/ SweepDies

\* Everything else.
Steady ==
    \/ \E r \in Requests : RequestSteps(r)
    \/ RunSteps \/ SweeperSteps \/ PurgeSteps \/ Moves \/ Deletes \/ Ages \/ WindowEnds

Next == Steady \/ Faults

Spec == Init /\ [][Next]_vars

-----------------------------------------------------------------------------
\* Once the purge has swept the event's covers, none appears again: not from
\* a run the purge did not see, nor from a call that lands late; but for
\* what a run has just written and takes back itself
\* (cleanup.ts settleEventCoverFences, cover-render.ts preflight).
SweptStaysEmpty ==
    purge \in {"relational", "done"} /\ run.pc \notin {"written", "drop"} => objects = {}

\* A cover is active only complete, with its receipt applied and its draft
\* published, however many runs and callers worked on it
\* (cover-render.ts coverRenderFinalize, until the purge sweeps it).
ActiveComplete ==
    set = "active" /\ purge # "relational" =>
        Complete /\ receipt.status = "applied" /\ draft = "published" /\ fence.proof

\* Draft and set are held exactly as long as the receipt is unresolved: no
\* way a publication ends strands its draft (event-cover-publication.ts, cover-render.ts).
DraftHeld ==
    purge = "none" => /\ receipt.status \in Unresolved <=> draft = "publishing"
                      /\ receipt.status \in Unresolved <=> set \in {"staging", "ready"}

\* What a receipt ended as, it stays, until its event is purged; and the
\* proof of its fence is not withdrawn (event-cover-publication.ts confirmCoverDispatch).
TerminalKept ==
    [][receipt.status \notin Unresolved =>
         receipt'.status \in {receipt.status, "gone"} /\ (fence.proof => fence'.proof)]_vars

\* No restart, late call or second run turns a publication that could still
\* be applied into a failed rendering (cover-render.ts coverRenderFinalize).
WrittenOffOnlyIfOvertaken ==
    [][receipt.status # "exhausted" /\ receipt'.status = "exhausted" => ~Live]_vars

CoverHeld == TypeOK /\ ActiveComplete /\ DraftHeld
CoverRespected == TerminalKept /\ WrittenOffOnlyIfOvertaken

-----------------------------------------------------------------------------
\* A failure nobody restarted in its window stops keeping the event's next
\* cover out (cleanup.ts settleRetryableReceiptExpiry).
WindowSettles ==
    receipt.status = "retryable" /\ receipt.expired ~> receipt.status # "retryable"
=============================================================================
