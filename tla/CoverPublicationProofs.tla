----------------------- MODULE CoverPublicationProofs -----------------------
(***************************************************************************)
(* What TLAPS proves of CoverPublication for every number of requests and  *)
(* of slots, and of CoverDrafts for every number of drafts, uploads,       *)
(* inspections and masters.                                                *)
(*                                                                         *)
(* CoverHeld and CoverRespected are about a published cover, which the     *)
(* last commit reads off a manifest written one slot at a time: they need  *)
(* that the run skipped no slot while the event kept its revision          *)
(* (NoSlotMissed), and that whoever ends the receipt also leaves the       *)
(* fence's proof (ProofEnds) behind it.  HeldInv is that invariant.        *)
(*                                                                         *)
(* SweptStaysEmpty is about the last thing the purge does, and needs that  *)
(* nobody still brings an instance to life afterwards: at most one request *)
(* or the sweeper is inside its call (OneCalls), and an instance seen to   *)
(* have ended stays ended (EndedStays).  That is ClaimInv, and it holds    *)
(* only when no call outlives the two minutes of its claim, ~StaleCalls.   *)
(***************************************************************************)
EXTENDS MCCovers, FiniteSetTheorems, TLAPS

-----------------------------------------------------------------------------
(* What keeps a cover whole.                                               *)

\* The fence is blocked by the purge, which leaves no receipt unresolved.
FenceTells == (fence.state = "open") = (purge = "none")
UnresolvedLives == receipt.status \in Unresolved => purge = "none"
RenderingStaged == receipt.status = "rendering" => set = "staging"

\* A run writes slots of the set, one after the other, only while the set is staged.
WritesSlots == run.pc \in {"admitted", "written", "drop"} => run.next \in Slots
WritesStaged == run.pc \in {"profile", "admitted", "written", "drop", "checkpoint"} => set \notin {"ready", "active"}

ManifestWhole ==
    (set \in {"ready", "active"} \/ run.pc = "checkpoint") /\ purge \notin {"relational", "done"} => Complete
ActiveSettled ==
    set = "active" => receipt.status = "applied" /\ draft = "published" /\ fence.proof /\ purge # "done"

\* While the event keeps its revision, the run has every slot it went past.
Rendering == receipt.status = "rendering" /\ Live
NoSlotMissed ==
    /\ run.pc \in {"profile", "admitted", "written"} /\ Rendering => 1..(run.next - 1) \subseteq rows \cap objects
    /\ run.pc = "written" /\ Rendering => run.next \in objects
    /\ run.pc \in {"finalize", "checkpoint"} /\ Rendering => Complete
    /\ run.pc \in {"admitted", "written", "checkpoint"} /\ Rendering => run.fresh
    /\ run.pc = "drop" => ~Rendering
    /\ run.pc = "exhaust" => ~Live
    /\ run.pc = "commit" => receipt.status # "rendering"

\* The proof of a fence is that its receipt ended.
ProofEnds == fence.proof => receipt.status \notin Unresolved

HeldParts ==
    /\ DraftHeld /\ FenceTells /\ UnresolvedLives /\ RenderingStaged /\ WritesSlots /\ WritesStaged
    /\ ManifestWhole /\ ActiveSettled /\ NoSlotMissed /\ ProofEnds
HeldInv == TypeOK /\ HeldParts

-----------------------------------------------------------------------------
(* What keeps a purged event empty, when no call outlives its claim.       *)

Calling(r) == request[r].pc = "call"
Acting(r) == request[r].pc \notin {"idle", "decide"} /\ request[r].fresh
SweeperActs == sweeper.pc \in {"look", "terminate", "observe", "settle"} /\ sweeper.fresh

\* Who calls the platform holds the claim, and nobody else acts on it.
OneCalls == \A r \in Requests : Calling(r) =>
    /\ receipt.young /\ receipt.dispatch \in ClaimState /\ request[r].fresh
    /\ \A q \in Requests \ {r} : ~Acting(q)
    /\ ~SweeperActs

\* Before its first claim there is no instance.
PendingAbsent == receipt.dispatch = "pending" =>
    /\ platform = "absent" /\ sweeper.pc = "idle" /\ receipt.status # "retryable"

RunRests ==
    /\ platform = "paused" => run.pc \in {"preflight", "profile", "finalize"}
    /\ platform \notin {"active", "paused"} => run.pc = "off"

\* Who settles what it saw ended sees it ended still.
EndedStays ==
    /\ \A r \in Requests :
         /\ request[r].pc = "decide" /\ request[r].found \in Ended /\ request[r].dispatch \notin ClaimState =>
              receipt.dispatch \notin ClaimState /\ platform \in Ended
         /\ request[r].pc = "settle" /\ request[r].fresh /\ request[r].found \in Ended =>
              platform \in Ended
    /\ SweeperActs /\ sweeper.pc = "settle" => platform \in Ended

\* The proof of a fence is worth its name: no run is about to write.
ProofHolds ==
    /\ fence.proof => run.pc # "admitted"
    /\ purge = "settling" => run.pc \in {"off", "preflight", "done"}
    /\ purge \in {"r2", "relational", "done"} => fence.proof
    /\ purge \in {"relational", "done"} => objects = {}

ClaimInv == OneCalls /\ PendingAbsent /\ RunRests /\ EndedStays /\ ProofHolds

-----------------------------------------------------------------------------
(* Types.                                                                  *)

USE DEF event, graph, stored

LEMMA SetTypes ==
    /\ Working \subseteq Unresolved /\ Unresolved \subseteq Statuses
    /\ ClaimState \subseteq Dispatches /\ Ended \subseteq Found
BY DEF Working, Unresolved, Statuses, ClaimState, Dispatches, Ended, Found

LEMMA RowTypes ==
    /\ IdleRun \in Run /\ StartedRun \in Run /\ IdleRequest \in Caller /\ IdleSweeper \in Expirer
    /\ IdleRun.pc = "off" /\ StartedRun.pc = "preflight"
    /\ IdleRequest.pc = "idle" /\ IdleSweeper.pc = "idle"
    /\ ~IdleRun.fresh /\ IdleRun.next = 1
<1>1. IdleRun \in Run /\ IdleRun.pc = "off" /\ ~IdleRun.fresh /\ IdleRun.next = 1
  BY CoverSlots DEF IdleRun, Run, Statuses, Unresolved, Working
<1>2. StartedRun \in Run /\ StartedRun.pc = "preflight"
  BY <1>1 DEF StartedRun, Run
<1>3. IdleRequest \in Caller /\ IdleRequest.pc = "idle"
  BY DEF IdleRequest, Caller, Statuses, Unresolved, Working, Dispatches, Found
<1>4. IdleSweeper \in Expirer /\ IdleSweeper.pc = "idle"
  BY DEF IdleSweeper, Expirer, Found
<1> QED
  BY <1>1, <1>2, <1>3, <1>4

LEMMA ThenType ==
    \A pc \in {"call", "threw", "confirm", "terminate"}, found \in Found, fresh \in BOOLEAN :
        /\ Then(pc, found, fresh) \in Caller
        /\ Then(pc, found, fresh).pc = pc
        /\ Then(pc, found, fresh).found = found
        /\ Then(pc, found, fresh).fresh = fresh
BY ZenonT(60) DEF Then, IdleRequest, Caller, Statuses, Unresolved, Working, Dispatches

LEMMA FailedFound == "failed" \in Found /\ "failed" \notin Ended
BY DEF Found, Ended

LEMMA OutdatedType ==
    ASSUME TypeOK
    PROVE  /\ RequestsOutdated \in [Requests -> Caller]
           /\ \A q \in Requests :
                /\ RequestsOutdated[q].pc = IF request[q].pc = "decide" THEN "idle" ELSE request[q].pc
                /\ request[q].pc # "decide" => ~RequestsOutdated[q].fresh
<1>1. ASSUME NEW q \in Requests
      PROVE  LET row == IF request[q].pc = "decide" THEN IdleRequest ELSE [request[q] EXCEPT !.fresh = FALSE]
             IN  /\ row \in Caller
                 /\ row.pc = IF request[q].pc = "decide" THEN "idle" ELSE request[q].pc
                 /\ request[q].pc # "decide" => ~row.fresh
  BY RowTypes DEF TypeOK, Caller
<1> QED
  BY <1>1 DEF RequestsOutdated

LEMMA SettleType ==
    ASSUME TypeOK, NEW status \in Statuses, NEW dispatch \in Dispatches, Settle(status, dispatch)
    PROVE  /\ receipt' \in Receipt /\ fence' \in Fence /\ set' = "abandoned" /\ draft' = "ready"
           /\ receipt'.status = status /\ receipt'.dispatch = dispatch /\ receipt'.young = receipt.young
           /\ fence'.proof /\ fence'.state = fence.state
BY DEF TypeOK, Settle, Receipt, Fence

LEMMA ClaimType ==
    ASSUME TypeOK, NEW status \in Statuses, NEW dispatch \in ClaimState, ClaimGraph(status, dispatch)
    PROVE  /\ receipt' \in Receipt /\ fence' \in Fence /\ set' = set /\ draft' = draft
           /\ receipt'.status = status /\ receipt'.dispatch = dispatch /\ receipt'.young
           /\ ~fence'.proof /\ fence'.state = fence.state
BY SetTypes DEF TypeOK, ClaimGraph, Receipt, Fence

LEMMA MachineTypes ==
    ASSUME TypeOK
    PROVE  /\ Answer \in Found
           /\ RunOutdated => run' \in Run /\ run'.pc = run.pc /\ run'.next = run.next /\ ~run'.fresh
           /\ Terminate =>
                /\ platform' \in {platform, "ended"} /\ platform' \notin {"active", "paused"}
                /\ platform \in Ended => platform' = platform
                /\ run' \in {run, IdleRun}
                /\ platform \in {"active", "paused"} => run' = IdleRun
           /\ \A d \in ClaimState : Effect(d) =>
                \/ platform' = "active" /\ run' = StartedRun
                \/ platform = "paused" /\ platform' = "active" /\ run' = run
                \/ UNCHANGED <<platform, run>>
BY DEF TypeOK, Answer, Found, RunOutdated, Run, Terminate, Effect, ClaimState, Ended

LEMMA ReceiptType ==
    ASSUME TypeOK
    PROVE  /\ receipt.status \in Statuses /\ receipt.dispatch \in Dispatches
           /\ receipt.young \in BOOLEAN /\ receipt.expired \in BOOLEAN
           /\ run.next \in 1..(SlotCount + 1) /\ run.status \in Statuses
           /\ run.fresh \in BOOLEAN /\ run.wrote \in BOOLEAN
           /\ \A r \in Requests : request[r] \in Caller /\ request[r].found \in Found
                                  /\ request[r].fresh \in BOOLEAN
           /\ sweeper.found \in Found /\ sweeper.fresh \in BOOLEAN
BY DEF TypeOK, Receipt, Run, Caller, Expirer

\* The request of r is row now, and the others are as they were, or outdated.
LEMMA RequestType ==
    ASSUME TypeOK, NEW r \in Requests, NEW row \in Caller
    PROVE  /\ request' = [request EXCEPT ![r] = row] =>
                /\ request' \in [Requests -> Caller]
                /\ \A q \in Requests : request'[q] = IF q = r THEN row ELSE request[q]
           /\ request' = [RequestsOutdated EXCEPT ![r] = row] =>
                /\ request' \in [Requests -> Caller]
                /\ \A q \in Requests : request'[q] = IF q = r THEN row ELSE RequestsOutdated[q]
BY OutdatedType DEF TypeOK

LEMMA ClaimedType == \A found \in Found : Claimed(found) \in ClaimState
BY DEF Claimed, ClaimState

LEMMA RequestTypeStep ==
    ASSUME TypeOK, NEW r \in Requests, RequestSteps(r) \/ LoadFails(r) \/ CallFails(r)
              \/ FollowUpFails(r) \/ StopFails(r) \/ RequestDies(r)
    PROVE  TypeOK'
<1> USE SetTypes, RowTypes, ReceiptType
<1> DEFINE calm == UNCHANGED <<event, graph, stored, platform, run, sweeper, purge>>
<1>1. ASSUME NEW row \in Caller, request' = [request EXCEPT ![r] = row], calm PROVE TypeOK'
  BY <1>1, RequestType DEF TypeOK
<1>2. ASSUME NEW found \in Found, LoadAs(r, found) PROVE TypeOK'
  <2> DEFINE row == [pc |-> "decide", found |-> found, fresh |-> TRUE,
                     status |-> receipt.status, dispatch |-> receipt.dispatch]
  <2>1. row \in Caller
    BY DEF Caller
  <2> QED
    BY <1>1, <1>2, <2>1 DEF LoadAs
<1>3. ASSUME NEW from, NEW to \in {"follow", "settle"}, NEW found \in Found, Looks(r, from, to, found)
      PROVE  TypeOK'
  <2> DEFINE row == [request[r] EXCEPT !.pc = to, !.found = found]
  <2>1. row \in Caller
    BY DEF Caller
  <2>2. request' = [request EXCEPT ![r] = row] /\ calm
    BY <1>3 DEF Looks
  <2> HIDE DEF row
  <2> QED
    BY <1>1, <2>1, <2>2
<1>4. CASE ClaimInitial(r)
  <2>1. request' \in [Requests -> Caller]
    BY <1>4, ThenType, FailedFound, RequestType DEF ClaimInitial
  <2> QED
    BY <1>4, <2>1, ClaimType, MachineTypes
    DEF ClaimInitial, Statuses, Unresolved, Working, ClaimState, TypeOK
<1>5. CASE ConflictInitial(r)
  BY <1>5, SettleType DEF ConflictInitial, Statuses, Dispatches, TypeOK
<1>6. CASE Load(r) \/ LoadFails(r)
  BY <1>2, <1>6, MachineTypes DEF Load, LoadFails, Found
<1>7. CASE ClaimRestart(r)
  <2>1. sweeper' \in Expirer
    BY <1>7 DEF ClaimRestart, TypeOK, Expirer
  <2>2. request' \in [Requests -> Caller]
    BY <1>7, ThenType, RequestType DEF ClaimRestart
  <2> QED
    BY <1>7, <2>1, <2>2, ClaimType, ClaimedType, MachineTypes
    DEF ClaimRestart, Statuses, Unresolved, Working, TypeOK
<1>8. CASE ClaimConflict(r)
  <2>1. sweeper' \in Expirer
    BY <1>8 DEF ClaimConflict, TypeOK, Expirer
  <2>2. request' \in [Requests -> Caller]
    BY <1>8, ThenType, FailedFound, RequestType DEF ClaimConflict
  <2> QED
    BY <1>8, <2>1, <2>2, ClaimType, MachineTypes DEF ClaimConflict, ClaimState, TypeOK
<1>9. CASE SettleEnded(r)
  BY <1>9, SettleType, RequestType DEF SettleEnded, Statuses, TypeOK
<1>10. CASE ConfirmActive(r) \/ Leave(r) \/ RequestDies(r)
  <2>1. CASE ConfirmActive(r)
    BY <1>1, <2>1, ThenType, FailedFound DEF ConfirmActive
  <2>2. CASE Leave(r) \/ RequestDies(r)
    BY <1>1, <2>2 DEF Leave, RequestDies
  <2> QED
    BY <1>10, <2>1, <2>2
<1>11. CASE Call(r)
  <2>1. PICK pc \in {"confirm", "threw"} :
            request' = [request EXCEPT ![r] = Then(pc, "failed", request[r].fresh)]
    BY <1>11 DEF Call
  <2>2. Then(pc, "failed", request[r].fresh) \in Caller
    BY ThenType, FailedFound
  <2>4. request' \in [Requests -> Caller]
    BY <2>1, <2>2, RequestType
  <2>3. run' \in Run /\ platform' \in {"absent", "active", "paused", "ended", "complete"}
    BY <1>11, MachineTypes, ClaimedType DEF Call, TypeOK
  <2> QED
    BY <1>11, <2>3, <2>4 DEF Call, TypeOK
<1>12. CASE CallFails(r)
  BY <1>1, <1>12, ThenType, FailedFound DEF CallFails
<1>13. CASE FollowUp(r) \/ FollowUpFails(r) \/ Observe(r)
  BY <1>3, <1>13, MachineTypes DEF FollowUp, FollowUpFails, Observe, Found
<1>14. CASE FollowUnknown(r)
  <2>1. request' \in [Requests -> Caller]
    BY <1>14, RequestType DEF FollowUnknown
  <2> QED
    BY <1>14, <2>1, MachineTypes DEF FollowUnknown, Guard, TypeOK
<1>15. CASE FollowActive(r)
  BY <1>1, <1>15, ThenType, FailedFound DEF FollowActive
<1>16. CASE MarkFailed(r)
  <2>1. request' \in [Requests -> Caller]
    BY <1>16, RequestType, ThenType DEF MarkFailed, Found
  <2>2. receipt' \in Receipt
    BY ZenonT(60), <1>16 DEF MarkFailed, TypeOK, Receipt, Statuses, Unresolved, Dispatches
  <2> QED
    BY <1>16, <2>1, <2>2 DEF MarkFailed, TypeOK
<1>17. CASE Confirm(r)
  <2>1. request' \in [Requests -> Caller]
    BY <1>17, RequestType DEF Confirm
  <2>2. receipt' \in Receipt
    BY <1>17 DEF Confirm, TypeOK, Receipt, Dispatches
  <2> QED
    BY <1>17, <2>1, <2>2, MachineTypes DEF Confirm, Guard, TypeOK
<1>18. CASE Stop(r) \/ StopFails(r)
  <2>1. [request[r] EXCEPT !.pc = "observe"] \in Caller
    BY DEF Caller
  <2>2. request' = [request EXCEPT ![r] = [request[r] EXCEPT !.pc = "observe"]]
    BY <1>18 DEF Stop, StopFails
  <2>3. request' \in [Requests -> Caller]
    BY <2>1, <2>2, RequestType
  <2> QED
    BY <1>18, <2>3, MachineTypes DEF Stop, StopFails, TypeOK
<1>19. CASE SettleStopped(r)
  BY <1>19, SettleType, RequestType DEF SettleStopped, Statuses, TypeOK
<1> QED
  BY <1>4, <1>5, <1>6, <1>7, <1>8, <1>9, <1>10, <1>11, <1>12, <1>13, <1>14, <1>15, <1>16, <1>17,
     <1>18, <1>19 DEF RequestSteps

LEMMA RunTypeStep == ASSUME TypeOK, WritesSlots, RunSteps PROVE TypeOK'
<1> USE SetTypes, RowTypes, ReceiptType
<1>1. ASSUME NEW status \in {"failed", "conflict", "exhausted"}, RunSettles(status)
      PROVE  /\ receipt' \in Receipt /\ fence' \in Fence
             /\ set' \in {set, "abandoned"} /\ draft' \in {draft, "ready"}
  BY <1>1, SettleType DEF RunSettles, Statuses, TypeOK
<1>2. ASSUME NEW pc \in {"profile", "finalize", "done", "start", "admitted", "written", "drop", "exhaust",
                         "checkpoint", "commit"}
      PROVE  /\ [IdleRun EXCEPT !.pc = pc] \in Run
             /\ [run EXCEPT !.pc = pc] \in Run
             /\ [run EXCEPT !.pc = pc, !.fresh = TRUE] \in Run
             /\ [run EXCEPT !.fresh = TRUE, !.pc = pc] \in Run
             /\ [run EXCEPT !.pc = pc, !.status = receipt.status, !.fresh = TRUE] \in Run
             /\ [run EXCEPT !.pc = pc, !.wrote = run.next \notin objects] \in Run
  BY ZenonT(60) DEF Run, TypeOK
<1>3. run.next \in Slots => NextSlot \in Run
  <2>1. run.next \in Slots => run.next + 1 \in 1..(SlotCount + 1)
    BY CoverSlots DEF Slots
  <2> QED
    BY <2>1 DEF NextSlot, Run
<1>4. CASE Preflight
  BY <1>2, <1>4 DEF Preflight, RunOnly, TypeOK
<1>5. CASE Begin
  <2>1. run' \in Run
    BY <1>2, <1>5 DEF Begin
  <2>2. /\ receipt' \in Receipt /\ fence' \in Fence
        /\ set' \in {set, "abandoned"} /\ draft' \in {draft, "ready"}
    <3>1. [receipt EXCEPT !.status = "rendering"] \in Receipt
      BY DEF Receipt, Statuses, Unresolved, Working, TypeOK
    <3> QED
      BY <1>1, <1>5, <3>1 DEF Begin, TypeOK
  <2> QED
    BY <1>5, <2>1, <2>2 DEF Begin, TypeOK
<1>6. CASE Profile
  <2>1. run.next > SlotCount \/ run.next \in Slots
    BY CoverSlots DEF Slots
  <2> QED
    BY <1>2, <1>3, <1>6, <2>1 DEF Profile, RunOnly, TypeOK
<1>7. CASE Put
  BY <1>2, <1>7 DEF Put, At, WritesSlots, TypeOK
<1>8. CASE Adopt
  BY <1>2, <1>3, <1>8 DEF Adopt, At, WritesSlots, TypeOK
<1>9. CASE Drop
  BY <1>2, <1>3, <1>9 DEF Drop, At, WritesSlots, TypeOK
<1>10. CASE Finalize
  BY ZenonT(60), <1>2, <1>10 DEF Finalize, RunOnly, TypeOK
<1>11. CASE Exhaust
  BY <1>1, <1>2, <1>11 DEF Exhaust, TypeOK
<1>12. CASE Checkpoint
  <2>1. run' \in Run
    BY <1>2, <1>12 DEF Checkpoint
  <2>2. [receipt EXCEPT !.status = "finalizing"] \in Receipt
    BY DEF Receipt, Statuses, Unresolved, Working, TypeOK
  <2> QED
    BY <1>1, <1>12, <2>1, <2>2 DEF Checkpoint, TypeOK
<1>13. CASE Commit
  <2>1. run' \in Run
    BY <1>2, <1>13 DEF Commit
  <2>2. [receipt EXCEPT !.status = "applied"] \in Receipt /\ [fence EXCEPT !.proof = TRUE] \in Fence
    BY DEF Receipt, Fence, Statuses, TypeOK
  <2>3. "conflict" \in Statuses
    BY DEF Statuses
  <2> QED
    BY <1>13, <2>1, <2>2, <2>3, SettleType DEF Commit, TypeOK
<1>14. CASE RunEnds
  BY <1>14 DEF RunEnds, TypeOK
<1> QED
  BY <1>4, <1>5, <1>6, <1>7, <1>8, <1>9, <1>10, <1>11, <1>12, <1>13, <1>14 DEF RunSteps

LEMMA OtherTypeStep ==
    ASSUME TypeOK,
           SweeperSteps \/ PurgeSteps \/ Moves \/ Deletes \/ Ages \/ WindowEnds
              \/ InstanceErrs \/ InstancePaused \/ SweepDies \/ UNCHANGED vars
    PROVE  TypeOK'
<1> USE SetTypes, RowTypes, ReceiptType
<1>1. CASE SweepLooks
  <2>1. [pc |-> "claim", found |-> platform, fresh |-> TRUE] \in Expirer
    BY <1>1 DEF SweepLooks, Expirer, Found, TypeOK
  <2> QED
    BY <1>1, <2>1 DEF SweepLooks, TypeOK
<1>2. ASSUME NEW pc \in {"look", "terminate", "observe", "settle"}
      PROVE  [sweeper EXCEPT !.pc = pc] \in Expirer
  BY DEF Expirer, TypeOK
<1>3. CASE SweepClaims
  <2>1. CASE sweeper.fresh /\ Expired /\ ~Young
    <3>1. \E d \in ClaimState : ClaimGraph("retryable", d)
      BY <1>3, <2>1 DEF SweepClaims, ClaimState
    <3>2. "retryable" \in Statuses
      BY DEF Statuses, Unresolved
    <3> QED
      BY <1>2, <1>3, <2>1, <3>1, <3>2, ClaimType, MachineTypes, OutdatedType DEF SweepClaims, TypeOK
  <2> QED
    BY <1>3, <2>1 DEF SweepClaims, TypeOK
<1>4. CASE SweepRelooks
  BY <1>2, <1>4 DEF SweepRelooks, TypeOK
<1>5. CASE SweepStops
  BY <1>2, <1>5, MachineTypes DEF SweepStops, TypeOK
<1>6. CASE SweepSettles
  BY <1>6, SettleType DEF SweepSettles, Statuses, Dispatches, TypeOK
<1>7. CASE PurgeBegins
  BY ZenonT(60), <1>7 DEF PurgeBegins, TypeOK, Receipt, Fence, Statuses, Dispatches
<1>8. CASE PurgeLooks \/ PurgeTrusts \/ PurgeSweeps
  BY <1>8 DEF PurgeLooks, PurgeTrusts, PurgeSweeps, TypeOK
<1>9. CASE PurgeStops
  BY <1>9, MachineTypes DEF PurgeStops, TypeOK
<1>10. CASE PurgeSettles \/ PurgeEnds
  BY <1>10 DEF PurgeSettles, PurgeEnds, TypeOK, Receipt, Fence, Statuses
<1>11. CASE Moves \/ Deletes \/ InstanceErrs \/ InstancePaused \/ SweepDies
  BY <1>11 DEF Moves, Deletes, InstanceErrs, InstancePaused, SweepDies, TypeOK
<1>12. CASE Ages \/ WindowEnds
  BY <1>12 DEF Ages, WindowEnds, TypeOK, Receipt
<1>13. CASE UNCHANGED vars
  BY <1>13 DEF vars, TypeOK
<1> QED
  BY <1>1, <1>3, <1>4, <1>5, <1>6, <1>7, <1>8, <1>9, <1>10, <1>11, <1>12, <1>13
  DEF SweeperSteps, PurgeSteps

-----------------------------------------------------------------------------
(* What keeps a cover whole: the steps by what they do to the publication. *)

\* Where a run owes nothing.
Free == {"off", "preflight", "start", "done"}

LEMMA Statuses3 ==
    /\ {"queued", "rendering", "finalizing", "retryable"} = Unresolved
    /\ Working = {"queued", "rendering", "finalizing"}
BY DEF Unresolved, Working

LEMMA HeldCalm ==
    ASSUME HeldParts, UNCHANGED <<event, fence, set, draft, stored, purge>>,
           receipt'.status = receipt.status,
           run' = run \/ run'.pc \in Free
    PROVE  HeldParts'
<1> USE DEF HeldParts
<1>1. (Rendering' = Rendering) /\ (Live' = Live) /\ (Complete' = Complete)
  BY DEF Rendering, Live, Complete
<1>2. DraftHeld' /\ FenceTells' /\ UnresolvedLives' /\ RenderingStaged' /\ ActiveSettled' /\ ProofEnds'
  BY DEF DraftHeld, FenceTells, UnresolvedLives, RenderingStaged, ActiveSettled, ProofEnds
<1>3. WritesSlots' /\ WritesStaged' /\ ManifestWhole'
  BY <1>1 DEF WritesSlots, WritesStaged, ManifestWhole, Free
<1>4. NoSlotMissed'
  BY <1>1 DEF NoSlotMissed, Free
<1> QED
  BY <1>2, <1>3, <1>4

\* A new generation, or the mark of a failed dispatch: the publication goes on,
\* but a rendering under way counts no more.
LEMMA HeldRenewed ==
    ASSUME HeldParts, UNCHANGED <<event, set, draft, stored, purge>>,
           receipt.status \in Unresolved, receipt'.status \in Unresolved,
           receipt'.status = "rendering" => receipt.status = "rendering" /\ ~Live,
           fence'.state = fence.state, ~fence'.proof,
           run'.pc = run.pc, run'.next = run.next
    PROVE  HeldParts'
<1> USE DEF HeldParts
<1>1. ~Rendering' /\ (Live' = Live) /\ (Complete' = Complete)
  BY DEF Rendering, Live, Complete
<1>2. DraftHeld' /\ FenceTells' /\ UnresolvedLives' /\ RenderingStaged' /\ ProofEnds'
  BY DEF DraftHeld, FenceTells, UnresolvedLives, RenderingStaged, ProofEnds
<1>3. ActiveSettled'
  BY Statuses3 DEF ActiveSettled
<1>4. WritesSlots' /\ WritesStaged' /\ ManifestWhole'
  BY <1>1 DEF WritesSlots, WritesStaged, ManifestWhole
<1>5. NoSlotMissed'
  BY <1>1 DEF NoSlotMissed
<1> QED
  BY <1>2, <1>3, <1>4, <1>5

\* An end that hands the draft back.
LEMMA HeldSettled ==
    ASSUME TypeOK, HeldParts, UNCHANGED <<event, stored, purge>>,
           NEW status \in Statuses \ Unresolved, NEW dispatch \in Dispatches, Settle(status, dispatch),
           run' = run \/ run'.pc \in Free
    PROVE  HeldParts'
<1> USE DEF HeldParts
<1>1. /\ set' = "abandoned" /\ draft' = "ready" /\ receipt'.status \notin Unresolved
      /\ fence'.proof /\ fence'.state = fence.state
  BY SettleType
<1>2. ~Rendering' /\ (Live' = Live) /\ (Complete' = Complete) /\ receipt'.status # "rendering"
  BY <1>1, Statuses3 DEF Rendering, Live, Complete
<1>3. DraftHeld' /\ FenceTells' /\ UnresolvedLives' /\ RenderingStaged' /\ ActiveSettled' /\ ProofEnds'
  BY <1>1, <1>2 DEF DraftHeld, FenceTells, UnresolvedLives, RenderingStaged, ActiveSettled,
     ProofEnds
<1>4. WritesSlots' /\ WritesStaged' /\ ManifestWhole'
  BY <1>1, <1>2 DEF WritesSlots, WritesStaged, ManifestWhole, Free
<1>5. NoSlotMissed'
  BY <1>2 DEF NoSlotMissed, Free
<1> QED
  BY <1>3, <1>4, <1>5

LEMMA EndStatuses ==
    /\ {"failed", "conflict", "exhausted", "applied", "gone"} \subseteq Statuses \ Unresolved
    /\ "failed" \in Dispatches /\ "pending" \in Dispatches
BY DEF Statuses, Unresolved, Working, Dispatches

LEMMA HeldRequestStep ==
    ASSUME HeldInv, NEW r \in Requests, RequestSteps(r) \/ LoadFails(r) \/ CallFails(r)
              \/ FollowUpFails(r) \/ StopFails(r) \/ RequestDies(r)
    PROVE  HeldParts'
<1> USE SetTypes, ReceiptType DEF HeldInv
<1>1. ASSUME UNCHANGED <<event, graph, stored, run, purge>> PROVE HeldParts'
  BY <1>1, HeldCalm
<1>2. ASSUME RunOutdated PROVE run'.pc = run.pc /\ run'.next = run.next
  BY <1>2, MachineTypes
<1>3. Terminate \/ UNCHANGED <<platform, run>> => run' = run \/ run'.pc \in Free
  BY MachineTypes, RowTypes DEF Free
<1>4. CASE ClaimInitial(r)
  <2>1. ClaimGraph("queued", "creating") /\ receipt.status \in Unresolved
    BY <1>4, Statuses3 DEF ClaimInitial
  <2>2. receipt'.status = "queued" /\ fence'.state = fence.state /\ ~fence'.proof /\ UNCHANGED <<set, draft>>
    BY <2>1, ClaimType DEF ClaimState, Statuses, Unresolved, Working
  <2> QED
    BY <1>2, <1>4, <2>1, <2>2, HeldRenewed, Statuses3 DEF ClaimInitial
<1>5. CASE ConflictInitial(r)
  BY <1>5, HeldSettled, EndStatuses DEF ConflictInitial
<1>6. CASE Load(r) \/ LoadFails(r) \/ CallFails(r) \/ FollowUp(r) \/ FollowUpFails(r) \/ Observe(r)
           \/ FollowActive(r) \/ StopFails(r) \/ RequestDies(r) \/ ConfirmActive(r) \/ Leave(r)
  BY <1>1, <1>6 DEF Load, LoadFails, LoadAs, CallFails, FollowUp, FollowUpFails, Observe, Looks,
     FollowActive, StopFails, RequestDies, ConfirmActive, Leave
<1>7. CASE ClaimRestart(r)
  <2>1. receipt.status \in Unresolved
    BY <1>7 DEF ClaimRestart, Reread
  <2>2. receipt'.status = "queued" /\ fence'.state = fence.state /\ ~fence'.proof /\ UNCHANGED <<set, draft>>
    BY <1>7, ClaimType, ClaimedType DEF ClaimRestart, Statuses, Unresolved, Working
  <2> QED
    BY <1>2, <1>7, <2>1, <2>2, HeldRenewed, Statuses3 DEF ClaimRestart
<1>8. CASE ClaimConflict(r)
  <2>1. receipt.status \in Unresolved /\ ~Live
    BY <1>8 DEF ClaimConflict, ConflictClaimable, Reread, Live
  <2>2. /\ receipt'.status = receipt.status /\ fence'.state = fence.state /\ ~fence'.proof
        /\ UNCHANGED <<set, draft>>
    BY <1>8, ClaimType DEF ClaimConflict, ClaimState
  <2> QED
    BY <1>2, <1>8, <2>1, <2>2, HeldRenewed DEF ClaimConflict
<1>9. CASE SettleEnded(r)
  BY <1>9, HeldSettled, EndStatuses DEF SettleEnded
<1>10. CASE Call(r)
  <2>1. run' = run \/ run'.pc \in Free
    BY <1>10, MachineTypes, RowTypes, ClaimedType DEF Call, Free
  <2> QED
    BY <1>10, <2>1, HeldCalm DEF Call
<1>11. CASE FollowUnknown(r) \/ Stop(r)
  <2>1. Terminate \/ UNCHANGED <<platform, run>>
    BY <1>11 DEF FollowUnknown, Guard, Stop
  <2> QED
    BY <1>3, <1>11, <2>1, HeldCalm DEF FollowUnknown, Stop
<1>12. CASE MarkFailed(r)
  <2>1. CASE UNCHANGED receipt
    BY <1>1, <1>12, <2>1 DEF MarkFailed
  <2>2. CASE ~UNCHANGED receipt
    <3>1. /\ receipt.status \in Working
          /\ receipt' = [receipt EXCEPT !.status = "retryable", !.dispatch = "failed", !.expired = FALSE]
      BY <1>12, <2>2 DEF MarkFailed
    <3>2. receipt'.status = "retryable" /\ receipt.status \in Unresolved
      BY <3>1 DEF TypeOK, Receipt
    <3>3. ~fence.proof
      BY <3>2 DEF HeldParts, ProofEnds
    <3> QED
      BY <1>12, <3>2, <3>3, HeldRenewed, Statuses3 DEF MarkFailed
  <2> QED
    BY <2>1, <2>2
<1>13. CASE Confirm(r)
  <2>1. receipt'.status = receipt.status
    BY <1>13 DEF Confirm, TypeOK, Receipt
  <2>2. Terminate \/ UNCHANGED <<platform, run>>
    BY <1>13 DEF Confirm, Guard
  <2> QED
    BY <1>3, <1>13, <2>1, <2>2, HeldCalm DEF Confirm
<1>14. CASE SettleStopped(r)
  BY <1>1, <1>14, HeldSettled, EndStatuses DEF SettleStopped
<1> QED
  BY <1>4, <1>5, <1>6, <1>7, <1>8, <1>9, <1>10, <1>11, <1>12, <1>13, <1>14 DEF RequestSteps

\* The run's own end of a publication, when it still may write it.
LEMMA HeldRunSettles ==
    ASSUME HeldInv, NEW status \in {"failed", "conflict", "exhausted"}, RunSettles(status),
           UNCHANGED <<event, stored, purge>>, run'.pc \in Free
    PROVE  HeldParts'
<1>1. CASE UNCHANGED graph
  BY <1>1, HeldCalm DEF HeldInv
<1>2. CASE Settle(status, receipt.dispatch)
  BY <1>2, HeldSettled, EndStatuses, ReceiptType DEF HeldInv
<1> QED
  BY <1>1, <1>2 DEF RunSettles

\* While the event keeps its revision, a rendering is let in.
LEMMA RenderingAdmitted == HeldParts /\ Rendering => Admitted
BY Statuses3 DEF HeldParts, Rendering, Admitted, Live, RenderingStaged, UnresolvedLives,
   FenceTells, DraftHeld

LEMMA HeldRunStep == ASSUME HeldInv, RunSteps PROVE HeldParts'
<1> USE DEF HeldInv
<1> DEFINE parts == DraftHeld /\ FenceTells /\ UnresolvedLives /\ RenderingStaged /\ ActiveSettled /\ ProofEnds
<1>1. ASSUME UNCHANGED <<event, graph, purge>>
      PROVE  parts' /\ Live' = Live /\ Rendering' = Rendering
  BY <1>1 DEF HeldParts, DraftHeld, FenceTells, UnresolvedLives, RenderingStaged, ActiveSettled,
     ProofEnds,
     Live, Rendering
<1> HIDE DEF parts
<1>2. \A pc \in Free : /\ [IdleRun EXCEPT !.pc = pc].pc \in Free
                       /\ [run EXCEPT !.pc = pc, !.status = receipt.status, !.fresh = TRUE].pc \in Free
  BY DEF IdleRun, TypeOK, Run
<1>3. NextSlot.pc = "profile" /\ NextSlot.next = run.next + 1
  BY DEF NextSlot, IdleRun
<1>4. CASE Preflight
  BY <1>2, <1>4, HeldCalm DEF Preflight, RunOnly, Free
<1>5. CASE Begin
  <2>1. CASE run'.pc = "done"
    <3>1. CASE UNCHANGED graph
      BY <1>5, <2>1, <3>1, HeldCalm DEF Begin, Free
    <3>2. CASE RunSettles("failed") \/ RunSettles("conflict")
      BY <1>5, <2>1, <3>2, HeldRunSettles DEF Begin, Free
    <3> QED
      BY <1>5, <2>1, <3>1, <3>2 DEF Begin, IdleRun
  <2>2. CASE run'.pc # "done"
    <3>1. /\ receipt.status \in {"queued", "rendering"} /\ set = "staging" /\ fence.state = "open"
          /\ draft = "publishing"
          /\ receipt' = [receipt EXCEPT !.status = "rendering"] /\ UNCHANGED <<fence, set, draft>>
          /\ run' = [IdleRun EXCEPT !.pc = "profile"]
      BY <1>5, <2>2 DEF Begin, IdleRun
    <3>2. receipt'.status = "rendering" /\ run'.pc = "profile" /\ run'.next = 1
      BY <3>1 DEF TypeOK, Receipt, IdleRun
    <3>3. UNCHANGED <<event, stored, purge>>
      BY <1>5 DEF Begin
    <3>4. DraftHeld' /\ FenceTells' /\ UnresolvedLives' /\ RenderingStaged' /\ ActiveSettled' /\ ProofEnds'
      BY <3>1, <3>2, <3>3, Statuses3 DEF HeldParts, DraftHeld, FenceTells, UnresolvedLives,
         RenderingStaged,
         ActiveSettled, ProofEnds
    <3>5. WritesSlots' /\ WritesStaged' /\ ManifestWhole'
      BY <3>1, <3>2 DEF WritesSlots, WritesStaged, ManifestWhole
    <3>6. NoSlotMissed'
      <4>1. 1..(run'.next - 1) = {}
        BY <3>2
      <4> QED
        BY <3>2, <4>1 DEF NoSlotMissed
    <3> QED
      BY <3>4, <3>5, <3>6 DEF HeldParts
  <2> QED
    BY <2>1, <2>2
<1>6. CASE Profile
  <2>1. UNCHANGED <<event, graph, stored, purge>>
    BY <1>6 DEF Profile, RunOnly
  <2>2. Complete' = Complete
    BY <2>1 DEF Complete
  <2>3. parts' /\ Live' = Live /\ Rendering' = Rendering
    BY <1>1, <2>1
  <2>4. set \notin {"ready", "active"} /\ run.pc = "profile"
    BY <1>6 DEF Profile, At, HeldParts, WritesStaged
  <2>5. Rendering => 1..(run.next - 1) \subseteq rows \cap objects
    BY <2>4 DEF HeldParts, NoSlotMissed
  <2>6. CASE run.next > SlotCount
    <3>1. run'.pc = "finalize"
      BY <1>6, <2>6 DEF Profile, RunOnly, IdleRun
    <3>2. Rendering => Complete
      <4>1. Slots = 1..(run.next - 1)
        BY <2>6, CoverSlots, ReceiptType DEF Slots
      <4> QED
        BY <2>5, <4>1 DEF Complete, TypeOK
    <3>3. NoSlotMissed'
      BY <2>2, <2>3, <3>1, <3>2 DEF NoSlotMissed
    <3> QED
      BY <2>1, <2>2, <2>3, <3>1, <3>3 DEF HeldParts, WritesSlots, WritesStaged, ManifestWhole, parts
  <2>7. CASE run.next <= SlotCount /\ Admitted
    <3>1. run'.pc = "admitted" /\ run'.next = run.next /\ run'.fresh
      BY <1>6, <2>7, CoverSlots, ReceiptType DEF Profile, RunOnly, TypeOK, Run
    <3>2. run.next \in Slots
      BY <2>7, CoverSlots, ReceiptType DEF Slots
    <3>3. NoSlotMissed'
      BY <2>1, <2>3, <2>5, <3>1 DEF NoSlotMissed
    <3> QED
      BY <2>1, <2>2, <2>3, <2>4, <3>1, <3>2, <3>3 DEF HeldParts, WritesSlots, WritesStaged,
         ManifestWhole, parts
  <2>8. CASE run.next <= SlotCount /\ ~Admitted
    <3>1. run'.pc = "profile"
      BY <1>3, <1>6, <2>8, CoverSlots, ReceiptType DEF Profile, RunOnly
    <3>2. ~Rendering
      BY <2>8, RenderingAdmitted
    <3>3. NoSlotMissed'
      BY <2>3, <3>1, <3>2 DEF NoSlotMissed
    <3> QED
      BY <2>1, <2>2, <2>3, <2>4, <3>1, <3>3 DEF HeldParts, WritesSlots, WritesStaged,
         ManifestWhole, parts
  <2> QED
    BY <2>6, <2>7, <2>8, CoverSlots, ReceiptType
<1>7. CASE Put
  <2>1. /\ run.pc = "admitted" /\ run'.pc = "written" /\ run'.next = run.next /\ run'.fresh = run.fresh
        /\ objects' = objects \cup {run.next} /\ UNCHANGED <<event, graph, rows, purge>>
    BY <1>7 DEF Put, At, TypeOK, Run
  <2>2. parts' /\ Live' = Live /\ Rendering' = Rendering
    BY <1>1, <2>1
  <2>3. WritesSlots' /\ WritesStaged' /\ ManifestWhole'
    BY <2>1 DEF HeldParts, WritesSlots, WritesStaged, ManifestWhole
  <2>4. NoSlotMissed'
    BY <2>1, <2>2 DEF HeldParts, NoSlotMissed
  <2> QED
    BY <2>2, <2>3, <2>4 DEF HeldParts, parts
<1>8. CASE Adopt
  <2>1. run.pc = "written" /\ run.next \in Slots /\ set \notin {"ready", "active"}
        /\ UNCHANGED <<event, graph, objects, purge>>
    BY <1>8 DEF Adopt, At, HeldParts, WritesSlots, WritesStaged
  <2>2. parts' /\ Live' = Live /\ Rendering' = Rendering
    BY <1>1, <2>1
  <2>3. CASE Admitted /\ run.fresh
    <3>1. rows' = rows \cup {run.next} /\ run'.pc = "profile" /\ run'.next = run.next + 1
      BY <1>3, <1>8, <2>3 DEF Adopt
    <3>2. 1..(run'.next - 1) = (1..(run.next - 1)) \cup {run.next}
      BY <2>1, <3>1, CoverSlots DEF Slots
    <3>3. NoSlotMissed'
      BY <2>1, <2>2, <3>1, <3>2 DEF HeldParts, NoSlotMissed
    <3> QED
      BY <2>1, <2>2, <3>1, <3>3 DEF HeldParts, WritesSlots, WritesStaged, ManifestWhole, parts
  <2>4. CASE ~(Admitted /\ run.fresh)
    <3>1. /\ UNCHANGED rows
          /\ \/ run'.pc = "drop" /\ run'.next = run.next
             \/ run'.pc = "profile"
      BY <1>3, <1>8, <2>4 DEF Adopt, TypeOK, Run
    <3>2. ~Rendering
      BY <2>1, <2>4, RenderingAdmitted DEF HeldParts, NoSlotMissed
    <3>3. NoSlotMissed'
      BY <2>2, <3>1, <3>2 DEF NoSlotMissed
    <3> QED
      BY <2>1, <2>2, <3>1, <3>3 DEF HeldParts, WritesSlots, WritesStaged, ManifestWhole, parts
  <2> QED
    BY <2>3, <2>4
<1>9. CASE Drop
  <2>1. /\ run.pc = "drop" /\ run'.pc = "profile" /\ ~Rendering /\ set \notin {"ready", "active"}
        /\ UNCHANGED <<event, graph, rows, purge>>
    BY <1>3, <1>9 DEF Drop, At, HeldParts, NoSlotMissed, WritesStaged
  <2>2. parts' /\ Live' = Live /\ Rendering' = Rendering
    BY <1>1, <2>1
  <2>3. NoSlotMissed'
    BY <2>1, <2>2 DEF NoSlotMissed
  <2> QED
    BY <2>1, <2>2, <2>3 DEF HeldParts, WritesSlots, WritesStaged, ManifestWhole, parts
<1>10. CASE Finalize
  <2>1. /\ run.pc = "finalize" /\ UNCHANGED <<event, graph, stored, purge>>
        /\ run'.fresh
        /\ run'.pc = CASE receipt.status = "rendering" -> (IF Complete THEN "checkpoint" ELSE "exhaust")
                       [] receipt.status = "finalizing" -> "commit"
                       [] OTHER -> "done"
    BY <1>10 DEF Finalize, RunOnly, At, TypeOK, Run
  <2>2. parts' /\ Live' = Live /\ Rendering' = Rendering /\ Complete' = Complete
    BY <1>1, <2>1 DEF Complete
  <2>3. Rendering => Complete
    BY <2>1 DEF HeldParts, NoSlotMissed
  <2>4. run'.pc = "checkpoint" => Complete /\ set \notin {"ready", "active"}
    BY <2>1 DEF HeldParts, RenderingStaged
  <2>5. NoSlotMissed'
    BY <2>1, <2>2, <2>3 DEF NoSlotMissed, Rendering
  <2>6. WritesSlots' /\ WritesStaged' /\ ManifestWhole'
    BY <2>1, <2>2, <2>4 DEF HeldParts, WritesSlots, WritesStaged, ManifestWhole
  <2> QED
    BY <2>2, <2>5, <2>6 DEF HeldParts, parts
<1>11. CASE Exhaust
  BY <1>2, <1>11, HeldRunSettles DEF Exhaust, Free
<1>12. CASE Checkpoint
  <2>1. run.pc = "checkpoint" /\ UNCHANGED <<event, stored, purge>>
    BY <1>12 DEF Checkpoint, At
  <2>2. CASE Admitted /\ run.fresh
    <3>1. /\ set' = "ready" /\ receipt'.status = "finalizing" /\ run'.pc = "commit" /\ UNCHANGED <<fence, draft>>
          /\ receipt.status = "rendering" /\ draft = "publishing"
      BY <1>12, <2>2 DEF Checkpoint, TypeOK, Run, Receipt, Admitted
    <3>2. DraftHeld' /\ FenceTells' /\ UnresolvedLives' /\ RenderingStaged' /\ ActiveSettled' /\ ProofEnds'
      BY <2>1, <3>1, Statuses3 DEF HeldParts, DraftHeld, FenceTells, UnresolvedLives,
         RenderingStaged,
         ActiveSettled, ProofEnds
    <3>3. WritesSlots' /\ WritesStaged' /\ NoSlotMissed'
      BY <3>1 DEF WritesSlots, WritesStaged, NoSlotMissed, Rendering
    <3>4. ManifestWhole'
      BY <2>1, <3>1 DEF HeldParts, ManifestWhole, Complete
    <3> QED
      BY <3>2, <3>3, <3>4 DEF HeldParts
  <2>3. CASE run'.pc = "done" /\ RunSettles("conflict")
    BY <2>1, <2>3, HeldRunSettles DEF Free
  <2>4. CASE ~(Admitted /\ run.fresh) /\ run' = [IdleRun EXCEPT !.pc = "finalize"] /\ UNCHANGED graph
    <3>1. run'.pc = "finalize"
      BY <2>4 DEF IdleRun
    <3>2. parts' /\ Live' = Live /\ Rendering' = Rendering /\ Complete' = Complete
      BY <1>1, <2>1, <2>4 DEF Complete
    <3>3. ~Rendering
      BY <2>1, <2>4, RenderingAdmitted DEF HeldParts, NoSlotMissed
    <3>4. WritesSlots' /\ WritesStaged' /\ ManifestWhole' /\ NoSlotMissed'
      BY <2>1, <2>4, <3>1, <3>2, <3>3 DEF HeldParts, WritesSlots, WritesStaged, ManifestWhole,
         NoSlotMissed
    <3> QED
      BY <3>2, <3>4 DEF HeldParts, parts
  <2> QED
    BY <1>2, <1>12, <2>2, <2>3, <2>4 DEF Checkpoint, IdleRun
<1>13. CASE Commit
  <2>1. run.pc = "commit" /\ UNCHANGED <<event, stored, purge>>
    BY <1>13 DEF Commit, At
  <2>2. CASE Owned /\ Live
    <3>1. /\ run'.pc = "done" /\ receipt'.status = "applied" /\ set' = "active" /\ draft' = "published"
          /\ fence'.proof /\ fence'.state = fence.state /\ set = "ready" /\ fence.state = "open"
      BY <1>13, <2>2 DEF Commit, TypeOK, IdleRun, Receipt, Fence, Owned
    <3>2. DraftHeld' /\ FenceTells' /\ UnresolvedLives' /\ RenderingStaged' /\ ActiveSettled' /\ ProofEnds'
      BY <2>1, <3>1, Statuses3 DEF HeldParts, DraftHeld, FenceTells, UnresolvedLives,
         RenderingStaged,
         ActiveSettled, ProofEnds
    <3>3. WritesSlots' /\ WritesStaged' /\ NoSlotMissed'
      BY <3>1 DEF WritesSlots, WritesStaged, NoSlotMissed
    <3>4. ManifestWhole'
      BY <2>1, <3>1 DEF HeldParts, ManifestWhole, Complete
    <3> QED
      BY <3>2, <3>3, <3>4 DEF HeldParts
  <2>3. CASE Owned /\ ~Live
    BY <1>2, <1>13, <2>1, <2>3, HeldSettled, EndStatuses, ReceiptType DEF Commit, Free
  <2>4. CASE ~Owned
    <3>1. run'.pc = "finalize" /\ UNCHANGED graph
      BY <1>13, <2>4 DEF Commit, IdleRun
    <3>2. parts' /\ Live' = Live /\ Rendering' = Rendering /\ Complete' = Complete
      BY <1>1, <2>1, <3>1 DEF Complete
    <3>3. ~Rendering
      BY <2>1 DEF HeldParts, NoSlotMissed, Rendering
    <3>4. WritesSlots' /\ WritesStaged' /\ ManifestWhole' /\ NoSlotMissed'
      BY <2>1, <3>1, <3>2, <3>3 DEF HeldParts, WritesSlots, WritesStaged, ManifestWhole,
         NoSlotMissed
    <3> QED
      BY <3>2, <3>4 DEF HeldParts, parts
  <2> QED
    BY <2>2, <2>3, <2>4
<1>14. CASE RunEnds
  BY <1>14, HeldCalm, RowTypes DEF RunEnds, Free
<1> QED
  BY <1>4, <1>5, <1>6, <1>7, <1>8, <1>9, <1>10, <1>11, <1>12, <1>13, <1>14 DEF RunSteps

LEMMA HeldOtherStep ==
    ASSUME HeldInv,
           SweeperSteps \/ PurgeSteps \/ Moves \/ Deletes \/ Ages \/ WindowEnds
              \/ InstanceErrs \/ InstancePaused \/ SweepDies \/ UNCHANGED vars
    PROVE  HeldParts'
<1> USE DEF HeldInv
<1>1. ASSUME UNCHANGED <<event, graph, stored, run, purge>> PROVE HeldParts'
  BY <1>1, HeldCalm
<1>2. Terminate => run' = run \/ run'.pc \in Free
  BY MachineTypes, RowTypes DEF Free
<1>3. CASE SweepLooks \/ SweepRelooks \/ InstancePaused \/ SweepDies \/ UNCHANGED vars
  BY <1>1, <1>3 DEF SweepLooks, SweepRelooks, InstancePaused, SweepDies, vars
<1>4. CASE SweepClaims
  <2>1. CASE sweeper.fresh /\ Expired /\ ~Young
    <3>1. PICK d \in ClaimState : ClaimGraph("retryable", d) /\ RunOutdated
      BY <1>4, <2>1 DEF SweepClaims, ClaimState
    <3>2. receipt'.status = "retryable" /\ fence'.state = fence.state /\ ~fence'.proof /\ UNCHANGED <<set, draft>>
      BY <3>1, ClaimType DEF Statuses, Unresolved
    <3>3. run'.pc = run.pc /\ run'.next = run.next /\ receipt.status \in Unresolved
      BY <2>1, <3>1, MachineTypes, Statuses3 DEF Expired
    <3> QED
      BY <1>4, <3>2, <3>3, HeldRenewed, Statuses3 DEF SweepClaims
  <2> QED
    BY <1>1, <1>4, <2>1 DEF SweepClaims
<1>5. CASE SweepStops \/ PurgeStops
  <2>1. run' = run \/ run'.pc \in Free
    BY <1>2, <1>5 DEF SweepStops, PurgeStops
  <2> QED
    BY <1>5, <2>1, HeldCalm DEF SweepStops, PurgeStops
<1>6. CASE SweepSettles
  BY <1>1, <1>6, HeldSettled, EndStatuses, ReceiptType DEF SweepSettles
<1>7. CASE Moves \/ Deletes
  <2>1. /\ UNCHANGED <<graph, stored, run, purge>> /\ ~Rendering' /\ ~Live'
    BY <1>7 DEF Moves, Deletes, Rendering, Live
  <2>2. Complete' = Complete
    BY <2>1 DEF Complete
  <2>3. NoSlotMissed'
    BY <2>1 DEF HeldParts, NoSlotMissed
  <2> QED
    BY <2>1, <2>2, <2>3 DEF HeldParts, DraftHeld, FenceTells, UnresolvedLives, RenderingStaged,
       WritesSlots, WritesStaged, ManifestWhole, ActiveSettled, ProofEnds
<1>8. CASE Ages \/ WindowEnds
  <2>1. receipt'.status = receipt.status
    BY <1>8 DEF Ages, WindowEnds, TypeOK, Receipt
  <2> QED
    BY <1>8, <2>1, HeldCalm DEF Ages, WindowEnds
<1>9. CASE InstanceErrs
  BY <1>9, HeldCalm, RowTypes DEF InstanceErrs, Free
<1>10. CASE PurgeBegins
  <2>1. /\ purge' = "fences" /\ fence'.state = "blocked" /\ fence'.proof = fence.proof
        /\ receipt'.status = IF receipt.status \in Unresolved THEN "failed" ELSE receipt.status
        /\ UNCHANGED <<event, set, draft, stored, run>> /\ purge = "none"
    BY <1>10 DEF PurgeBegins, TypeOK, Receipt, Fence
  <2>2. ~Rendering' /\ (Live' = Live) /\ (Complete' = Complete) /\ receipt'.status \notin Unresolved
    BY <2>1, Statuses3 DEF Rendering, Live, Complete
  <2>3. DraftHeld' /\ FenceTells' /\ UnresolvedLives' /\ RenderingStaged' /\ ActiveSettled' /\ ProofEnds'
    BY <2>1, <2>2, Statuses3 DEF HeldParts, DraftHeld, FenceTells, UnresolvedLives, RenderingStaged,
       ActiveSettled, ProofEnds
  <2>4. WritesSlots' /\ WritesStaged' /\ ManifestWhole' /\ NoSlotMissed'
    BY <2>1, <2>2, Statuses3 DEF HeldParts, WritesSlots, WritesStaged, ManifestWhole, NoSlotMissed
  <2> QED
    BY <2>3, <2>4 DEF HeldParts
<1>11. CASE PurgeLooks \/ PurgeSettles \/ PurgeTrusts \/ PurgeSweeps
  <2>1. /\ UNCHANGED <<event, receipt, set, draft, run, rows>> /\ purge \notin {"none", "relational", "done"}
        /\ purge' \notin {"none", "done"} /\ fence'.state = fence.state
        /\ fence'.proof = fence.proof \/ fence'.proof
        /\ purge' \notin {"relational", "done"} => UNCHANGED objects
    BY <1>11 DEF PurgeLooks, PurgeSettles, PurgeTrusts, PurgeSweeps, TypeOK, Fence
  <2>2. receipt.status \notin Unresolved /\ ~Rendering /\ ~Rendering' /\ Live' = Live
    BY <2>1, Statuses3 DEF HeldParts, UnresolvedLives, Rendering, Live
  <2>3. DraftHeld' /\ FenceTells' /\ UnresolvedLives' /\ RenderingStaged' /\ ActiveSettled' /\ ProofEnds'
    BY <2>1, <2>2, Statuses3 DEF HeldParts, DraftHeld, FenceTells, UnresolvedLives, RenderingStaged,
       ActiveSettled, ProofEnds
  <2>4. WritesSlots' /\ WritesStaged' /\ ManifestWhole' /\ NoSlotMissed'
    BY <2>1, <2>2 DEF HeldParts, WritesSlots, WritesStaged, ManifestWhole, NoSlotMissed, Complete
  <2> QED
    BY <2>3, <2>4 DEF HeldParts
<1>12. CASE PurgeEnds
  <2>1. /\ purge = "relational" /\ purge' = "done" /\ set' = "abandoned" /\ receipt'.status = "gone"
        /\ UNCHANGED <<event, fence, objects, run>>
    BY <1>12 DEF PurgeEnds, TypeOK, Receipt
  <2>2. ~Rendering' /\ Live' = Live /\ receipt'.status \notin Unresolved
    BY <2>1, Statuses3 DEF Rendering, Live
  <2>3. DraftHeld' /\ FenceTells' /\ UnresolvedLives' /\ RenderingStaged' /\ ActiveSettled' /\ ProofEnds'
    BY <2>1, <2>2 DEF HeldParts, DraftHeld, FenceTells, UnresolvedLives, RenderingStaged,
       ActiveSettled, ProofEnds
  <2>4. WritesSlots' /\ WritesStaged' /\ ManifestWhole' /\ NoSlotMissed'
    BY <2>1, <2>2, Statuses3 DEF HeldParts, WritesSlots, WritesStaged, ManifestWhole, NoSlotMissed
  <2> QED
    BY <2>3, <2>4 DEF HeldParts
<1> QED
  BY <1>3, <1>4, <1>5, <1>6, <1>7, <1>8, <1>9, <1>10, <1>11, <1>12 DEF SweeperSteps, PurgeSteps

LEMMA NextHeld == HeldInv /\ [Next]_vars => HeldInv'
<1> SUFFICES ASSUME HeldInv, [Next]_vars PROVE HeldInv'
  OBVIOUS
<1>1. TypeOK /\ WritesSlots
  BY DEF HeldInv, HeldParts
<1>2. TypeOK'
  BY <1>1, RequestTypeStep, RunTypeStep, OtherTypeStep DEF Next, Steady, Faults
<1>3. HeldParts'
  BY HeldRequestStep, HeldRunStep, HeldOtherStep DEF Next, Steady, Faults
<1> QED
  BY <1>2, <1>3 DEF HeldInv

LEMMA InitHeld == Init => HeldInv
<1> SUFFICES ASSUME Init PROVE HeldInv
  OBVIOUS
<1> USE RowTypes, Statuses3 DEF Init
<1>1. TypeOK
  BY DEF TypeOK, Receipt, Fence, Statuses, Dispatches, Unresolved, Working
<1>2. HeldParts
  BY DEF HeldParts, DraftHeld, FenceTells, UnresolvedLives, RenderingStaged,
     WritesSlots, WritesStaged, ManifestWhole, ActiveSettled, NoSlotMissed, ProofEnds
<1> QED
  BY <1>1, <1>2 DEF HeldInv

LEMMA HeldAlways == Spec => []HeldInv
<1> QED
  BY InitHeld, NextHeld, PTL DEF Spec

\* A cover is active only whole and settled, and draft and set are held exactly
\* while the receipt is unresolved.
THEOREM CoverIsHeld == Spec => []CoverHeld
<1>1. HeldInv => CoverHeld
  <2> SUFFICES ASSUME HeldInv PROVE ActiveComplete
    BY DEF HeldInv, HeldParts, CoverHeld
  <2> SUFFICES ASSUME set = "active", purge # "relational"
               PROVE  Complete /\ receipt.status = "applied" /\ draft = "published" /\ fence.proof
    BY DEF ActiveComplete
  <2>1. receipt.status = "applied" /\ draft = "published" /\ fence.proof
    BY DEF HeldInv, HeldParts, ActiveSettled
  <2>2. purge # "done"
    BY DEF HeldInv, HeldParts, ActiveSettled
  <2> QED
    BY <2>1, <2>2 DEF HeldInv, HeldParts, ManifestWhole
<1> QED
  BY <1>1, HeldAlways, PTL

-----------------------------------------------------------------------------
(* What a publication ended as, and what it may end as.                    *)

Kept ==
    receipt.status \notin Unresolved =>
        receipt'.status \in {receipt.status, "gone"} /\ (fence.proof => fence'.proof)
WrittenOff == receipt.status # "exhausted" /\ receipt'.status = "exhausted" => ~Live

LEMMA RespectsCalm ==
    ASSUME receipt'.status = receipt.status, fence.proof => fence'.proof PROVE Kept /\ WrittenOff
BY DEF Kept, WrittenOff

LEMMA RespectsMoves ==
    ASSUME receipt.status \in Unresolved, receipt'.status # "exhausted" PROVE Kept /\ WrittenOff
BY DEF Kept, WrittenOff

LEMMA RequestRespects ==
    ASSUME HeldInv, NEW r \in Requests, RequestSteps(r) \/ LoadFails(r) \/ CallFails(r)
              \/ FollowUpFails(r) \/ StopFails(r) \/ RequestDies(r)
    PROVE  Kept /\ WrittenOff
<1> USE SetTypes, ReceiptType, Statuses3 DEF HeldInv
<1>1. ASSUME UNCHANGED graph PROVE Kept /\ WrittenOff
  BY <1>1, RespectsCalm
<1>2. ASSUME NEW status \in Unresolved, NEW dispatch \in ClaimState, ClaimGraph(status, dispatch),
             receipt.status \in Unresolved
      PROVE  Kept /\ WrittenOff
  BY <1>2, ClaimType, RespectsMoves
<1>3. ASSUME NEW dispatch \in Dispatches, Settle("conflict", dispatch), receipt.status \in Unresolved
      PROVE  Kept /\ WrittenOff
  BY <1>3, SettleType, EndStatuses, RespectsMoves
<1>4. CASE ClaimInitial(r) \/ ClaimRestart(r)
  BY <1>2, <1>4, ClaimedType DEF ClaimInitial, ClaimRestart, Reread, ClaimState
<1>5. CASE ClaimConflict(r)
  BY <1>2, <1>5 DEF ClaimConflict, ConflictClaimable, Reread, ClaimState
<1>6. CASE ConflictInitial(r) \/ SettleEnded(r) \/ SettleStopped(r)
  BY <1>1, <1>3, <1>6, EndStatuses DEF ConflictInitial, SettleEnded, SettleStopped, Reread
<1>7. CASE Load(r) \/ LoadFails(r) \/ CallFails(r) \/ FollowUp(r) \/ FollowUpFails(r) \/ Observe(r)
           \/ FollowActive(r) \/ StopFails(r) \/ RequestDies(r) \/ ConfirmActive(r) \/ Leave(r)
           \/ Call(r) \/ FollowUnknown(r) \/ Stop(r)
  BY <1>1, <1>7 DEF Load, LoadFails, LoadAs, CallFails, FollowUp, FollowUpFails, Observe, Looks,
     FollowActive, StopFails, RequestDies, ConfirmActive, Leave, Call, FollowUnknown, Stop
<1>8. CASE MarkFailed(r)
  <2>1. CASE UNCHANGED receipt
    BY <1>1, <1>8, <2>1 DEF MarkFailed
  <2>2. CASE ~UNCHANGED receipt
    <3>1. receipt.status \in Working /\ receipt'.status = "retryable"
      BY <1>8, <2>2 DEF MarkFailed, TypeOK, Receipt
    <3> QED
      BY <3>1, RespectsMoves
  <2> QED
    BY <2>1, <2>2
<1>9. CASE Confirm(r)
  <2>1. receipt'.status = receipt.status /\ UNCHANGED fence
    BY <1>9 DEF Confirm, TypeOK, Receipt
  <2> QED
    BY <2>1, RespectsCalm
<1> QED
  BY <1>4, <1>5, <1>6, <1>7, <1>8, <1>9 DEF RequestSteps

LEMMA RunRespects == ASSUME HeldInv, RunSteps PROVE Kept /\ WrittenOff
<1> USE SetTypes, ReceiptType, Statuses3 DEF HeldInv
<1>1. ASSUME UNCHANGED graph PROVE Kept /\ WrittenOff
  BY <1>1, RespectsCalm
<1>2. ASSUME NEW status \in {"failed", "conflict"}, RunSettles(status) PROVE Kept /\ WrittenOff
  BY <1>1, <1>2, SettleType, EndStatuses, RespectsMoves DEF RunSettles
<1>3. CASE Preflight \/ Profile \/ Put \/ Adopt \/ Drop \/ Finalize \/ RunEnds
  BY <1>1, <1>3 DEF Preflight, Profile, Put, Adopt, Drop, Finalize, RunEnds, RunOnly
<1>4. CASE Begin
  <2>1. [receipt EXCEPT !.status = "rendering"].status = "rendering"
    BY DEF TypeOK, Receipt
  <2> QED
    BY <1>1, <1>2, <1>4, <2>1, RespectsMoves DEF Begin
<1>5. CASE Exhaust
  <2>1. ~Live
    BY <1>5 DEF Exhaust, At, HeldParts, NoSlotMissed
  <2>2. CASE UNCHANGED graph
    BY <1>1, <2>2
  <2>3. CASE ~UNCHANGED graph
    BY <1>5, <2>1, <2>3, SettleType, EndStatuses DEF Exhaust, RunSettles, Kept, WrittenOff
  <2> QED
    BY <2>2, <2>3
<1>6. CASE Checkpoint
  <2>1. [receipt EXCEPT !.status = "finalizing"].status = "finalizing"
    BY DEF TypeOK, Receipt
  <2> QED
    BY <1>1, <1>2, <1>6, <2>1, RespectsMoves DEF Checkpoint, Admitted
<1>7. CASE Commit
  <2>1. [receipt EXCEPT !.status = "applied"].status = "applied"
    BY DEF TypeOK, Receipt
  <2> QED
    BY <1>1, <1>7, <2>1, SettleType, EndStatuses, RespectsMoves DEF Commit, Owned
<1> QED
  BY <1>3, <1>4, <1>5, <1>6, <1>7 DEF RunSteps

LEMMA OtherRespects ==
    ASSUME HeldInv,
           SweeperSteps \/ PurgeSteps \/ Moves \/ Deletes \/ Ages \/ WindowEnds
              \/ InstanceErrs \/ InstancePaused \/ SweepDies \/ UNCHANGED vars
    PROVE  Kept /\ WrittenOff
<1> USE SetTypes, ReceiptType, Statuses3 DEF HeldInv
<1>1. ASSUME UNCHANGED graph PROVE Kept /\ WrittenOff
  BY <1>1, RespectsCalm
<1>2. CASE SweepLooks \/ SweepRelooks \/ SweepStops \/ InstancePaused \/ InstanceErrs \/ SweepDies
           \/ UNCHANGED vars \/ Moves \/ Deletes \/ PurgeLooks \/ PurgeStops \/ PurgeTrusts \/ PurgeSweeps
  BY <1>1, <1>2 DEF SweepLooks, SweepRelooks, SweepStops, InstancePaused, InstanceErrs, SweepDies,
     vars,
     Moves, Deletes, PurgeLooks, PurgeStops, PurgeTrusts, PurgeSweeps
<1>3. CASE SweepClaims
  <2>1. CASE UNCHANGED graph
    BY <1>1, <2>1
  <2>2. CASE ~UNCHANGED graph
    <3>1. receipt.status = "retryable" /\ \E d \in ClaimState : ClaimGraph("retryable", d)
      BY <1>3, <2>2 DEF SweepClaims, Expired, ClaimState
    <3> QED
      BY <3>1, ClaimType, RespectsMoves
  <2> QED
    BY <2>1, <2>2
<1>4. CASE SweepSettles
  <2>1. CASE UNCHANGED graph
    BY <1>1, <2>1
  <2>2. CASE ~UNCHANGED graph
    BY <1>4, <2>2, SettleType, EndStatuses, RespectsMoves DEF SweepSettles, Expired
  <2> QED
    BY <2>1, <2>2
<1>5. CASE PurgeBegins
  <2>1. /\ receipt'.status = IF receipt.status \in Unresolved THEN "failed" ELSE receipt.status
        /\ fence'.proof = fence.proof
    BY <1>5 DEF PurgeBegins, TypeOK, Receipt, Fence
  <2> QED
    BY <2>1 DEF Kept, WrittenOff
<1>6. CASE PurgeSettles \/ Ages \/ WindowEnds
  <2>1. receipt'.status = receipt.status /\ (fence.proof => fence'.proof)
    BY <1>6 DEF PurgeSettles, Ages, WindowEnds, TypeOK, Receipt, Fence
  <2> QED
    BY <2>1, RespectsCalm
<1>7. CASE PurgeEnds
  <2>1. receipt'.status = "gone" /\ UNCHANGED fence
    BY <1>7 DEF PurgeEnds, TypeOK, Receipt
  <2> QED
    BY <2>1 DEF Kept, WrittenOff
<1> QED
  BY <1>2, <1>3, <1>4, <1>5, <1>6, <1>7 DEF SweeperSteps, PurgeSteps

\* What a publication ended as it stays, with the proof of its fence, and a publication
\* that could still be applied is never written off as incomplete.
THEOREM CoverIsRespected == Spec => CoverRespected
<1>1. HeldInv /\ [Next]_vars => [Kept]_vars /\ [WrittenOff]_vars
  BY RequestRespects, RunRespects, OtherRespects DEF Next, Steady, Faults
<1>2. Spec => [][Kept]_vars /\ [][WrittenOff]_vars
  BY <1>1, HeldAlways, PTL DEF Spec
<1>3. [][Kept]_vars => TerminalKept
  BY DEF Kept, TerminalKept
<1>4. [][WrittenOff]_vars => WrittenOffOnlyIfOvertaken
  BY DEF WrittenOff, WrittenOffOnlyIfOvertaken
<1> QED
  BY <1>2, <1>3, <1>4, PTL DEF CoverRespected

-----------------------------------------------------------------------------
(* What keeps a purged event empty.  First who acts on the claim.          *)

CallersKept == OneCalls /\ EndedStays

\* The claim stays what it is, or nobody calls and it is only given up.
ClaimKept ==
    \/ receipt'.dispatch = receipt.dispatch /\ receipt'.young = receipt.young
    \/ /\ \A q \in Requests : ~Calling(q)
       /\ receipt.dispatch \notin ClaimState => receipt'.dispatch \notin ClaimState

LEMMA CallersMove ==
    ASSUME TypeOK, CallersKept, NEW r \in Requests, NEW row \in Caller,
           request' = [request EXCEPT ![r] = row], UNCHANGED sweeper, ClaimKept,
           platform \in Ended => platform' \in Ended,
           row.pc # "call",
           row.pc \notin {"idle", "decide"} /\ row.fresh => Acting(r) \/ \A q \in Requests : ~Calling(q),
           row.pc = "decide" /\ row.found \in Ended /\ row.dispatch \notin ClaimState =>
              receipt'.dispatch \notin ClaimState /\ platform' \in Ended,
           row.pc = "settle" /\ row.fresh /\ row.found \in Ended => platform' \in Ended
    PROVE  CallersKept'
<1>1. \A q \in Requests : request'[q] = IF q = r THEN row ELSE request[q]
  BY RequestType
<1>2. OneCalls'
  BY <1>1 DEF CallersKept, OneCalls, Calling, Acting, SweeperActs, ClaimKept
<1>3. EndedStays'
  BY <1>1 DEF CallersKept, EndedStays, Calling, SweeperActs, ClaimKept
<1> QED
  BY <1>2, <1>3 DEF CallersKept

LEMMA CallersRest ==
    ASSUME CallersKept, UNCHANGED request, ClaimKept, platform \in Ended => platform' \in Ended,
           SweeperActs' => SweeperActs,
           SweeperActs' /\ sweeper'.pc = "settle" => platform' \in Ended
    PROVE  CallersKept'
<1>1. OneCalls'
  BY DEF CallersKept, OneCalls, Calling, Acting, ClaimKept
<1>2. EndedStays'
  BY DEF CallersKept, EndedStays, Calling, ClaimKept
<1> QED
  BY <1>1, <1>2 DEF CallersKept

\* A claim leaves nobody to decide or to act on an older one.
LEMMA CallersClaim ==
    ASSUME TypeOK, \A q \in Requests : ~Calling(q), NEW r \in Requests, NEW row \in Caller,
           request' = [RequestsOutdated EXCEPT ![r] = row],
           row.pc \in {"call", "terminate"}, row.fresh,
           receipt'.dispatch \in ClaimState, receipt'.young, ~SweeperActs'
    PROVE  CallersKept'
<1>1. \A q \in Requests :
        /\ q = r => request'[q] = row
        /\ q # r => request'[q].pc \notin {"decide", "call"} /\ ~Acting(q)'
  BY RequestType, OutdatedType DEF Calling, Acting
<1>2. OneCalls'
  BY <1>1 DEF OneCalls, Calling
<1>3. EndedStays'
  BY <1>1 DEF EndedStays, Acting
<1> QED
  BY <1>2, <1>3 DEF CallersKept

LEMMA NoCalls ==
    ASSUME CallersKept
    PROVE  /\ ~Young => \A q \in Requests : ~Calling(q)
           /\ receipt.dispatch \notin ClaimState => \A q \in Requests : ~Calling(q)
           /\ \A r \in Requests : Acting(r) /\ ~Calling(r) => \A q \in Requests : ~Calling(q)
           /\ SweeperActs => \A q \in Requests : ~Calling(q)
BY DEF CallersKept, OneCalls, Young

LEMMA TerminateEnds == ASSUME TypeOK, Terminate \/ UNCHANGED <<platform, run>>
                       PROVE platform \in Ended => platform' \in Ended
BY MachineTypes

LEMMA CallersRequestStep ==
    ASSUME HeldInv, CallersKept, PendingAbsent, NEW r \in Requests,
           RequestSteps(r) \/ LoadFails(r) \/ CallFails(r)
              \/ FollowUpFails(r) \/ StopFails(r) \/ RequestDies(r)
    PROVE  CallersKept'
<1> USE SetTypes, RowTypes, ReceiptType DEF HeldInv
<1>1. request[r] \in Caller
  OBVIOUS
<1>2. ASSUME UNCHANGED receipt PROVE ClaimKept
  BY <1>2 DEF ClaimKept
<1>3. ASSUME NEW dispatch \in Dispatches, Settle("conflict", dispatch), dispatch = receipt.dispatch
      PROVE  ClaimKept
  BY <1>3, SettleType, EndStatuses DEF ClaimKept
<1>4. CASE ClaimInitial(r)
  <2>1. \A q \in Requests : ~Calling(q)
    BY <1>4, NoCalls DEF ClaimInitial, ClaimState
  <2>2. receipt'.dispatch \in ClaimState /\ receipt'.young
    BY <1>4, ClaimType DEF ClaimInitial, ClaimState, Statuses, Unresolved, Working
  <2>3. ~SweeperActs'
    BY <1>4 DEF ClaimInitial, PendingAbsent, SweeperActs
  <2> QED
    BY <1>4, <2>1, <2>2, <2>3, CallersClaim, ThenType, FailedFound DEF ClaimInitial
<1>5. CASE ConflictInitial(r)
  <2>1. ClaimKept
    BY <1>3, <1>5, EndStatuses DEF ConflictInitial
  <2> QED
    BY <1>5, <2>1, CallersRest DEF ConflictInitial, CallersKept, EndedStays, SweeperActs
<1>6. ASSUME NEW found \in Found, LoadAs(r, found), found \in Ended => platform \in Ended
      PROVE  CallersKept'
  <2> DEFINE row == [pc |-> "decide", found |-> found, fresh |-> TRUE,
                     status |-> receipt.status, dispatch |-> receipt.dispatch]
  <2>1. row \in Caller /\ row.pc = "decide" /\ row.found = found /\ row.dispatch = receipt.dispatch
    BY DEF Caller
  <2>2. request' = [request EXCEPT ![r] = row] /\ UNCHANGED <<receipt, sweeper, platform>>
    BY <1>6 DEF LoadAs
  <2> HIDE DEF row
  <2> QED
    BY <1>2, <1>6, <2>1, <2>2, CallersMove
<1>7. CASE Load(r) \/ LoadFails(r)
  <2>1. Answer \in Found /\ (Answer \in Ended => platform \in Ended)
    BY MachineTypes DEF Answer, Ended
  <2> QED
    BY <1>6, <1>7, <2>1, FailedFound DEF Load, LoadFails
<1>8. CASE ClaimRestart(r)
  <2>1. \A q \in Requests : ~Calling(q)
    BY <1>8, NoCalls DEF ClaimRestart, Reread
  <2>2. receipt'.dispatch \in ClaimState /\ receipt'.young
    BY <1>8, ClaimType, ClaimedType DEF ClaimRestart, Statuses, Unresolved, Working
  <2>3. ~SweeperActs'
    BY <1>8 DEF ClaimRestart, SweeperActs, TypeOK, Expirer
  <2> QED
    BY <1>8, <2>1, <2>2, <2>3, CallersClaim, ThenType DEF ClaimRestart
<1>9. CASE ClaimConflict(r)
  <2>1. \A q \in Requests : ~Calling(q)
    BY <1>9, NoCalls DEF ClaimConflict, ConflictClaimable, Reread
  <2>2. receipt'.dispatch \in ClaimState /\ receipt'.young
    BY <1>9, ClaimType DEF ClaimConflict, ClaimState
  <2>3. ~SweeperActs'
    BY <1>9 DEF ClaimConflict, SweeperActs, TypeOK, Expirer
  <2> QED
    BY <1>9, <2>1, <2>2, <2>3, CallersClaim, ThenType, FailedFound DEF ClaimConflict
<1>10. CASE SettleEnded(r)
  <2>1. ClaimKept
    BY <1>3, <1>10 DEF SettleEnded
  <2> QED
    BY <1>10, <2>1, CallersMove DEF SettleEnded
<1>11. CASE ConfirmActive(r)
  <2>1. \A q \in Requests : ~Calling(q)
    BY <1>11, NoCalls DEF ConfirmActive, Reread
  <2> QED
    BY <1>2, <1>11, <2>1, CallersMove, ThenType, FailedFound DEF ConfirmActive
<1>12. CASE Leave(r) \/ RequestDies(r)
  BY <1>2, <1>12, CallersMove DEF Leave, RequestDies
<1>13. CASE Call(r)
  <2>1. PICK pc \in {"confirm", "threw"} :
            request' = [request EXCEPT ![r] = Then(pc, "failed", request[r].fresh)]
    BY <1>13 DEF Call
  <2> DEFINE row == Then(pc, "failed", request[r].fresh)
  <2>2. row \in Caller /\ row.pc = pc /\ row.found = "failed"
    BY ThenType, FailedFound
  <2>3. \A q \in Requests : request'[q] = IF q = r THEN row ELSE request[q]
    BY <2>1, <2>2, RequestType
  <2> HIDE DEF row
  <2>4. Calling(r) /\ UNCHANGED <<receipt, sweeper>>
    BY <1>13 DEF Call, Calling
  <2>5. /\ receipt.dispatch \in ClaimState /\ ~SweeperActs /\ Acting(r)
        /\ \A q \in Requests \ {r} : ~Acting(q)
    BY <2>4 DEF CallersKept, OneCalls, Acting, Calling
  <2>6. \A q \in Requests : ~Calling(q)'
    BY <2>2, <2>3, <2>4, <2>5 DEF CallersKept, OneCalls, Calling, Acting
  <2>7. EndedStays'
    BY <2>2, <2>3, <2>4, <2>5 DEF CallersKept, EndedStays, Acting, SweeperActs
  <2> QED
    BY <2>6, <2>7 DEF CallersKept, OneCalls
<1>14. CASE CallFails(r)
  BY <1>2, <1>14, CallersMove, ThenType, FailedFound DEF CallFails, Acting
<1>15. ASSUME NEW from \in {"threw", "observe"}, NEW to \in {"follow", "settle"}, NEW found \in Found,
              Looks(r, from, to, found), found \in Ended => platform \in Ended
       PROVE  CallersKept'
  <2> DEFINE row == [request[r] EXCEPT !.pc = to, !.found = found]
  <2>1. row \in Caller /\ row.pc = to /\ row.found = found /\ row.fresh = request[r].fresh
    BY <1>1 DEF Caller
  <2>2. request' = [request EXCEPT ![r] = row] /\ UNCHANGED <<receipt, sweeper, platform>>
        /\ request[r].pc = from
    BY <1>15 DEF Looks
  <2> HIDE DEF row
  <2> QED
    BY <1>2, <1>15, <2>1, <2>2, CallersMove DEF Acting
<1>16. CASE FollowUp(r) \/ FollowUpFails(r) \/ Observe(r)
  <2>1. Answer \in Found /\ (Answer \in Ended => platform \in Ended)
    BY MachineTypes DEF Answer, Ended
  <2> QED
    BY <1>15, <1>16, <2>1, FailedFound DEF FollowUp, FollowUpFails, Observe
<1>17. CASE FollowUnknown(r)
  BY <1>2, <1>17, CallersMove, TerminateEnds DEF FollowUnknown, Guard
<1>18. CASE FollowActive(r)
  BY <1>2, <1>18, CallersMove, ThenType, FailedFound DEF FollowActive, Acting
<1>19. CASE MarkFailed(r)
  <2>1. CASE UNCHANGED receipt
    <3>1. UNCHANGED <<sweeper, platform>> /\ request[r].pc = "follow"
      BY <1>19 DEF MarkFailed
    <3>2. CASE request' = [request EXCEPT ![r] = IdleRequest]
      BY <1>2, <2>1, <3>1, <3>2, CallersMove
    <3>3. CASE request' = [request EXCEPT ![r] = Then("confirm", "failed", request[r].fresh)]
      BY <1>2, <2>1, <3>1, <3>3, CallersMove, ThenType, FailedFound DEF Acting
    <3> QED
      BY <1>19, <3>2, <3>3 DEF MarkFailed
  <2>2. CASE ~UNCHANGED receipt
    <3>1. request[r].fresh /\ request' = [request EXCEPT ![r] = IdleRequest] /\ receipt'.dispatch = "failed"
      BY <1>19, <2>2 DEF MarkFailed, TypeOK, Receipt
    <3>2. \A q \in Requests : ~Calling(q)
      BY <1>19, <3>1, NoCalls DEF MarkFailed, Acting, Calling
    <3>3. ClaimKept
      BY <3>1, <3>2 DEF ClaimKept, ClaimState
    <3> QED
      BY <1>19, <3>1, <3>3, CallersMove DEF MarkFailed
  <2> QED
    BY <2>1, <2>2
<1>20. CASE Confirm(r)
  <2>1. ClaimKept
    <3>1. CASE UNCHANGED receipt
      BY <1>2, <3>1
    <3>2. CASE ~UNCHANGED receipt
      <4>1. request[r].fresh /\ receipt'.dispatch = "confirmed"
        BY <1>20, <3>2 DEF Confirm, TypeOK, Receipt
      <4>2. \A q \in Requests : ~Calling(q)
        BY <1>20, <4>1, NoCalls DEF Confirm, Acting, Calling
      <4> QED
        BY <4>1, <4>2 DEF ClaimKept, ClaimState
    <3> QED
      BY <3>1, <3>2
  <2>2. platform \in Ended => platform' \in Ended
    BY <1>20, TerminateEnds DEF Confirm, Guard
  <2> QED
    BY <1>20, <2>1, <2>2, CallersMove DEF Confirm
<1>21. CASE Stop(r) \/ StopFails(r)
  <2> DEFINE row == [request[r] EXCEPT !.pc = "observe"]
  <2>1. row \in Caller /\ row.pc = "observe" /\ row.fresh = request[r].fresh
    BY <1>1 DEF Caller
  <2>2. request' = [request EXCEPT ![r] = row] /\ UNCHANGED <<receipt, sweeper>>
        /\ request[r].pc = "terminate"
    BY <1>21 DEF Stop, StopFails
  <2>3. platform \in Ended => platform' \in Ended
    BY <1>21, TerminateEnds DEF Stop, StopFails
  <2> HIDE DEF row
  <2> QED
    BY <1>2, <2>1, <2>2, <2>3, CallersMove DEF Acting
<1>22. CASE SettleStopped(r)
  <2>1. ClaimKept
    BY <1>2, <1>3, <1>22 DEF SettleStopped
  <2> QED
    BY <1>22, <2>1, CallersMove DEF SettleStopped
<1> QED
  BY <1>4, <1>5, <1>7, <1>8, <1>9, <1>10, <1>11, <1>12, <1>13, <1>14, <1>16, <1>17, <1>18, <1>19,
     <1>20, <1>21, <1>22 DEF RequestSteps

\* A step of the run, of the clocks and of the platform leaves the callers alone.
LEMMA CallersRunStep == ASSUME HeldInv, CallersKept, RunSteps PROVE CallersKept'
<1> USE SetTypes, ReceiptType DEF HeldInv
<1>1. UNCHANGED <<request, sweeper>> /\ (platform \in Ended => platform' \in Ended)
  BY DEF RunSteps, Preflight, Begin, Profile, Put, Adopt, Drop, Finalize, Exhaust, Checkpoint,
     Commit,
     RunEnds, RunOnly, At, Ended
<1>2. ClaimKept
  <2>1. ASSUME NEW status \in {"failed", "conflict", "exhausted"}, RunSettles(status)
        PROVE  ClaimKept
    BY <2>1, SettleType, EndStatuses DEF RunSettles, ClaimKept
  <2>2. \A status \in Statuses : /\ [receipt EXCEPT !.status = status].dispatch = receipt.dispatch
                                 /\ [receipt EXCEPT !.status = status].young = receipt.young
    BY DEF TypeOK, Receipt
  <2>3. {"rendering", "finalizing", "applied"} \subseteq Statuses
    BY DEF Statuses, Unresolved, Working
  <2>4. ASSUME UNCHANGED receipt PROVE ClaimKept
    BY <2>4 DEF ClaimKept
  <2>5. CASE Preflight \/ Profile \/ Put \/ Adopt \/ Drop \/ Finalize \/ RunEnds
    BY <2>4, <2>5 DEF Preflight, Profile, Put, Adopt, Drop, Finalize, RunEnds, RunOnly
  <2>6. CASE Begin \/ Exhaust
    BY ZenonT(60), <2>1, <2>2, <2>3, <2>4, <2>6 DEF Begin, Exhaust, ClaimKept
  <2>7. CASE Checkpoint
    BY <2>1, <2>2, <2>3, <2>4, <2>7 DEF Checkpoint, ClaimKept
  <2>8. CASE Commit
    <3>1. ASSUME Settle("conflict", receipt.dispatch) PROVE ClaimKept
      BY <3>1, SettleType, EndStatuses DEF ClaimKept
    <3> QED
      BY <2>2, <2>3, <2>4, <2>8, <3>1 DEF Commit, ClaimKept
  <2> QED
    BY <2>5, <2>6, <2>7, <2>8 DEF RunSteps
<1> QED
  BY <1>1, <1>2, CallersRest DEF CallersKept, EndedStays, SweeperActs

LEMMA CallersOtherStep ==
    ASSUME ~StaleCalls, HeldInv, CallersKept,
           SweeperSteps \/ PurgeSteps \/ Moves \/ Deletes \/ Ages \/ WindowEnds
              \/ InstanceErrs \/ InstancePaused \/ SweepDies \/ UNCHANGED vars
    PROVE  CallersKept'
<1> USE SetTypes, ReceiptType, RowTypes DEF HeldInv
<1>1. ASSUME UNCHANGED <<request, sweeper>>, ClaimKept, platform \in Ended => platform' \in Ended
      PROVE  CallersKept'
  BY <1>1, CallersRest DEF CallersKept, EndedStays, SweeperActs
<1>2. ASSUME UNCHANGED receipt PROVE ClaimKept
  BY <1>2 DEF ClaimKept
<1>3. CASE SweepLooks
  <2>1. sweeper'.pc = "claim"
    BY <1>3 DEF SweepLooks
  <2> QED
    BY <1>2, <1>3, <2>1, CallersRest DEF SweepLooks, SweeperActs
<1>4. CASE SweepClaims
  <2>1. CASE sweeper.fresh /\ Expired /\ ~Young
    <3>1. sweeper'.pc = "look"
      BY <1>4, <2>1 DEF SweepClaims, TypeOK, Expirer
    <3>2. \A q \in Requests : request'[q].pc \notin {"decide", "call"} /\ ~Acting(q)'
      <4>1. \A q \in Requests : ~Calling(q)
        BY <2>1, NoCalls
      <4>2. request' = RequestsOutdated
        BY <1>4, <2>1 DEF SweepClaims
      <4> QED
        BY <4>1, <4>2, OutdatedType DEF Acting, Calling
    <3> QED
      BY <3>1, <3>2 DEF CallersKept, OneCalls, EndedStays, Calling, Acting
  <2>2. CASE ~(sweeper.fresh /\ Expired /\ ~Young)
    BY <1>2, <1>4, <2>2, CallersRest DEF SweepClaims, SweeperActs
  <2> QED
    BY <2>1, <2>2
<1>5. CASE SweepRelooks
  <2>1. /\ UNCHANGED <<request, receipt, platform>>
        /\ \/ sweeper' = IdleSweeper
           \/ \E pc \in {"settle", "terminate"} :
                 sweeper' = [sweeper EXCEPT !.pc = pc] /\ (pc = "settle" => platform \in Ended)
        /\ sweeper.pc \in {"look", "observe"}
    BY <1>5 DEF SweepRelooks
  <2>2. (SweeperActs' => SweeperActs) /\ (sweeper'.pc = "settle" => platform' \in Ended)
    BY <2>1 DEF SweeperActs, TypeOK, Expirer
  <2> QED
    BY <1>2, <2>1, <2>2, CallersRest
<1>6. CASE SweepStops
  <2>1. /\ sweeper.pc = "terminate" /\ sweeper'.pc = "observe" /\ sweeper'.fresh = sweeper.fresh
        /\ UNCHANGED <<request, receipt>>
    BY <1>6 DEF SweepStops, TypeOK, Expirer
  <2>2. platform \in Ended => platform' \in Ended
    BY <1>6, TerminateEnds DEF SweepStops
  <2> QED
    BY <1>2, <2>1, <2>2, CallersRest DEF SweeperActs
<1>7. CASE SweepSettles
  <2>1. ClaimKept
    <3>1. CASE UNCHANGED graph
      BY <1>2, <3>1
    <3>2. CASE ~UNCHANGED graph
      <4>1. SweeperActs
        BY <1>7, <3>2 DEF SweepSettles, SweeperActs
      <4>2. receipt'.dispatch \in {receipt.dispatch, "failed"}
        BY <1>7, <3>2, SettleType, EndStatuses DEF SweepSettles
      <4> QED
        BY <4>1, <4>2, NoCalls DEF ClaimKept, ClaimState
    <3> QED
      BY <3>1, <3>2
  <2> QED
    BY <1>7, <2>1, CallersRest DEF SweepSettles, SweeperActs
<1>8. CASE SweepDies
  BY <1>2, <1>8, CallersRest DEF SweepDies, SweeperActs
<1>9. CASE PurgeBegins
  <2>1. /\ receipt'.young = receipt.young
        /\ \/ receipt'.dispatch = receipt.dispatch
           \/ receipt.dispatch \notin ClaimState /\ receipt'.dispatch = "blocked"
    <3>1. CASE receipt.status \in Unresolved
      <4>1. receipt' = [receipt EXCEPT !.status = "failed",
                          !.dispatch = IF receipt.dispatch \in ClaimState THEN receipt.dispatch ELSE "blocked"]
        BY <1>9, <3>1 DEF PurgeBegins
      <4> QED
        BY <4>1 DEF TypeOK, Receipt
    <3>2. CASE receipt.status \notin Unresolved
      BY <1>9, <3>2 DEF PurgeBegins
    <3> QED
      BY <3>1, <3>2
  <2>2. ClaimKept
    BY <2>1, NoCalls DEF ClaimKept, ClaimState
  <2> QED
    BY <1>1, <1>9, <2>2 DEF PurgeBegins
<1>10. CASE PurgeEnds
  <2>1. receipt'.young = receipt.young /\ receipt'.dispatch = receipt.dispatch
    BY <1>10 DEF PurgeEnds, TypeOK, Receipt
  <2> QED
    BY <1>1, <1>10, <2>1 DEF PurgeEnds, ClaimKept
<1>11. CASE PurgeLooks \/ PurgeStops \/ PurgeSettles \/ PurgeTrusts \/ PurgeSweeps
  <2>1. platform \in Ended => platform' \in Ended
    BY <1>11, TerminateEnds DEF PurgeLooks, PurgeStops, PurgeSettles, PurgeTrusts, PurgeSweeps
  <2> QED
    BY <1>1, <1>2, <1>11, <2>1 DEF PurgeLooks, PurgeStops, PurgeSettles, PurgeTrusts, PurgeSweeps
<1>12. CASE Ages
  <2>1. \A q \in Requests : ~Calling(q)
    BY <1>12 DEF Ages, Calling
  <2>2. receipt'.dispatch = receipt.dispatch
    BY <1>12 DEF Ages, TypeOK, Receipt
  <2> QED
    BY <1>1, <1>12, <2>1, <2>2 DEF Ages, ClaimKept
<1>13. CASE WindowEnds
  <2>1. receipt'.young = receipt.young /\ receipt'.dispatch = receipt.dispatch
    BY <1>13 DEF WindowEnds, TypeOK, Receipt
  <2> QED
    BY <1>1, <1>13, <2>1 DEF WindowEnds, ClaimKept
<1>14. CASE Moves \/ Deletes \/ InstanceErrs \/ InstancePaused \/ UNCHANGED vars
  BY <1>1, <1>2, <1>14 DEF Moves, Deletes, InstanceErrs, InstancePaused, vars, Ended
<1> QED
  BY <1>3, <1>4, <1>5, <1>6, <1>7, <1>8, <1>9, <1>10, <1>11, <1>12, <1>13, <1>14
  DEF SweeperSteps, PurgeSteps

\* Then the instance, its run, and the fence.
MachineKept == PendingAbsent /\ RunRests /\ ProofHolds

\* A step that starts no run beyond its preflight and gives no proof.
LEMMA MachineCalm ==
    ASSUME MachineKept,
           receipt'.dispatch = "pending" =>
              /\ receipt.dispatch = "pending"
              /\ platform' = platform \/ platform # "absent"
              /\ sweeper.pc = "idle" => sweeper'.pc = "idle"
              /\ receipt'.status = "retryable" => receipt.status = "retryable",
           \/ UNCHANGED platform /\ (run'.pc = run.pc \/ platform = "active")
           \/ platform' = "active"
           \/ platform' \notin {"active", "paused"} /\ run'.pc = "off",
           run'.pc = "admitted" => run.pc = "admitted",
           purge = "settling" => run'.pc = run.pc \/ run'.pc \in {"off", "preflight", "done"},
           \/ fence'.proof = fence.proof
           \/ purge = "none" /\ ~fence'.proof
           \/ fence'.proof /\ run'.pc # "admitted",
           UNCHANGED purge,
           purge \in {"relational", "done"} => objects' \subseteq objects
    PROVE  MachineKept'
<1>1. PendingAbsent'
  BY DEF MachineKept, PendingAbsent
<1>2. RunRests'
  BY DEF MachineKept, RunRests
<1>3. ProofHolds'
  BY DEF MachineKept, ProofHolds
<1> QED
  BY <1>1, <1>2, <1>3 DEF MachineKept

\* An instance that is not active has no run in the middle of a slot.
LEMMA AtRest ==
    /\ MachineKept /\ platform \in Ended => run.pc = "off"
    /\ MachineKept /\ receipt.dispatch = "pending" => run.pc = "off" /\ platform = "absent"
BY DEF MachineKept, PendingAbsent, RunRests, Ended

LEMMA MachineRequestStep ==
    ASSUME HeldInv, CallersKept, MachineKept, NEW r \in Requests,
           RequestSteps(r) \/ LoadFails(r) \/ CallFails(r)
              \/ FollowUpFails(r) \/ StopFails(r) \/ RequestDies(r)
    PROVE  MachineKept'
<1> USE SetTypes, RowTypes, ReceiptType DEF HeldInv
<1>1. ASSUME UNCHANGED <<graph, stored, platform, run, purge, sweeper>> PROVE MachineKept'
  BY <1>1, MachineCalm
<1>2. receipt.dispatch \in ClaimState => receipt.dispatch # "pending"
  BY DEF ClaimState
\* A claim withdraws the proof, of a fence that is open.
<1>3. ASSUME NEW status \in Statuses, NEW dispatch \in ClaimState, ClaimGraph(status, dispatch),
             fence.state = "open", RunOutdated, UNCHANGED <<stored, platform, purge>>
      PROVE  MachineKept'
  <2>1. purge = "none" /\ ~fence'.proof /\ receipt'.dispatch # "pending" /\ run'.pc = run.pc
    BY <1>3, ClaimType, MachineTypes DEF HeldParts, FenceTells, ClaimState
  <2> QED
    BY <1>3, <2>1, MachineCalm
\* A settlement gives it, of an instance without a run.
<1>4. ASSUME NEW dispatch \in Dispatches, Settle("conflict", dispatch), dispatch = receipt.dispatch,
             run.pc # "admitted", UNCHANGED <<stored, platform, run, sweeper, purge>>
      PROVE  MachineKept'
  <2>1. fence'.proof /\ receipt'.dispatch = receipt.dispatch /\ receipt'.status # "retryable"
    BY <1>4, SettleType, EndStatuses
  <2> QED
    BY <1>4, <2>1, MachineCalm
<1>5. ASSUME Terminate \/ UNCHANGED <<platform, run>>, UNCHANGED <<fence, stored, sweeper, purge>>,
             receipt'.dispatch = "pending" => UNCHANGED receipt
      PROVE  MachineKept'
  <2>1. \/ UNCHANGED platform /\ run'.pc = run.pc
        \/ platform' \notin {"active", "paused"} /\ run'.pc = "off"
    BY <1>5 DEF Terminate, MachineKept, RunRests, Ended
  <2>2. platform' = platform \/ platform # "absent"
    BY <1>5 DEF Terminate
  <2> QED
    BY <1>5, <2>1, <2>2, MachineCalm
<1>6. CASE ClaimInitial(r)
  BY <1>3, <1>6 DEF ClaimInitial, ClaimState, Statuses, Unresolved, Working
<1>7. CASE ConflictInitial(r)
  BY <1>4, <1>7, AtRest, EndStatuses DEF ConflictInitial
<1>8. CASE ClaimRestart(r)
  BY <1>3, <1>8, ClaimedType DEF ClaimRestart, Claimable, Statuses, Unresolved, Working
<1>9. CASE ClaimConflict(r)
  BY <1>3, <1>9 DEF ClaimConflict, ConflictClaimable, ClaimState
<1>10. CASE SettleEnded(r)
  <2>1. platform \in Ended
    BY <1>10 DEF SettleEnded, Reread, SameSnapshot, CallersKept, EndedStays
  <2> QED
    BY <1>4, <1>10, <2>1, AtRest DEF SettleEnded
<1>11. CASE Load(r) \/ LoadFails(r) \/ CallFails(r) \/ FollowUp(r) \/ FollowUpFails(r) \/ Observe(r)
           \/ FollowActive(r) \/ StopFails(r) \/ RequestDies(r) \/ ConfirmActive(r) \/ Leave(r)
  BY <1>1, <1>11 DEF Load, LoadFails, LoadAs, CallFails, FollowUp, FollowUpFails, Observe, Looks,
     FollowActive, StopFails, RequestDies, ConfirmActive, Leave
<1>12. CASE Call(r)
  <2>1. receipt.dispatch # "pending"
    BY <1>2, <1>12 DEF Call, CallersKept, OneCalls, Calling
  <2>2. \/ platform' = "active" /\ run' = StartedRun
        \/ platform = "paused" /\ platform' = "active" /\ run' = run
        \/ UNCHANGED <<platform, run>>
    BY <1>12, MachineTypes, ClaimedType DEF Call
  <2> QED
    BY <1>12, <2>1, <2>2, MachineCalm DEF Call
<1>13. CASE FollowUnknown(r) \/ Stop(r)
  BY <1>5, <1>13 DEF FollowUnknown, Guard, Stop
<1>14. CASE MarkFailed(r)
  <2>1. receipt' # receipt => receipt'.dispatch = "failed"
    BY <1>14 DEF MarkFailed, TypeOK, Receipt
  <2> QED
    BY <1>5, <1>14, <2>1 DEF MarkFailed
<1>15. CASE Confirm(r)
  <2>1. receipt' # receipt => receipt'.dispatch = "confirmed"
    BY <1>15 DEF Confirm, TypeOK, Receipt
  <2> QED
    BY <1>5, <1>15, <2>1 DEF Confirm, Guard
<1>16. CASE SettleStopped(r)
  <2>1. CASE UNCHANGED graph
    BY <1>1, <1>16, <2>1 DEF SettleStopped
  <2>2. CASE ~UNCHANGED graph
    <3>1. platform \in Ended
      BY <1>16, <2>2 DEF SettleStopped, CallersKept, EndedStays
    <3> QED
      BY <1>4, <1>16, <2>2, <3>1, AtRest DEF SettleStopped
  <2> QED
    BY <2>1, <2>2
<1> QED
  BY <1>6, <1>7, <1>8, <1>9, <1>10, <1>11, <1>12, <1>13, <1>14, <1>15, <1>16 DEF RequestSteps

LEMMA MachineRunStep == ASSUME HeldInv, MachineKept, RunSteps PROVE MachineKept'
<1> USE SetTypes, RowTypes, ReceiptType DEF HeldInv
<1>1. platform = "active" /\ UNCHANGED <<request, sweeper, purge>>
      /\ (platform' = platform \/ RunEnds)
  BY DEF RunSteps, Preflight, Begin, Profile, Put, Adopt, Drop, Finalize, Exhaust, Checkpoint,
     Commit,
     RunEnds, RunOnly, At
<1>2. receipt.dispatch # "pending"
  BY <1>1, AtRest
<1>3. /\ purge = "settling" => run.pc \in {"off", "preflight", "done"} /\ fence.state # "open"
      /\ purge # "none" => fence.state # "open" /\ receipt.status \notin Unresolved
      /\ run.pc = "admitted" => ~fence.proof
  BY Statuses3 DEF MachineKept, ProofHolds, HeldParts, FenceTells, UnresolvedLives
<1>4. receipt'.dispatch = receipt.dispatch
  <2>1. ASSUME NEW status \in {"failed", "conflict", "exhausted"}, RunSettles(status) \/ Settle(status, receipt.dispatch)
        PROVE  receipt'.dispatch = receipt.dispatch
    BY <2>1, SettleType, EndStatuses DEF RunSettles
  <2>2. \A status \in Statuses : [receipt EXCEPT !.status = status].dispatch = receipt.dispatch
    BY DEF TypeOK, Receipt
  <2>3. {"rendering", "finalizing", "applied"} \subseteq Statuses
    BY DEF Statuses, Unresolved, Working
  <2>4. CASE Preflight \/ Profile \/ Put \/ Adopt \/ Drop \/ Finalize \/ RunEnds
    BY <2>4 DEF Preflight, Profile, Put, Adopt, Drop, Finalize, RunEnds, RunOnly
  <2>5. CASE Begin \/ Exhaust
    BY ZenonT(60), <2>1, <2>2, <2>3, <2>5 DEF Begin, Exhaust
  <2>6. CASE Checkpoint \/ Commit
    BY <2>1, <2>2, <2>3, <2>6 DEF Checkpoint, Commit
  <2> QED
    BY <2>4, <2>5, <2>6 DEF RunSteps
<1>5. /\ \A pc \in {"done", "profile", "finalize"} : [IdleRun EXCEPT !.pc = pc].pc = pc
      /\ NextSlot.pc = "profile"
      /\ \A pc \in {"start", "admitted", "written", "drop", "exhaust", "checkpoint", "commit", "done"} :
           /\ [run EXCEPT !.pc = pc].pc = pc
           /\ [run EXCEPT !.pc = pc, !.wrote = run.next \notin objects].pc = pc
           /\ [run EXCEPT !.pc = pc, !.fresh = TRUE].pc = pc
           /\ [run EXCEPT !.fresh = TRUE, !.pc = pc].pc = pc
           /\ [run EXCEPT !.pc = pc, !.status = receipt.status, !.fresh = TRUE].pc = pc
  BY DEF IdleRun, NextSlot, TypeOK, Run
<1>6. ASSUME UNCHANGED platform, run'.pc = "admitted" => ~fence'.proof, run'.pc \notin {"admitted"} \/ fence' = fence,
             purge = "settling" => run'.pc \in {"off", "preflight", "done"},
             \/ fence'.proof = fence.proof
             \/ fence'.proof /\ run'.pc # "admitted",
             purge \in {"relational", "done"} => objects' \subseteq objects
      PROVE  MachineKept'
  <2>1. PendingAbsent' /\ RunRests'
    BY <1>1, <1>2, <1>4, <1>6 DEF PendingAbsent, RunRests
  <2>2. ProofHolds'
    BY <1>1, <1>6 DEF MachineKept, ProofHolds
  <2> QED
    BY <2>1, <2>2 DEF MachineKept
<1>7. ASSUME NEW status \in {"failed", "conflict", "exhausted"}, RunSettles(status) \/ Settle(status, receipt.dispatch)
      PROVE  fence'.proof = fence.proof \/ fence'.proof
  BY <1>7, SettleType, EndStatuses DEF RunSettles
<1>8. CASE Preflight
  <2>1. run'.pc \in {"start", "done"} /\ (purge = "settling" => run'.pc = "done")
    BY <1>3, <1>5, <1>8 DEF Preflight, RunOnly
  <2> QED
    BY <1>6, <1>8, <2>1 DEF Preflight, RunOnly
<1>9. CASE Begin
  <2>1. run'.pc \in {"done", "profile"} /\ run.pc = "start"
    <3>1. run.pc = "start" /\ \E pc \in {"done", "profile"} : run' = [IdleRun EXCEPT !.pc = pc]
      BY <1>9 DEF Begin, At
    <3> QED
      BY <3>1, <1>5
  <2>2. fence'.proof = fence.proof \/ fence'.proof
    BY <1>7, <1>9 DEF Begin
  <2> QED
    BY <1>3, <1>6, <1>9, <2>1, <2>2 DEF Begin
<1>10. CASE Profile
  <2>1. run'.pc \in {"finalize", "admitted", "profile"} /\ run.pc = "profile"
        /\ (run'.pc = "admitted" => Admitted)
    BY <1>5, <1>10 DEF Profile, RunOnly, At
  <2>2. Admitted => ~fence.proof
    BY Statuses3 DEF Admitted, HeldParts, ProofEnds
  <2> QED
    BY <1>3, <1>6, <1>10, <2>1, <2>2 DEF Profile, RunOnly
<1>11. CASE Put
  <2>1. run'.pc = "written" /\ run.pc = "admitted"
    BY <1>5, <1>11 DEF Put, At
  <2>2. purge \notin {"relational", "done"}
    BY <2>1 DEF MachineKept, ProofHolds
  <2> QED
    BY <1>3, <1>6, <1>11, <2>1, <2>2 DEF Put
<1>12. CASE Adopt
  <2>1. run'.pc \in {"profile", "drop"} /\ run.pc = "written"
    <3>1. run.pc = "written" /\ (run' = NextSlot \/ run' = [run EXCEPT !.pc = "drop"])
      BY <1>12 DEF Adopt, At
    <3>2. [run EXCEPT !.pc = "drop"].pc = "drop" /\ NextSlot.pc = "profile"
      BY <1>5
    <3> QED
      BY <3>1, <3>2
  <2> QED
    BY <1>3, <1>6, <1>12, <2>1 DEF Adopt
<1>13. CASE Drop
  <2>1. run'.pc = "profile" /\ run.pc = "drop" /\ objects' \subseteq objects
    BY <1>5, <1>13 DEF Drop, At
  <2> QED
    BY <1>3, <1>6, <1>13, <2>1 DEF Drop
<1>14. CASE Finalize
  <2>1. run'.pc \in {"checkpoint", "exhaust", "commit", "done"} /\ run.pc = "finalize"
    BY <1>5, <1>14 DEF Finalize, RunOnly, At
  <2> QED
    BY <1>3, <1>6, <1>14, <2>1 DEF Finalize, RunOnly
<1>15. CASE Exhaust
  <2>1. run'.pc = "done" /\ run.pc = "exhaust" /\ (fence'.proof = fence.proof \/ fence'.proof)
    BY <1>5, <1>7, <1>15 DEF Exhaust, At
  <2> QED
    BY <1>3, <1>6, <1>15, <2>1 DEF Exhaust
<1>16. CASE Checkpoint
  <2>1. run'.pc \in {"commit", "done", "finalize"} /\ run.pc = "checkpoint"
    <3>1. /\ run.pc = "checkpoint"
          /\ \/ run' = [run EXCEPT !.pc = "commit"]
             \/ \E pc \in {"done", "finalize"} : run' = [IdleRun EXCEPT !.pc = pc]
      BY <1>16 DEF Checkpoint, At
    <3>2. [run EXCEPT !.pc = "commit"].pc = "commit"
      BY <1>5
    <3>3. \A pc \in {"done", "finalize"} : run' = [IdleRun EXCEPT !.pc = pc] => run'.pc \in {"done", "finalize"}
      BY <1>5
    <3>4. run'.pc \in {"commit", "done", "finalize"}
      BY <3>1, <3>2, <3>3
    <3> QED
      BY <3>1, <3>4
  <2>2. fence'.proof = fence.proof \/ fence'.proof
    BY <1>7, <1>16 DEF Checkpoint
  <2> QED
    BY <1>3, <1>6, <1>16, <2>1, <2>2 DEF Checkpoint
<1>17. CASE Commit
  <2>1. run'.pc \in {"done", "finalize"} /\ run.pc = "commit"
    <3>1. run.pc = "commit" /\ \E pc \in {"done", "finalize"} : run' = [IdleRun EXCEPT !.pc = pc]
      BY <1>17 DEF Commit, At
    <3> QED
      BY <3>1, <1>5
  <2>2. fence'.proof = fence.proof \/ fence'.proof
    BY <1>7, <1>17 DEF Commit, TypeOK, Fence
  <2> QED
    BY <1>3, <1>6, <1>17, <2>1, <2>2 DEF Commit
<1>18. CASE RunEnds
  BY <1>2, <1>4, <1>18, MachineCalm DEF RunEnds
<1> QED
  BY <1>8, <1>9, <1>10, <1>11, <1>12, <1>13, <1>14, <1>15, <1>16, <1>17, <1>18 DEF RunSteps

LEMMA MachineOtherStep ==
    ASSUME HeldInv, CallersKept, MachineKept,
           SweeperSteps \/ PurgeSteps \/ Moves \/ Deletes \/ Ages \/ WindowEnds
              \/ InstanceErrs \/ InstancePaused \/ SweepDies \/ UNCHANGED vars
    PROVE  MachineKept'
<1> USE SetTypes, RowTypes, ReceiptType DEF HeldInv
<1>1. ASSUME UNCHANGED <<graph, stored, platform, run, purge>>, sweeper' = sweeper \/ sweeper'.pc = "idle"
      PROVE  MachineKept'
  BY <1>1, MachineCalm
<1>2. ASSUME Terminate PROVE /\ \/ UNCHANGED platform /\ run'.pc = run.pc
                                \/ platform' \notin {"active", "paused"} /\ run'.pc = "off"
                             /\ platform' = platform \/ platform # "absent"
  BY <1>2 DEF Terminate, MachineKept, RunRests, Ended
<1>3. CASE Moves \/ Deletes \/ SweepDies \/ UNCHANGED vars
  BY <1>1, <1>3 DEF Moves, Deletes, SweepDies, vars
<1>4. CASE SweepLooks
  <2>1. receipt.dispatch # "pending"
    BY <1>4 DEF SweepLooks, Expired, MachineKept, PendingAbsent
  <2> QED
    BY <1>4, <2>1, MachineCalm DEF SweepLooks
<1>5. sweeper.pc # "idle" => receipt.dispatch # "pending"
  BY DEF MachineKept, PendingAbsent
<1>6. CASE SweepClaims
  <2>1. CASE sweeper.fresh /\ Expired /\ ~Young
    <3>1. PICK d \in ClaimState : ClaimGraph("retryable", d) /\ RunOutdated
      BY <1>6, <2>1 DEF SweepClaims, ClaimState
    <3>2. receipt'.dispatch # "pending" /\ ~fence'.proof /\ run'.pc = run.pc
      BY <3>1, ClaimType, MachineTypes DEF Statuses, Unresolved, ClaimState
    <3>3. purge = "none"
      BY <2>1 DEF Expired, HeldParts, FenceTells
    <3> QED
      BY <1>6, <3>2, <3>3, MachineCalm DEF SweepClaims
  <2> QED
    BY <1>1, <1>6, <2>1 DEF SweepClaims
<1>7. CASE SweepRelooks
  BY <1>5, <1>7, MachineCalm DEF SweepRelooks
<1>8. CASE SweepStops
  BY <1>2, <1>5, <1>8, MachineCalm DEF SweepStops
<1>9. CASE SweepSettles
  <2>1. CASE UNCHANGED graph
    BY <1>1, <1>9, <2>1 DEF SweepSettles
  <2>2. CASE ~UNCHANGED graph
    <3>1. platform \in Ended /\ receipt.dispatch # "pending"
      BY <1>5, <1>9, <2>2 DEF SweepSettles, CallersKept, EndedStays, SweeperActs
    <3>2. receipt'.dispatch \in {receipt.dispatch, "failed"} /\ fence'.proof
      BY <1>9, <2>2, SettleType, EndStatuses DEF SweepSettles
    <3> QED
      BY <1>9, <3>1, <3>2, AtRest, MachineCalm DEF SweepSettles
  <2> QED
    BY <2>1, <2>2
<1>10. CASE Ages \/ WindowEnds
  <2>1. receipt'.dispatch = receipt.dispatch /\ receipt'.status = receipt.status
    BY <1>10 DEF Ages, WindowEnds, TypeOK, Receipt
  <2> QED
    BY <1>10, <2>1, MachineCalm DEF Ages, WindowEnds
<1>11. CASE InstanceErrs
  <2>1. receipt.dispatch # "pending"
    BY <1>11, AtRest DEF InstanceErrs
  <2> QED
    BY <1>11, <2>1, MachineCalm DEF InstanceErrs
<1>12. CASE InstancePaused
  BY <1>12 DEF InstancePaused, MachineKept, PendingAbsent, RunRests, ProofHolds
<1>13. CASE PurgeBegins
  <2>1. /\ purge' = "fences" /\ fence'.proof = fence.proof /\ UNCHANGED <<platform, run, sweeper>>
        /\ receipt'.dispatch = "pending" => receipt.dispatch = "pending" /\ receipt' = receipt
    <3>1. fence'.proof = fence.proof
      BY <1>13 DEF PurgeBegins, TypeOK, Fence
    <3>2. CASE receipt.status \in Unresolved
      <4>1. receipt' = [receipt EXCEPT !.status = "failed",
                          !.dispatch = IF receipt.dispatch \in ClaimState THEN receipt.dispatch ELSE "blocked"]
        BY <1>13, <3>2 DEF PurgeBegins
      <4>2. receipt'.dispatch # "pending"
        BY <4>1 DEF TypeOK, Receipt, ClaimState
      <4> QED
        BY <1>13, <3>1, <4>2 DEF PurgeBegins
    <3>3. CASE receipt.status \notin Unresolved
      BY <1>13, <3>1, <3>3 DEF PurgeBegins
    <3> QED
      BY <3>2, <3>3
  <2> QED
    BY <2>1 DEF MachineKept, PendingAbsent, RunRests, ProofHolds
<1>14. CASE PurgeLooks
  <2>1. run.pc = "off"
    BY <1>14, AtRest DEF PurgeLooks, PurgeSees
  <2> QED
    BY <1>14, <2>1 DEF PurgeLooks, MachineKept, PendingAbsent, RunRests, ProofHolds
<1>15. CASE PurgeStops
  BY <1>2, <1>15, MachineCalm DEF PurgeStops
<1>16. CASE PurgeSettles
  <2>1. fence'.proof
    BY <1>16 DEF PurgeSettles, TypeOK, Fence
  <2> QED
    BY <1>16, <2>1 DEF PurgeSettles, MachineKept, PendingAbsent, RunRests, ProofHolds
<1>17. CASE PurgeTrusts \/ PurgeSweeps
  BY <1>17 DEF PurgeTrusts, PurgeSweeps, MachineKept, PendingAbsent, RunRests, ProofHolds
<1>18. CASE PurgeEnds
  <2>1. receipt'.dispatch = receipt.dispatch /\ receipt'.status = "gone"
    BY <1>18 DEF PurgeEnds, TypeOK, Receipt
  <2> QED
    BY <1>18, <2>1 DEF PurgeEnds, MachineKept, PendingAbsent, RunRests, ProofHolds
<1> QED
  BY <1>3, <1>4, <1>6, <1>7, <1>8, <1>9, <1>10, <1>11, <1>12, <1>13, <1>14, <1>15, <1>16, <1>17,
     <1>18
  DEF SweeperSteps, PurgeSteps

LEMMA ClaimAlways == ASSUME ~StaleCalls PROVE Spec => [](HeldInv /\ ClaimInv)
<1>1. Init => HeldInv /\ ClaimInv
  <2> SUFFICES ASSUME Init PROVE ClaimInv
    BY InitHeld
  <2> USE RowTypes DEF Init
  <2>1. OneCalls /\ EndedStays
    BY DEF OneCalls, EndedStays, Calling, SweeperActs
  <2> QED
    BY <2>1 DEF ClaimInv, PendingAbsent, RunRests, ProofHolds
<1>2. (HeldInv /\ ClaimInv) /\ [Next]_vars => (HeldInv /\ ClaimInv)'
  <2> SUFFICES ASSUME HeldInv, ClaimInv, [Next]_vars PROVE ClaimInv'
    BY NextHeld
  <2>1. CallersKept /\ MachineKept /\ PendingAbsent
    BY DEF ClaimInv, CallersKept, MachineKept
  <2>2. CallersKept'
    BY <2>1, CallersRequestStep, CallersRunStep, CallersOtherStep DEF Next, Steady, Faults
  <2>3. MachineKept'
    BY <2>1, MachineRequestStep, MachineRunStep, MachineOtherStep DEF Next, Steady, Faults
  <2> QED
    BY <2>2, <2>3 DEF ClaimInv, CallersKept, MachineKept
<1> QED
  BY <1>1, <1>2, PTL DEF Spec

\* When no call outlives the two minutes of its claim, a purged event keeps no cover
\* object, whichever run or caller the purge did not see.
THEOREM SweptEventStaysEmpty == ASSUME ~StaleCalls PROVE Spec => []SweptStaysEmpty
<1>1. HeldInv /\ ClaimInv => SweptStaysEmpty
  BY DEF ClaimInv, ProofHolds, SweptStaysEmpty
<1> QED
  BY <1>1, ClaimAlways, PTL

-----------------------------------------------------------------------------
(* The drafts of the event.  That a cover's master is there while it may   *)
(* still be published needs that two inspections never hold one master     *)
(* (MastersApart), that a master nobody adopted yet is unknown to drafts   *)
(* and sweep (Unpublished), and that a master the sweep took is over for   *)
(* good (SweptIsOver).  What is stored stays within the cap because what   *)
(* is charged, which no step but a reservation adds to, does (RoomKept).   *)

\* The rows of a draft, of an upload and of an inspection.
DraftRow == [state: {"none"} \cup Studio!Live \cup Studio!Terminal, source: {"new_upload", "existing_upload"},
             key: BOOLEAN, master: Masters \cup {NoOne}]
PutRow == [pc: {"idle", "read", "claimed", "sending", "landed", "verified",
                "partial", "deleted", "absent", "unproven"},
           draft: Requests \cup {NoOne}, fresh: BOOLEAN]
InspectorRow == [pc: {"idle", "read", "rejected", "fail", "written", "inserted", "adopted",
                      "preview", "gone", "exhausted", "release", "schedule"},
                 draft: Requests \cup {NoOne}, fresh: BOOLEAN, master: Masters \cup {NoOne}]

\* The foreign key of a draft's master.
MastersPointed ==
    \A d \in Requests : drafts[d].master # NoOne => masterRow[drafts[d].master] \in {"kept", "scheduled"}

StudioTypes ==
    /\ drafts \in [Requests -> DraftRow] /\ raw \subseteq Requests /\ masterObject \subseteq Masters
    /\ masterRow \in [Masters -> {"none", "kept", "scheduled", "deleted"}]
    /\ active \in Masters \cup {NoOne}
    /\ put \in [Puts -> PutRow] /\ inspector \in [Inspectors -> InspectorRow]
    /\ sweep \in [pc: {"idle", "release", "master", "row"}, of: Requests \cup Masters \cup {NoOne}]

\* Whoever is at work has a draft.
StudioBusy ==
    /\ \A p \in Puts : put[p].pc # "idle" => put[p].draft \in Requests
    /\ \A i \in Inspectors : inspector[i].pc # "idle" => inspector[i].draft \in Requests
    /\ sweep.pc = "release" => sweep.of \in Requests

\* Only an upload is reserved and transferred.
FromUploads ==
    \A d \in Requests : drafts[d].state \in {"reserved", "transferred"} => drafts[d].source = "new_upload"

\* Two inspections never hold one master.
HasMaster(i) ==
    inspector[i].pc \in {"written", "inserted", "adopted", "preview", "exhausted", "gone", "release", "schedule"}
MastersApart ==
    /\ \A i \in Inspectors : HasMaster(i) => inspector[i].master \in Masters
    /\ \A i, j \in Inspectors :
         inspector[i].master # NoOne /\ inspector[i].master = inspector[j].master => i = j

\* A master that is not adopted yet is known to its inspection alone.
Unpublished ==
    \A i \in Inspectors :
        /\ inspector[i].pc = "written" => masterRow[inspector[i].master] = "none"
        /\ inspector[i].pc = "inserted" =>
             /\ masterRow[inspector[i].master] = "kept" /\ inspector[i].master # active
             /\ \A d \in Requests : drafts[d].master # inspector[i].master
        /\ inspector[i].pc \in {"written", "inserted"} => inspector[i].master \in masterObject

\* The master the sweep took is over for good.
SweptIsOver == sweep.pc \in {"master", "row"} => sweep.of \in Masters /\ Studio!Collectable(sweep.of)

\* What the event is charged for, stored or reserved, is within its cap.
RoomKept == Cardinality(Studio!ChargedDrafts) <= RawCap

StudioInv ==
    /\ StudioTypes /\ MastersPointed /\ StudioBusy /\ FromUploads /\ MastersApart /\ Unpublished
    /\ Studio!LiveMasterKept /\ SweptIsOver /\ RoomKept

\* The module's own copies of what it counts with.
LEMMA StudioFinite == \A S : Studio!IsFiniteSet(S) <=> IsFiniteSet(S)
BY DEF Studio!IsFiniteSet, IsFiniteSet
LEMMA StudioCardinality == \A S : Studio!Cardinality(S) = Cardinality(S)
BY DEF Studio!Cardinality, Cardinality, Studio!IsFiniteSet, IsFiniteSet

LEMMA StudioTyped == StudioTypes /\ MastersPointed => Studio!TypeOK
BY DEF StudioTypes, Studio!TypeOK, DraftRow, PutRow, InspectorRow, MastersPointed

LEMMA StudioStarts == Studio!CoverSizes /\ Studio!Init => StudioInv
<1> SUFFICES ASSUME Studio!CoverSizes, Studio!Init PROVE StudioInv
  OBVIOUS
<1> USE DEF Studio!Init, Studio!NoDraft, Studio!IdlePut, Studio!IdleInspector, Studio!IdleSweep
<1>1. StudioTypes /\ MastersPointed
  BY DEF StudioTypes, DraftRow, PutRow, InspectorRow, MastersPointed
<1>2. StudioBusy /\ FromUploads /\ MastersApart /\ Unpublished /\ SweptIsOver
  BY DEF StudioBusy, FromUploads, MastersApart, HasMaster, Unpublished, SweptIsOver,
     Studio!CoverSizes
<1>3. Studio!LiveMasterKept
  BY DEF Studio!LiveMasterKept, Studio!CoverSizes
<1>4. RoomKept
  <2>1. Studio!ChargedDrafts = {}
    BY DEF Studio!ChargedDrafts, Studio!Charged
  <2> QED
    BY <2>1, FS_EmptySet DEF RoomKept, Studio!CoverSizes
<1> QED
  BY <1>1, <1>2, <1>3, <1>4 DEF StudioInv

-----------------------------------------------------------------------------
(* Steps that bring no master in and send none away.                       *)

Shown == {"inspected", "ready", "publishing"}
Early == {"reserved", "transferred"}

\* A step of the weaker kind ends drafts, schedules masters no inspection holds, and
\* shows the master of a draft being published or none.
DraftsOnlyEnd ==
    \A d \in Requests :
        /\ drafts'[d].master = drafts[d].master
        /\ Studio!Charged(d)' => Studio!Charged(d)
        /\ \/ drafts'[d].state = drafts[d].state
           \/ drafts'[d].state \in Studio!Terminal
           \/ drafts'[d].state \in Shown /\ drafts[d].state \in Shown
           \/ drafts'[d].state \in Early /\ drafts[d].state \in Early
MastersOnlyScheduled ==
    \A m \in Masters :
        masterRow'[m] # masterRow[m] =>
            /\ masterRow[m] = "kept" /\ masterRow'[m] = "scheduled"
            /\ \A i \in Inspectors : inspector[i].pc = "inserted" => inspector[i].master # m
ActiveFollows ==
    \/ active' = active \/ active' = NoOne
    \/ \E d \in Requests : drafts[d].state = "publishing" /\ active' = drafts[d].master
InspectorsGoOn ==
    \A i \in Inspectors :
        \/ inspector'[i].master = NoOne /\ inspector'[i].pc \in {"idle", "read"}
        \/ /\ inspector'[i].master = inspector[i].master
           /\ \/ inspector'[i].pc = inspector[i].pc
              \/ inspector'[i].pc \notin {"written", "inserted"} /\ (HasMaster(i)' => HasMaster(i))

StudioWeaker ==
    /\ StudioTypes' /\ StudioBusy' /\ FromUploads' /\ DraftsOnlyEnd
    /\ MastersOnlyScheduled /\ ActiveFollows /\ InspectorsGoOn
    /\ masterObject' = masterObject /\ (sweep' = sweep \/ sweep'.pc \in {"idle", "release"})

LEMMA RoomStays ==
    ASSUME Studio!CoverSizes, StudioInv, \A d \in Requests : Studio!Charged(d)' => Studio!Charged(d)
    PROVE  RoomKept'
<1>1. Studio!ChargedDrafts' \subseteq Studio!ChargedDrafts
  BY DEF Studio!ChargedDrafts
<1>2. IsFiniteSet(Studio!ChargedDrafts) /\ Cardinality(Studio!ChargedDrafts) \in Nat
  BY FS_Subset, FS_CardinalityType, StudioFinite DEF Studio!ChargedDrafts, Studio!CoverSizes
<1>3. /\ Cardinality(Studio!ChargedDrafts') <= Cardinality(Studio!ChargedDrafts)
      /\ Cardinality(Studio!ChargedDrafts') \in Nat
  BY <1>1, <1>2, FS_Subset, FS_CardinalityType
<1> QED
  BY <1>2, <1>3 DEF StudioInv, RoomKept, Studio!CoverSizes

LEMMA StudioWeakerKeeps == ASSUME Studio!CoverSizes, StudioInv, StudioWeaker PROVE StudioInv'
<1> USE DEF StudioInv, StudioWeaker, StudioTypes
<1>1. MastersPointed'
  BY DEF MastersPointed, DraftsOnlyEnd, MastersOnlyScheduled, DraftRow
<1>2. MastersApart'
  BY DEF MastersApart, HasMaster, InspectorsGoOn, Studio!IdleInspector
<1>3. Studio!LiveMasterKept'
  <2> SUFFICES ASSUME NEW m \in Masters,
                      m = active' \/ \E d \in Requests : drafts'[d].state \in Shown /\ drafts'[d].master = m
               PROVE  m \in masterObject' /\ masterRow'[m] \in {"kept", "scheduled"}
    BY DEF Studio!LiveMasterKept, Shown
  <2>1. m = active \/ \E d \in Requests : drafts[d].state \in Shown /\ drafts[d].master = m
    BY DEF ActiveFollows, DraftsOnlyEnd, Shown, Early, Studio!Terminal, Studio!CoverSizes
  <2>2. m \in masterObject /\ masterRow[m] \in {"kept", "scheduled"}
    BY <2>1 DEF Studio!LiveMasterKept, Shown
  <2> QED
    BY <2>2 DEF MastersOnlyScheduled
<1>4. SweptIsOver'
  <2> SUFFICES ASSUME sweep' = sweep, sweep.pc \in {"master", "row"}
               PROVE  sweep.of \in Masters /\ Studio!Collectable(sweep.of)'
    BY DEF SweptIsOver
  <2>1. sweep.of \in Masters /\ Studio!Collectable(sweep.of)
    BY DEF SweptIsOver
  <2>2. masterRow'[sweep.of] = "scheduled"
    BY <2>1 DEF Studio!Collectable, MastersOnlyScheduled
  <2>3. \A d \in Requests :
           drafts'[d].state \in Studio!Live /\ drafts'[d].master = sweep.of =>
               drafts[d].state \in Studio!Live /\ drafts[d].master = sweep.of
    BY DEF DraftsOnlyEnd, Shown, Early, Studio!Terminal, Studio!Live
  <2>4. \A d \in Requests : drafts[d].state \in Studio!Live => drafts[d].master # sweep.of
    BY <2>1 DEF Studio!Collectable, Studio!LiveDrafts
  <2>5. sweep.of # active'
    BY <2>1, <2>4 DEF ActiveFollows, Studio!Collectable, Studio!InSet, Studio!Live,
       Studio!CoverSizes
  <2> QED
    BY <2>1, <2>2, <2>3, <2>4, <2>5 DEF Studio!Collectable, Studio!InSet, Studio!LiveDrafts,
       Studio!Live
<1>5. Unpublished'
  <2> SUFFICES ASSUME NEW i \in Inspectors, inspector'[i].pc \in {"written", "inserted"}
               PROVE  /\ inspector'[i].pc = "written" => masterRow'[inspector'[i].master] = "none"
                      /\ inspector'[i].pc = "inserted" =>
                           /\ masterRow'[inspector'[i].master] = "kept" /\ inspector'[i].master # active'
                           /\ \A d \in Requests : drafts'[d].master # inspector'[i].master
                      /\ inspector'[i].master \in masterObject'
    BY DEF Unpublished
  <2>1. inspector'[i].pc = inspector[i].pc /\ inspector'[i].master = inspector[i].master
    BY DEF InspectorsGoOn, Studio!IdleInspector
  <2>2. inspector[i].master \in Masters
    BY <2>1 DEF MastersApart, HasMaster
  <2>3. inspector[i].pc = "inserted" => inspector[i].master # active'
    BY <2>2 DEF Unpublished, ActiveFollows, Studio!CoverSizes
  <2> QED
    BY <2>1, <2>2, <2>3 DEF Unpublished, MastersOnlyScheduled, DraftsOnlyEnd
<1>6. RoomKept'
  BY RoomStays DEF DraftsOnlyEnd
<1> QED
  BY <1>1, <1>2, <1>3, <1>4, <1>5, <1>6
-----------------------------------------------------------------------------
(* The upload.                                                             *)

\* Steps that move no draft, master or cover.
LEMMA QuietStep ==
    ASSUME StudioInv, StudioTypes', StudioBusy', InspectorsGoOn,
           UNCHANGED <<drafts, masterRow, masterObject, active, sweep>>
    PROVE  StudioWeaker
BY DEF StudioWeaker, StudioInv, FromUploads, DraftsOnlyEnd, Studio!Charged, MastersOnlyScheduled,
   ActiveFollows

\* Steps of the drafts alone.
LEMMA DraftStep ==
    ASSUME StudioInv, StudioTypes', StudioBusy', InspectorsGoOn, FromUploads', DraftsOnlyEnd,
           UNCHANGED <<masterRow, masterObject, active>>, sweep' = sweep \/ sweep'.pc \in {"idle", "release"}
    PROVE  StudioWeaker
BY DEF StudioWeaker, MastersOnlyScheduled, ActiveFollows

LEMMA SameInspectors == ASSUME inspector' = inspector PROVE InspectorsGoOn
BY DEF InspectorsGoOn

\* A request of a put or of an inspector that is left stale is the same otherwise.
LEMMA PutForms ==
    ASSUME NEW r \in PutRow
    PROVE  /\ Studio!IdlePut \in PutRow /\ Studio!IdlePut.pc = "idle"
           /\ [r EXCEPT !.fresh = FALSE] \in PutRow /\ [r EXCEPT !.pc = "claimed"] \in PutRow
           /\ [r EXCEPT !.fresh = FALSE].pc = r.pc /\ [r EXCEPT !.fresh = FALSE].draft = r.draft
           /\ [r EXCEPT !.pc = "claimed"].draft = r.draft
BY DEF PutRow, Studio!IdlePut

LEMMA InspectorForms ==
    ASSUME NEW r \in InspectorRow
    PROVE  /\ Studio!IdleInspector \in InspectorRow /\ Studio!IdleInspector.pc = "idle"
           /\ Studio!IdleInspector.master = NoOne
           /\ [r EXCEPT !.fresh = FALSE] \in InspectorRow
           /\ [r EXCEPT !.fresh = FALSE].pc = r.pc /\ [r EXCEPT !.fresh = FALSE].draft = r.draft
           /\ [r EXCEPT !.fresh = FALSE].master = r.master
BY DEF InspectorRow, Studio!IdleInspector

PutActs(p) ==
    \/ \E d \in Requests : Studio!PutReads(p, d)
    \/ Studio!Send(p) \/ Studio!Lands(p) \/ Studio!Breaks(p) \/ Studio!Verify(p)
    \/ Studio!DeletePartial(p) \/ Studio!ProvePartial(p) \/ Studio!PutDies(p)

LEMMA PutActsWeaken == ASSUME StudioInv, NEW p \in Puts, PutActs(p) PROVE StudioWeaker
<1>1. StudioTypes' /\ StudioBusy' /\ UNCHANGED <<drafts, masterRow, masterObject, active, inspector, sweep>>
  <2> USE DEF StudioInv, StudioTypes, StudioBusy, PutRow
  <2>1. CASE \E d \in Requests : Studio!PutReads(p, d)
    BY <2>1 DEF Studio!PutReads
  <2>2. CASE Studio!Send(p)
    BY <2>2 DEF Studio!Send
  <2>3. CASE Studio!Lands(p)
    BY <2>3 DEF Studio!Lands
  <2>4. CASE Studio!Breaks(p)
    BY <2>4 DEF Studio!Breaks
  <2>5. CASE Studio!Verify(p)
    BY <2>5 DEF Studio!Verify
  <2>6. CASE Studio!DeletePartial(p)
    BY <2>6 DEF Studio!DeletePartial
  <2>7. CASE Studio!ProvePartial(p)
    BY <2>7 DEF Studio!ProvePartial
  <2>8. CASE Studio!PutDies(p)
    BY <2>8 DEF Studio!PutDies, Studio!IdlePut
  <2> QED
    BY <2>1, <2>2, <2>3, <2>4, <2>5, <2>6, <2>7, <2>8 DEF PutActs
<1> QED
  BY <1>1, QuietStep, SameInspectors

\* A put that goes on, or is left stale.
LEMMA ClaimWeakens == ASSUME StudioInv, NEW p \in Puts, Studio!Claim(p) PROVE StudioWeaker
<1> USE DEF StudioInv, StudioTypes, StudioBusy
<1> DEFINE d == put[p].draft
<1>1. d \in Requests /\ put[p].pc = "read"
  BY DEF Studio!Claim
<1>2. put' \in [Puts -> PutRow] /\ \A q \in Puts : put'[q].pc # "idle" => put'[q].draft \in Requests
  <2>1. put' = [q \in Puts |-> put'[q]]
    BY DEF Studio!Claim
  <2>2. ASSUME NEW q \in Puts
        PROVE  put'[q] \in PutRow /\ (put'[q].pc # "idle" => put'[q].draft \in Requests)
    <3> DEFINE r == put[q]
    <3>1. \/ put'[q] = Studio!IdlePut \/ put'[q] = r \/ put'[q] = [r EXCEPT !.fresh = FALSE]
          \/ (put[q].pc # "idle" /\ put'[q] = [r EXCEPT !.pc = "claimed"])
      BY DEF Studio!Claim
    <3>2. r \in PutRow /\ (r.pc # "idle" => r.draft \in Requests)
      OBVIOUS
    <3>3. /\ Studio!IdlePut \in PutRow /\ Studio!IdlePut.pc = "idle"
          /\ [r EXCEPT !.fresh = FALSE] \in PutRow /\ [r EXCEPT !.pc = "claimed"] \in PutRow
          /\ [r EXCEPT !.fresh = FALSE].pc = r.pc /\ [r EXCEPT !.fresh = FALSE].draft = r.draft
          /\ [r EXCEPT !.pc = "claimed"].draft = r.draft
      BY <3>2, PutForms
    <3> DEFINE stale == [r EXCEPT !.fresh = FALSE]
               claimed == [r EXCEPT !.pc = "claimed"]
    <3>4. /\ Studio!IdlePut \in PutRow /\ Studio!IdlePut.pc = "idle"
          /\ stale \in PutRow /\ claimed \in PutRow
          /\ stale.pc = r.pc /\ stale.draft = r.draft /\ claimed.draft = r.draft
      BY <3>3
    <3>5. put'[q] = Studio!IdlePut \/ put'[q] = r \/ put'[q] = stale \/ (r.pc # "idle" /\ put'[q] = claimed)
      BY <3>1
    <3> HIDE DEF r, stale, claimed
    <3> QED
      BY <3>2, <3>4, <3>5
  <2> QED
    BY <2>1, <2>2
<1>3. drafts' = drafts \/ (drafts[d].state = "reserved" /\ drafts' = [drafts EXCEPT ![d].key = TRUE])
  BY DEF Studio!Claim
<1>4. drafts' \in [Requests -> DraftRow] /\ FromUploads' /\ DraftsOnlyEnd
  <2>1. CASE drafts' = drafts
    BY <2>1 DEF FromUploads, DraftsOnlyEnd, Studio!Charged
  <2>2. CASE drafts[d].state = "reserved" /\ drafts' = [drafts EXCEPT ![d].key = TRUE]
    <3>1. Studio!Charged(d)
      BY <1>1, <2>2 DEF FromUploads, Studio!Charged
    <3>2. drafts' \in [Requests -> DraftRow]
      BY <1>1, <2>2 DEF DraftRow
    <3>3. \A e \in Requests : drafts'[e].state = drafts[e].state /\ drafts'[e].source = drafts[e].source
                           /\ drafts'[e].master = drafts[e].master /\ (e # d => drafts'[e].key = drafts[e].key)
      BY <1>1, <2>2 DEF DraftRow
    <3> QED
      BY <3>1, <3>2, <3>3 DEF FromUploads, DraftsOnlyEnd, Studio!Charged
  <2> QED
    BY <1>3, <2>1, <2>2
<1>5. UNCHANGED <<raw, masterRow, masterObject, active, inspector, sweep>>
  BY DEF Studio!Claim
<1>6. StudioTypes' /\ StudioBusy'
  BY <1>2, <1>4, <1>5
<1> QED
  BY <1>4, <1>5, <1>6, DraftStep, SameInspectors

LEMMA RecordWeakens == ASSUME StudioInv, NEW p \in Puts, Studio!Record(p) PROVE StudioWeaker
<1> USE DEF StudioInv, StudioTypes, StudioBusy
<1> DEFINE d == put[p].draft
<1>1. d \in Requests /\ put[p].pc = "verified"
  BY DEF Studio!Record
<1>2. put' \in [Puts -> PutRow] /\ \A q \in Puts : put'[q].pc # "idle" => put'[q].draft \in Requests
  <2>1. put' = [q \in Puts |-> put'[q]]
    BY DEF Studio!Record
  <2>2. ASSUME NEW q \in Puts
        PROVE  put'[q] \in PutRow /\ (put'[q].pc # "idle" => put'[q].draft \in Requests)
    <3> DEFINE r == put[q]
    <3>1. put'[q] = Studio!IdlePut \/ put'[q] = r \/ put'[q] = [r EXCEPT !.fresh = FALSE]
      BY DEF Studio!Record
    <3>2. r \in PutRow /\ (r.pc # "idle" => r.draft \in Requests)
      OBVIOUS
    <3> HIDE DEF r
    <3> QED
      BY <3>1, <3>2, PutForms
  <2> QED
    BY <2>1, <2>2
<1>3. drafts' = drafts \/ (drafts[d].state = "reserved" /\ drafts' = [drafts EXCEPT ![d].state = "transferred"])
  BY DEF Studio!Record
<1>4. drafts' \in [Requests -> DraftRow] /\ FromUploads' /\ DraftsOnlyEnd
  BY <1>1, <1>3 DEF DraftRow, FromUploads, DraftsOnlyEnd, Studio!Charged, Early, Studio!Live
<1>5. UNCHANGED <<raw, masterRow, masterObject, active, inspector, sweep>>
  BY DEF Studio!Record
<1>6. StudioTypes' /\ StudioBusy'
  BY <1>2, <1>4, <1>5
<1> QED
  BY <1>4, <1>5, <1>6, DraftStep, SameInspectors

\* A pointer that is cleared, and a draft that fails, end what they charge.
LEMMA ClearedEnds ==
    ASSUME StudioInv, NEW d \in Requests, NEW s, drafts' = Studio!Cleared(d, s)
    PROVE  drafts' \in [Requests -> DraftRow] /\ FromUploads' /\ DraftsOnlyEnd
BY DEF StudioInv, StudioTypes, DraftRow, FromUploads, DraftsOnlyEnd, Studio!Charged, Studio!Cleared

LEMMA FailedEnds ==
    ASSUME StudioInv, NEW d \in Requests, drafts' = Studio!Failed(d)
    PROVE  drafts' \in [Requests -> DraftRow] /\ FromUploads' /\ DraftsOnlyEnd
BY DEF StudioInv, StudioTypes, DraftRow, FromUploads, DraftsOnlyEnd, Studio!Charged, Studio!Failed,
   Studio!Terminal

LEMMA ClearPartialWeakens ==
    ASSUME StudioInv, NEW p \in Puts, Studio!ClearPartial(p)
    PROVE  StudioWeaker
<1> USE DEF StudioInv, StudioTypes, StudioBusy
<1>1. put[p].draft \in Requests
  BY DEF Studio!ClearPartial
<1>2. drafts' \in [Requests -> DraftRow] /\ FromUploads' /\ DraftsOnlyEnd
  BY <1>1, ClearedEnds DEF Studio!ClearPartial
<1>3. StudioTypes' /\ StudioBusy' /\ UNCHANGED <<masterRow, masterObject, active, inspector, sweep>>
  BY <1>1, <1>2 DEF Studio!ClearPartial, Studio!IdlePut, PutRow
<1> QED
  BY <1>2, <1>3, DraftStep, SameInspectors

LEMMA FailPartialWeakens ==
    ASSUME StudioInv, NEW p \in Puts, Studio!FailPartial(p)
    PROVE  StudioWeaker
<1> USE DEF StudioInv, StudioTypes, StudioBusy
<1> DEFINE d == put[p].draft
<1>1. d \in Requests
  BY DEF Studio!FailPartial
<1>2. drafts' \in [Requests -> DraftRow] /\ FromUploads' /\ DraftsOnlyEnd
  BY <1>1, FailedEnds DEF Studio!FailPartial
<1>3. put' \in [Puts -> PutRow] /\ \A q \in Puts : put'[q].pc # "idle" => put'[q].draft \in Requests
  <2>1. put' = [q \in Puts |-> put'[q]]
    BY DEF Studio!FailPartial
  <2>2. ASSUME NEW q \in Puts
        PROVE  put'[q] \in PutRow /\ (put'[q].pc # "idle" => put'[q].draft \in Requests)
    <3> DEFINE r == put[q]
    <3>1. put'[q] = Studio!IdlePut \/ put'[q] = r \/ put'[q] = [r EXCEPT !.fresh = FALSE]
      BY DEF Studio!FailPartial
    <3>2. r \in PutRow /\ (r.pc # "idle" => r.draft \in Requests)
      OBVIOUS
    <3> HIDE DEF r
    <3> QED
      BY <3>1, <3>2, PutForms
  <2> QED
    BY <2>1, <2>2
<1>4. /\ inspector' \in [Inspectors -> InspectorRow]
      /\ \A i \in Inspectors : /\ inspector'[i].pc = inspector[i].pc /\ inspector'[i].draft = inspector[i].draft
                               /\ inspector'[i].master = inspector[i].master
  <2>1. inspector' = [i \in Inspectors |-> inspector'[i]]
    BY DEF Studio!FailPartial
  <2>2. ASSUME NEW i \in Inspectors
        PROVE  /\ inspector'[i] \in InspectorRow /\ inspector'[i].pc = inspector[i].pc
               /\ inspector'[i].draft = inspector[i].draft /\ inspector'[i].master = inspector[i].master
    <3>1. inspector'[i] \in {inspector[i], [inspector[i] EXCEPT !.fresh = FALSE]} /\ inspector[i] \in InspectorRow
      BY DEF Studio!FailPartial
    <3> QED
      BY <3>1 DEF InspectorRow
  <2> QED
    BY <2>1, <2>2
<1>5. UNCHANGED <<raw, masterRow, masterObject, active, sweep>>
  BY DEF Studio!FailPartial
<1>6. InspectorsGoOn
  BY <1>4 DEF InspectorsGoOn
<1>7. StudioTypes' /\ StudioBusy'
  BY <1>2, <1>3, <1>4, <1>5
<1> QED
  BY <1>2, <1>5, <1>6, <1>7, DraftStep

LEMMA PutStepWeakens == ASSUME StudioInv, NEW p \in Puts, Studio!PutStep(p) PROVE StudioWeaker
BY PutActsWeaken, ClaimWeakens, RecordWeakens, ClearPartialWeakens,
   FailPartialWeakens DEF Studio!PutStep, PutActs

-----------------------------------------------------------------------------
(* Inspection.                                                             *)

InspectorActs(i) ==
    \/ \E d \in Requests : Studio!InspectorReads(i, d)
    \/ Studio!Reject(i) \/ Studio!DropRejected(i)
    \/ (\E ok \in BOOLEAN : Studio!Preview(i, ok)) \/ Studio!DropRaw(i) \/ Studio!InspectorDies(i)

LEMMA InspectorActsWeaken ==
    ASSUME StudioInv, NEW i \in Inspectors, InspectorActs(i)
    PROVE  StudioWeaker
<1>1. StudioTypes' /\ StudioBusy' /\ UNCHANGED <<drafts, masterRow, masterObject, active, sweep>> /\ InspectorsGoOn
  <2> USE DEF StudioInv, StudioTypes, StudioBusy, InspectorRow, InspectorsGoOn, HasMaster, Studio!IdleInspector
  <2>1. CASE \E d \in Requests : Studio!InspectorReads(i, d)
    <3>1. PICK d \in Requests : Studio!InspectorReads(i, d)
      BY <2>1
    <3>2. inspector' = [inspector EXCEPT ![i] = [pc |-> "read", draft |-> d, fresh |-> TRUE, master |-> NoOne]]
      BY <3>1 DEF Studio!InspectorReads
    <3>3. UNCHANGED <<drafts, raw, masterRow, masterObject, active, put, sweep>> /\ inspector[i].pc = "idle"
      BY <3>1 DEF Studio!InspectorReads
    <3>4. inspector' \in [Inspectors -> InspectorRow] /\ inspector'[i].pc = "read" /\ inspector'[i].draft = d
      BY <3>2
    <3>5. \A j \in Inspectors : j # i => inspector'[j] = inspector[j]
      BY <3>2
    <3>6. inspector'[i].master = NoOne
      BY <3>2
    <3> QED
      BY <3>3, <3>4, <3>5, <3>6
  <2>2. CASE Studio!Reject(i)
    BY <2>2 DEF Studio!Reject
  <2>3. CASE Studio!DropRejected(i)
    BY <2>3 DEF Studio!DropRejected
  <2>4. CASE \E ok \in BOOLEAN : Studio!Preview(i, ok)
    BY <2>4 DEF Studio!Preview
  <2>5. CASE Studio!DropRaw(i)
    <3>1. \/ inspector' = [inspector EXCEPT ![i].pc = "gone"]
          \/ inspector' = [inspector EXCEPT ![i].pc = "release"]
          \/ inspector' = [inspector EXCEPT ![i] = Studio!IdleInspector]
          \/ inspector' = [inspector EXCEPT ![i].pc = "schedule"]
      BY <2>5 DEF Studio!DropRaw
    <3>2. inspector[i].pc \in {"preview", "exhausted"} /\ (raw' = raw \/ raw' = raw \ {inspector[i].draft})
      BY <2>5 DEF Studio!DropRaw
    <3>3. UNCHANGED <<drafts, masterRow, masterObject, active, put, sweep>>
      BY <2>5 DEF Studio!DropRaw
    <3>4. inspector[i] \in InspectorRow /\ inspector[i].draft \in Requests
      BY <3>2
    <3>5. inspector' \in [Inspectors -> InspectorRow] /\ \A j \in Inspectors : j # i => inspector'[j] = inspector[j]
      <4>1. CASE inspector' = [inspector EXCEPT ![i].pc = "gone"]
        BY <3>4, <4>1
      <4>2. CASE inspector' = [inspector EXCEPT ![i].pc = "release"]
        BY <3>4, <4>2
      <4>3. CASE inspector' = [inspector EXCEPT ![i] = Studio!IdleInspector]
        BY <4>3
      <4>4. CASE inspector' = [inspector EXCEPT ![i].pc = "schedule"]
        BY <3>4, <4>4
      <4> QED
        BY <3>1, <4>1, <4>2, <4>3, <4>4
    <3>6. \/ inspector'[i].master = NoOne /\ inspector'[i].pc = "idle"
          \/ /\ inspector'[i].master = inspector[i].master /\ inspector'[i].draft = inspector[i].draft
             /\ inspector'[i].pc \in {"gone", "release", "schedule"}
      BY <3>1, <3>4
    <3> QED
      BY <3>2, <3>3, <3>4, <3>5, <3>6
  <2>6. CASE Studio!InspectorDies(i)
    BY <2>6 DEF Studio!InspectorDies
  <2> QED
    BY <2>1, <2>2, <2>3, <2>4, <2>5, <2>6 DEF InspectorActs
<1> QED
  BY <1>1, QuietStep

\* What a new revision does to the requests: no more than leave them stale.
StaleOnly ==
    /\ put' \in [Puts -> PutRow] /\ inspector' \in [Inspectors -> InspectorRow]
    /\ \A p \in Puts : put'[p].pc = put[p].pc /\ put'[p].draft = put[p].draft
    /\ \A i \in Inspectors : /\ inspector'[i].pc = inspector[i].pc /\ inspector'[i].draft = inspector[i].draft
                             /\ inspector'[i].master = inspector[i].master

LEMMA PutsGoStale ==
    ASSUME StudioInv, NEW d, NEW c \in BOOLEAN,
           put' = [p \in Puts |-> IF c /\ put[p].draft = d THEN [put[p] EXCEPT !.fresh = FALSE] ELSE put[p]]
    PROVE  /\ put' \in [Puts -> PutRow]
           /\ \A p \in Puts : put'[p].pc = put[p].pc /\ put'[p].draft = put[p].draft
<1>1. ASSUME NEW p \in Puts
      PROVE  put'[p] \in PutRow /\ put'[p].pc = put[p].pc /\ put'[p].draft = put[p].draft
  <2>1. put[p] \in PutRow
    BY DEF StudioInv, StudioTypes
  <2>2. put'[p] = put[p] \/ put'[p] = [put[p] EXCEPT !.fresh = FALSE]
    OBVIOUS
  <2> QED
    BY <2>1, <2>2 DEF PutRow
<1> QED
  BY <1>1

LEMMA InspectorsGoStale ==
    ASSUME StudioInv, NEW d, NEW c \in BOOLEAN, NEW i \in Inspectors,
           inspector'[i] = IF c /\ inspector[i].draft = d THEN [inspector[i] EXCEPT !.fresh = FALSE] ELSE inspector[i]
    PROVE  /\ inspector'[i] \in InspectorRow /\ inspector'[i].pc = inspector[i].pc
           /\ inspector'[i].draft = inspector[i].draft /\ inspector'[i].master = inspector[i].master
<1>1. inspector[i] \in InspectorRow
  BY DEF StudioInv, StudioTypes
<1>2. inspector'[i] = inspector[i] \/ inspector'[i] = [inspector[i] EXCEPT !.fresh = FALSE]
  OBVIOUS
<1> QED
  BY <1>1, <1>2 DEF InspectorRow

LEMMA BumpedIsStale == ASSUME StudioInv, NEW d \in Requests, Studio!Bumped(d) PROVE StaleOnly
<1>1. /\ put' \in [Puts -> PutRow]
      /\ \A p \in Puts : put'[p].pc = put[p].pc /\ put'[p].draft = put[p].draft
  <2>1. put' = [p \in Puts |-> IF TRUE /\ put[p].draft = d THEN [put[p] EXCEPT !.fresh = FALSE] ELSE put[p]]
    BY DEF Studio!Bumped
  <2> QED
    BY <2>1, PutsGoStale
<1>2. inspector' = [i \in Inspectors |-> inspector'[i]]
  BY DEF Studio!Bumped
<1>3. ASSUME NEW i \in Inspectors
      PROVE  /\ inspector'[i] \in InspectorRow /\ inspector'[i].pc = inspector[i].pc
             /\ inspector'[i].draft = inspector[i].draft /\ inspector'[i].master = inspector[i].master
  <2>1. inspector'[i] = IF TRUE /\ inspector[i].draft = d THEN [inspector[i] EXCEPT !.fresh = FALSE] ELSE inspector[i]
    BY DEF Studio!Bumped
  <2> QED
    BY <2>1, InspectorsGoStale
<1> QED
  BY <1>1, <1>2, <1>3 DEF StaleOnly

LEMMA StaleStep ==
    ASSUME StudioInv, StaleOnly, drafts' \in [Requests -> DraftRow], FromUploads', DraftsOnlyEnd,
           UNCHANGED <<raw, masterObject, sweep>>,
           masterRow' \in [Masters -> {"none", "kept", "scheduled", "deleted"}], MastersOnlyScheduled,
           active' \in Masters \cup {NoOne}, ActiveFollows
    PROVE  StudioWeaker
BY DEF StudioInv, StudioTypes, StudioBusy, StaleOnly, StudioWeaker, InspectorsGoOn

LEMMA OneDraftMoves ==
    ASSUME StudioInv, NEW d \in Requests, NEW s, drafts' = [drafts EXCEPT ![d].state = s],
           s \in Studio!Terminal \/ (s \in Shown /\ drafts[d].state \in Shown)
    PROVE  drafts' \in [Requests -> DraftRow] /\ FromUploads' /\ DraftsOnlyEnd
<1> USE DEF StudioInv, StudioTypes, DraftRow, Studio!Terminal, Shown, Studio!Live
<1>1. drafts' \in [Requests -> DraftRow] /\ \A e \in Requests : e # d => drafts'[e] = drafts[e]
  OBVIOUS
<1>2. /\ drafts'[d].state = s /\ drafts'[d].source = drafts[d].source
      /\ drafts'[d].key = drafts[d].key /\ drafts'[d].master = drafts[d].master
  OBVIOUS
<1> QED
  BY <1>1, <1>2 DEF FromUploads, DraftsOnlyEnd, Studio!Charged

LEMMA FailInspectionWeakens ==
    ASSUME StudioInv, NEW i \in Inspectors, Studio!FailInspection(i)
    PROVE  StudioWeaker
<1> DEFINE d == inspector[i].draft
<1>1. d \in Requests /\ inspector[i].pc = "fail"
  BY DEF Studio!FailInspection, StudioInv, StudioBusy
<1>2. drafts' \in [Requests -> DraftRow] /\ FromUploads' /\ DraftsOnlyEnd
  BY <1>1, FailedEnds DEF Studio!FailInspection
<1>3. /\ put' \in [Puts -> PutRow]
      /\ \A p \in Puts : put'[p].pc = put[p].pc /\ put'[p].draft = put[p].draft
  <2>1. Studio!Fails(d) \in BOOLEAN
    BY DEF Studio!Fails
  <2>2. put' = [p \in Puts |-> IF Studio!Fails(d) /\ put[p].draft = d THEN [put[p] EXCEPT !.fresh = FALSE] ELSE put[p]]
    BY DEF Studio!FailInspection
  <2> HIDE DEF d
  <2> QED
    BY <2>1, <2>2, PutsGoStale
<1>4. inspector' = [j \in Inspectors |-> inspector'[j]]
  BY DEF Studio!FailInspection
<1>5. inspector'[i] = Studio!IdleInspector /\ Studio!IdleInspector \in InspectorRow
  BY DEF Studio!FailInspection, InspectorRow, Studio!IdleInspector
<1>6. ASSUME NEW j \in Inspectors, j # i
      PROVE  /\ inspector'[j] \in InspectorRow /\ inspector'[j].pc = inspector[j].pc
             /\ inspector'[j].draft = inspector[j].draft /\ inspector'[j].master = inspector[j].master
  <2>1. Studio!Fails(d) \in BOOLEAN
    BY DEF Studio!Fails
  <2>2. inspector'[j] = IF Studio!Fails(d) /\ inspector[j].draft = d THEN [inspector[j] EXCEPT !.fresh = FALSE] ELSE inspector[j]
    BY <1>6 DEF Studio!FailInspection
  <2> HIDE DEF d
  <2> QED
    BY <2>1, <2>2, InspectorsGoStale
<1>7. UNCHANGED <<raw, masterRow, masterObject, active, sweep>>
  BY DEF Studio!FailInspection
<1>8. StudioTypes' /\ StudioBusy' /\ InspectorsGoOn
  <2>1. inspector' \in [Inspectors -> InspectorRow]
    BY <1>4, <1>5, <1>6
  <2> QED
    BY <1>2, <1>3, <1>5, <1>6, <1>7, <2>1 DEF StudioInv, StudioTypes, StudioBusy, InspectorsGoOn,
       Studio!IdleInspector
<1> QED
  BY <1>2, <1>7, <1>8, DraftStep

\* An inspector that ends, or goes on to schedule its master or to fail.
LEMMA InspectorEnds ==
    ASSUME StudioInv, NEW i \in Inspectors, inspector[i].pc # "idle",
           \/ inspector' = [inspector EXCEPT ![i] = Studio!IdleInspector]
           \/ inspector[i].pc \in {"gone", "release"} /\ inspector' = [inspector EXCEPT ![i].pc = "schedule"]
           \/ inspector[i].pc = "schedule" /\ inspector' = [inspector EXCEPT ![i].pc = "fail"]
    PROVE  /\ inspector' \in [Inspectors -> InspectorRow] /\ InspectorsGoOn
           /\ \A j \in Inspectors : inspector'[j].pc # "idle" => inspector'[j].draft \in Requests
<1> USE DEF StudioInv, StudioTypes, StudioBusy
<1>1. inspector[i] \in InspectorRow /\ inspector[i].draft \in Requests
  OBVIOUS
<1>2. \A j \in Inspectors : j # i => inspector'[j] = inspector[j]
  OBVIOUS
<1>3. inspector' = [j \in Inspectors |-> inspector'[j]]
  OBVIOUS
<1>4. /\ inspector'[i] \in InspectorRow
      /\ \/ inspector'[i].master = NoOne /\ inspector'[i].pc = "idle"
         \/ /\ inspector'[i].master = inspector[i].master /\ inspector'[i].draft = inspector[i].draft
            /\ inspector[i].pc \in {"gone", "release"} /\ inspector'[i].pc = "schedule"
         \/ /\ inspector'[i].master = inspector[i].master /\ inspector'[i].draft = inspector[i].draft
            /\ inspector'[i].pc = "fail"
  <2>1. CASE inspector' = [inspector EXCEPT ![i] = Studio!IdleInspector]
    BY <2>1 DEF InspectorRow, Studio!IdleInspector
  <2>2. CASE inspector[i].pc \in {"gone", "release"} /\ inspector' = [inspector EXCEPT ![i].pc = "schedule"]
    BY <1>1, <2>2 DEF InspectorRow
  <2>3. CASE inspector[i].pc = "schedule" /\ inspector' = [inspector EXCEPT ![i].pc = "fail"]
    BY <1>1, <2>3 DEF InspectorRow
  <2> QED
    BY <2>1, <2>2, <2>3
<1>5. inspector' \in [Inspectors -> InspectorRow]
  BY <1>2, <1>3, <1>4
<1> QED
  BY <1>1, <1>2, <1>4, <1>5 DEF InspectorsGoOn, HasMaster

LEMMA ClearRawWeakens ==
    ASSUME StudioInv, NEW i \in Inspectors, Studio!ClearRaw(i)
    PROVE  StudioWeaker
<1> DEFINE d == inspector[i].draft
<1>1. d \in Requests /\ inspector[i].pc \in {"gone", "release"}
  BY DEF Studio!ClearRaw, StudioInv, StudioBusy
<1>2. drafts' \in [Requests -> DraftRow] /\ FromUploads' /\ DraftsOnlyEnd
  <2>1. CASE drafts' = drafts
    BY <2>1 DEF StudioInv, StudioTypes, FromUploads, DraftsOnlyEnd, Studio!Charged
  <2>2. CASE drafts' = Studio!Cleared(d, "inspected")
    BY <1>1, <2>2, ClearedEnds
  <2> QED
    BY <2>1, <2>2 DEF Studio!ClearRaw
<1>3. /\ inspector' \in [Inspectors -> InspectorRow] /\ InspectorsGoOn
      /\ \A j \in Inspectors : inspector'[j].pc # "idle" => inspector'[j].draft \in Requests
  BY <1>1, InspectorEnds DEF Studio!ClearRaw
<1>4. UNCHANGED <<raw, masterRow, masterObject, active, put, sweep>>
  BY DEF Studio!ClearRaw
<1>5. StudioTypes' /\ StudioBusy'
  BY <1>2, <1>3, <1>4 DEF StudioInv, StudioTypes, StudioBusy
<1> QED
  BY <1>2, <1>3, <1>4, <1>5, DraftStep

LEMMA ScheduleMasterWeakens ==
    ASSUME Studio!CoverSizes, StudioInv, NEW i \in Inspectors, Studio!ScheduleMaster(i)
    PROVE  StudioWeaker
<1> DEFINE m == inspector[i].master
<1>1. m \in Masters /\ inspector[i].pc = "schedule" /\ masterRow' = Studio!Scheduled(m)
  BY DEF Studio!ScheduleMaster, StudioInv, MastersApart, HasMaster
<1>2. /\ inspector' \in [Inspectors -> InspectorRow] /\ InspectorsGoOn
      /\ \A j \in Inspectors : inspector'[j].pc # "idle" => inspector'[j].draft \in Requests
  BY <1>1, InspectorEnds DEF Studio!ScheduleMaster
<1>3. \A j \in Inspectors : inspector[j].pc = "inserted" => inspector[j].master # m
  BY <1>1 DEF StudioInv, MastersApart, HasMaster, Studio!CoverSizes
<1>4. MastersOnlyScheduled /\ masterRow' \in [Masters -> {"none", "kept", "scheduled", "deleted"}]
  BY <1>1, <1>3 DEF MastersOnlyScheduled, Studio!Scheduled, StudioInv, StudioTypes
<1>5. UNCHANGED <<drafts, raw, masterObject, active, put, sweep>>
  BY DEF Studio!ScheduleMaster
<1>6. StudioTypes' /\ StudioBusy' /\ FromUploads' /\ DraftsOnlyEnd /\ ActiveFollows
  BY <1>2, <1>4, <1>5 DEF StudioInv, StudioTypes, StudioBusy, FromUploads, DraftsOnlyEnd,
     Studio!Charged,
     ActiveFollows
<1> QED
  BY <1>2, <1>4, <1>5, <1>6 DEF StudioWeaker

-----------------------------------------------------------------------------
(* The host, the publication and the sweep's first steps.                  *)

\* A master that a draft or the event points at is only ever scheduled.
LEMMA PointedIsScheduled ==
    ASSUME Studio!CoverSizes, StudioInv, NEW m \in Masters, m = active \/ \E d \in Requests : drafts[d].master = m,
           masterRow' = [masterRow EXCEPT ![m] = "scheduled"]
    PROVE  MastersOnlyScheduled /\ masterRow' \in [Masters -> {"none", "kept", "scheduled", "deleted"}]
<1>1. masterRow[m] \in {"kept", "scheduled"}
  BY DEF StudioInv, MastersPointed, Studio!LiveMasterKept, Studio!CoverSizes
<1>2. \A i \in Inspectors : inspector[i].pc = "inserted" => inspector[i].master # m
  BY DEF StudioInv, Unpublished
<1> QED
  BY <1>1, <1>2 DEF StudioInv, StudioTypes, MastersOnlyScheduled

HostActs(d) ==
    Studio!Compose(d) \/ Studio!Accept(d) \/ Studio!Expire(d) \/ Studio!Release(d, "ready") \/ Studio!Release(d, "failed")

LEMMA HostActsWeaken == ASSUME StudioInv, NEW d \in Requests, HostActs(d) PROVE StudioWeaker
<1>1. Studio!Bumped(d) /\ UNCHANGED <<raw, masterRow, masterObject, active, sweep>>
  BY DEF HostActs, Studio!Compose, Studio!Accept, Studio!Expire, Studio!Release
<1>2. PICK s : /\ drafts' = [drafts EXCEPT ![d].state = s]
               /\ s \in Studio!Terminal \/ (s \in Shown /\ drafts[d].state \in Shown)
  BY DEF HostActs, Studio!Compose, Studio!Accept, Studio!Expire, Studio!Release, Studio!Terminal,
     Shown
<1>3. MastersOnlyScheduled /\ ActiveFollows
  BY <1>1 DEF MastersOnlyScheduled, ActiveFollows
<1>4. masterRow' \in [Masters -> {"none", "kept", "scheduled", "deleted"}] /\ active' \in Masters \cup {NoOne}
  BY <1>1 DEF StudioInv, StudioTypes
<1> QED
  BY <1>1, <1>2, <1>3, <1>4, BumpedIsStale, OneDraftMoves, StaleStep

LEMMA DiscardWeakens ==
    ASSUME Studio!CoverSizes, StudioInv, NEW d \in Requests, Studio!Discard(d)
    PROVE  StudioWeaker
<1> DEFINE m == drafts[d].master
<1>1. /\ Studio!Bumped(d) /\ UNCHANGED <<raw, masterObject, active, sweep>>
      /\ drafts' = [drafts EXCEPT ![d].state = "expired"] /\ "expired" \in Studio!Terminal
  BY DEF Studio!Discard, Studio!Terminal
<1>2. masterRow' = masterRow \/ (m # NoOne /\ masterRow' = [masterRow EXCEPT ![m] = "scheduled"])
  BY DEF Studio!Discard
<1>3. m \in Masters \cup {NoOne}
  BY DEF StudioInv, StudioTypes, DraftRow
<1>4. MastersOnlyScheduled /\ masterRow' \in [Masters -> {"none", "kept", "scheduled", "deleted"}]
  <2>1. CASE masterRow' = masterRow
    BY <2>1 DEF MastersOnlyScheduled, StudioInv, StudioTypes
  <2>2. CASE m # NoOne /\ masterRow' = [masterRow EXCEPT ![m] = "scheduled"]
    BY <1>3, <2>2, PointedIsScheduled
  <2> QED
    BY <1>2, <2>1, <2>2
<1>5. ActiveFollows /\ active' \in Masters \cup {NoOne}
  BY <1>1 DEF ActiveFollows, StudioInv, StudioTypes
<1> QED
  BY <1>1, <1>4, <1>5, BumpedIsStale, OneDraftMoves, StaleStep

LEMMA ActiveIsScheduled ==
    ASSUME Studio!CoverSizes, StudioInv,
           masterRow' = IF active = NoOne THEN masterRow ELSE [masterRow EXCEPT ![active] = "scheduled"]
    PROVE  MastersOnlyScheduled /\ masterRow' \in [Masters -> {"none", "kept", "scheduled", "deleted"}]
<1>1. CASE active = NoOne
  BY <1>1 DEF MastersOnlyScheduled, StudioInv, StudioTypes
<1>2. CASE active # NoOne
  <2>1. active \in Masters
    BY <1>2 DEF StudioInv, StudioTypes
  <2>2. masterRow' = [masterRow EXCEPT ![active] = "scheduled"]
    BY <1>2
  <2> QED
    BY <2>1, <2>2, PointedIsScheduled
<1> QED
  BY <1>1, <1>2

LEMMA PublishWeakens ==
    ASSUME Studio!CoverSizes, StudioInv, NEW d \in Requests, Studio!Publish(d)
    PROVE  StudioWeaker
<1>1. /\ Studio!Bumped(d) /\ UNCHANGED <<raw, masterObject, sweep>>
      /\ drafts' = [drafts EXCEPT ![d].state = "published"] /\ "published" \in Studio!Terminal
  BY DEF Studio!Publish, Studio!Terminal
<1>2. MastersOnlyScheduled /\ masterRow' \in [Masters -> {"none", "kept", "scheduled", "deleted"}]
  BY ActiveIsScheduled DEF Studio!Publish
<1>3. ActiveFollows /\ active' \in Masters \cup {NoOne}
  BY DEF Studio!Publish, ActiveFollows, StudioInv, StudioTypes, DraftRow
<1> QED
  BY <1>1, <1>2, <1>3, BumpedIsStale, OneDraftMoves, StaleStep

LEMMA DisplaceWeakens == ASSUME Studio!CoverSizes, StudioInv, Studio!Displace PROVE StudioWeaker
<1>1. MastersOnlyScheduled /\ masterRow' \in [Masters -> {"none", "kept", "scheduled", "deleted"}]
  BY ActiveIsScheduled DEF Studio!Displace
<1>2. active' = NoOne /\ UNCHANGED <<drafts, raw, masterObject, put, inspector, sweep>>
  BY DEF Studio!Displace
<1>3. StudioTypes' /\ StudioBusy' /\ FromUploads' /\ DraftsOnlyEnd /\ ActiveFollows /\ InspectorsGoOn
  BY <1>1, <1>2 DEF StudioInv, StudioTypes, StudioBusy, FromUploads, DraftsOnlyEnd, Studio!Charged,
     ActiveFollows, InspectorsGoOn
<1> QED
  BY <1>1, <1>2, <1>3 DEF StudioWeaker

LEMMA SweepRawWeakens == ASSUME StudioInv, NEW d \in Requests, Studio!SweepRaw(d) PROVE StudioWeaker
<1>1. /\ raw' = raw \ {d} /\ sweep' = [pc |-> "release", of |-> d]
      /\ UNCHANGED <<drafts, masterRow, masterObject, active, put, inspector>>
  BY DEF Studio!SweepRaw
<1>2. StudioTypes' /\ StudioBusy'
  BY <1>1 DEF StudioInv, StudioTypes, StudioBusy
<1>3. FromUploads' /\ DraftsOnlyEnd /\ InspectorsGoOn /\ MastersOnlyScheduled /\ ActiveFollows
  BY <1>1 DEF StudioInv, FromUploads, DraftsOnlyEnd, Studio!Charged, InspectorsGoOn,
     MastersOnlyScheduled, ActiveFollows
<1> QED
  BY <1>1, <1>2, <1>3 DEF StudioWeaker

LEMMA ReleaseRawWeakens == ASSUME StudioInv, Studio!ReleaseRaw PROVE StudioWeaker
<1> DEFINE d == sweep.of
<1>1. /\ d \in Requests /\ sweep' = Studio!IdleSweep
      /\ UNCHANGED <<raw, masterRow, masterObject, active, put, inspector>>
  BY DEF Studio!ReleaseRaw, StudioInv, StudioBusy
<1>2. drafts' = drafts \/ (drafts[d].state \in Studio!Terminal /\ drafts' = [drafts EXCEPT ![d].key = FALSE])
  BY DEF Studio!ReleaseRaw
<1>3. drafts' \in [Requests -> DraftRow] /\ FromUploads' /\ DraftsOnlyEnd
  <2>1. CASE drafts' = drafts
    BY <2>1 DEF StudioInv, StudioTypes, FromUploads, DraftsOnlyEnd, Studio!Charged
  <2>2. CASE drafts' = [drafts EXCEPT ![d].key = FALSE]
    BY <1>1, <2>2 DEF StudioInv, StudioTypes, DraftRow, FromUploads, DraftsOnlyEnd, Studio!Charged
  <2> QED
    BY <1>2, <2>1, <2>2
<1>4. StudioTypes' /\ StudioBusy'
  BY <1>1, <1>3 DEF StudioInv, StudioTypes, StudioBusy, Studio!IdleSweep
<1>5. InspectorsGoOn /\ sweep'.pc = "idle"
  BY <1>1 DEF InspectorsGoOn, Studio!IdleSweep
<1> QED
  BY <1>1, <1>3, <1>4, <1>5, DraftStep

-----------------------------------------------------------------------------
(* The steps that bring a master in or send one away.                      *)

LEMMA CreateKeeps ==
    ASSUME Studio!CoverSizes, StudioInv, NEW d \in Requests, NEW source \in {"new_upload", "existing_upload"},
           Studio!Create(d, source)
    PROVE  StudioInv'
<1>1. UNCHANGED <<raw, masterRow, masterObject, active, put, inspector, sweep>> /\ drafts[d].state = "none"
  BY DEF Studio!Create
<1>2. /\ drafts' \in [Requests -> DraftRow] /\ \A e \in Requests : e # d => drafts'[e] = drafts[e]
      /\ drafts'[d].key = FALSE
      /\ \/ /\ source = "new_upload" /\ drafts'[d].source = source
            /\ drafts'[d].state = "reserved" /\ drafts'[d].master = NoOne
         \/ /\ source = "existing_upload" /\ drafts'[d].source = source
            /\ drafts'[d].state = "ready" /\ drafts'[d].master = active /\ active # NoOne
  <2>1. CASE source = "new_upload"
    <3>1. drafts' = [drafts EXCEPT ![d] = [Studio!NoDraft EXCEPT !.state = "reserved"]]
      BY <2>1 DEF Studio!Create
    <3> QED
      BY <2>1, <3>1 DEF StudioInv, StudioTypes, DraftRow, Studio!NoDraft, Studio!Live
  <2>2. CASE source = "existing_upload"
    <3>2. active \in Masters /\ active # NoOne
      BY <2>2 DEF Studio!Create, StudioInv, StudioTypes
    <3>3. drafts' = [drafts EXCEPT ![d] = [state |-> "ready", source |-> source, key |-> FALSE, master |-> active]]
      BY <2>2 DEF Studio!Create
    <3> QED
      BY <2>2, <3>2, <3>3 DEF StudioInv, StudioTypes, DraftRow, Studio!Live
  <2> QED
    BY <2>1, <2>2
<1>3. StudioTypes' /\ StudioBusy'
  BY <1>1, <1>2 DEF StudioInv, StudioTypes, StudioBusy
<1>4. MastersPointed' /\ FromUploads'
  BY <1>1, <1>2 DEF StudioInv, MastersPointed, FromUploads, Studio!LiveMasterKept, StudioTypes
<1>5. MastersApart'
  BY <1>1 DEF StudioInv, MastersApart, HasMaster
<1>6. Unpublished'
  BY <1>1, <1>2 DEF StudioInv, Unpublished, MastersApart, HasMaster, Studio!CoverSizes
<1>7. Studio!LiveMasterKept'
  BY <1>1, <1>2 DEF StudioInv, Studio!LiveMasterKept, Studio!CoverSizes, StudioTypes
<1>8. SweptIsOver'
  BY <1>1, <1>2 DEF StudioInv, SweptIsOver, Studio!Collectable, Studio!InSet, Studio!LiveDrafts,
     Studio!CoverSizes
<1>9. RoomKept'
  <2>1. CASE source = "new_upload"
    <3>1. Studio!ChargedDrafts' \subseteq Studio!ChargedDrafts \cup {d}
      BY <1>2 DEF Studio!ChargedDrafts, Studio!Charged
    <3>2. IsFiniteSet(Studio!ChargedDrafts) /\ Cardinality(Studio!ChargedDrafts) \in Nat
      BY FS_Subset, FS_CardinalityType, StudioFinite DEF Studio!ChargedDrafts, Studio!CoverSizes
    <3>3. /\ IsFiniteSet(Studio!ChargedDrafts \cup {d})
          /\ Cardinality(Studio!ChargedDrafts \cup {d}) <= Cardinality(Studio!ChargedDrafts) + 1
      BY <3>2, FS_AddElement
    <3>4. Cardinality(Studio!ChargedDrafts') <= Cardinality(Studio!ChargedDrafts \cup {d})
          /\ Cardinality(Studio!ChargedDrafts') \in Nat /\ Cardinality(Studio!ChargedDrafts \cup {d}) \in Nat
      BY <3>1, <3>3, FS_Subset, FS_CardinalityType
    <3>5. Cardinality(Studio!ChargedDrafts) + 1 <= RawCap
      BY <2>1, StudioCardinality DEF Studio!Create, Studio!Room
    <3> QED
      BY <3>2, <3>3, <3>4, <3>5 DEF RoomKept, Studio!CoverSizes
  <2>2. CASE source = "existing_upload"
    <3>1. \A e \in Requests : Studio!Charged(e)' => Studio!Charged(e)
      BY <1>2, <2>2 DEF Studio!Charged
    <3> QED
      BY <3>1, RoomStays
  <2> QED
    BY <2>1, <2>2
<1> QED
  BY <1>3, <1>4, <1>5, <1>6, <1>7, <1>8, <1>9 DEF StudioInv

LEMMA NormalizeKeeps ==
    ASSUME Studio!CoverSizes, StudioInv, NEW i \in Inspectors, NEW m \in Masters, Studio!Normalize(i, m)
    PROVE  StudioInv'
<1>1. /\ UNCHANGED <<drafts, raw, masterRow, active, put, sweep>> /\ masterObject' = masterObject \cup {m}
      /\ inspector[i].pc = "read" /\ Studio!Unused(m)
  BY DEF Studio!Normalize
<1>2. /\ inspector' \in [Inspectors -> InspectorRow] /\ \A j \in Inspectors : j # i => inspector'[j] = inspector[j]
      /\ inspector'[i].pc = "written" /\ inspector'[i].master = m /\ inspector'[i].draft = inspector[i].draft
  <2>1. inspector[i] \in InspectorRow
    BY DEF StudioInv, StudioTypes
  <2>2. inspector' = [inspector EXCEPT ![i] = [[inspector[i] EXCEPT !.pc = "written"] EXCEPT !.master = m]]
    BY <2>1 DEF Studio!Normalize, StudioInv, StudioTypes, InspectorRow
  <2>3. \E r \in InspectorRow : /\ inspector' = [inspector EXCEPT ![i] = r] /\ r.pc = "written"
                                /\ r.master = m /\ r.draft = inspector[i].draft
    <3> DEFINE r == [[inspector[i] EXCEPT !.pc = "written"] EXCEPT !.master = m]
    <3>1. r \in InspectorRow /\ r.pc = "written" /\ r.master = m /\ r.draft = inspector[i].draft
      BY <2>1 DEF InspectorRow
    <3> QED
      BY <2>2, <3>1
  <2> QED
    BY <2>3 DEF StudioInv, StudioTypes
<1>3. StudioTypes' /\ StudioBusy'
  BY <1>1, <1>2 DEF StudioInv, StudioTypes, StudioBusy
<1>4. MastersPointed' /\ FromUploads' /\ Studio!LiveMasterKept' /\ SweptIsOver' /\ RoomKept'
  BY <1>1 DEF StudioInv, MastersPointed, FromUploads, Studio!LiveMasterKept, SweptIsOver,
     Studio!Collectable, Studio!InSet, Studio!LiveDrafts,
              RoomKept, Studio!ChargedDrafts, Studio!Charged
<1>5. MastersApart'
  BY <1>1, <1>2 DEF StudioInv, MastersApart, HasMaster, Studio!Unused
<1>6. Unpublished'
  BY <1>1, <1>2 DEF StudioInv, Unpublished, Studio!Unused
<1> QED
  BY <1>3, <1>4, <1>5, <1>6 DEF StudioInv

LEMMA InsertMasterKeeps ==
    ASSUME Studio!CoverSizes, StudioInv, NEW i \in Inspectors, Studio!InsertMaster(i) PROVE StudioInv'
<1> DEFINE m == inspector[i].master
<1>1. /\ UNCHANGED <<drafts, raw, masterObject, active, put, sweep>> /\ inspector[i].pc = "written"
      /\ masterRow' = [masterRow EXCEPT ![m] = "kept"]
  BY DEF Studio!InsertMaster
<1>2. m \in Masters /\ masterRow[m] = "none" /\ m \in masterObject
  BY <1>1 DEF StudioInv, MastersApart, HasMaster, Unpublished
<1>3. m # active /\ \A d \in Requests : drafts[d].master # m
  BY <1>2 DEF StudioInv, Studio!LiveMasterKept, MastersPointed, Studio!CoverSizes
<1>4. /\ inspector' \in [Inspectors -> InspectorRow] /\ \A j \in Inspectors : j # i => inspector'[j] = inspector[j]
      /\ inspector'[i].pc = "inserted" /\ inspector'[i].master = m /\ inspector'[i].draft = inspector[i].draft
  BY DEF Studio!InsertMaster, StudioInv, StudioTypes, InspectorRow
<1>5. /\ masterRow' \in [Masters -> {"none", "kept", "scheduled", "deleted"}] /\ masterRow'[m] = "kept"
      /\ \A n \in Masters : n # m => masterRow'[n] = masterRow[n]
  BY <1>1, <1>2 DEF StudioInv, StudioTypes
<1> HIDE DEF m
<1>6. StudioTypes' /\ StudioBusy'
  BY <1>1, <1>4, <1>5 DEF StudioInv, StudioTypes, StudioBusy
<1>7. MastersPointed' /\ FromUploads' /\ RoomKept'
  BY <1>1, <1>3, <1>5 DEF StudioInv, StudioTypes, DraftRow, MastersPointed, FromUploads, RoomKept,
     Studio!ChargedDrafts, Studio!Charged
<1>8. Studio!LiveMasterKept' /\ SweptIsOver'
  BY <1>1, <1>2, <1>3, <1>5 DEF StudioInv, Studio!LiveMasterKept, SweptIsOver, Studio!Collectable,
     Studio!InSet, Studio!LiveDrafts
<1>9. MastersApart'
  BY <1>1, <1>4 DEF StudioInv, MastersApart, HasMaster, m
<1>10. Unpublished'
  <2>1. \A j \in Inspectors : j # i /\ inspector[j].pc \in {"written", "inserted"} =>
           inspector[j].master \in Masters /\ inspector[j].master # m
    BY <1>2 DEF StudioInv, MastersApart, HasMaster, Studio!CoverSizes, m
  <2> QED
    BY <1>1, <1>2, <1>3, <1>4, <1>5, <2>1 DEF StudioInv, Unpublished
<1> QED
  BY <1>6, <1>7, <1>8, <1>9, <1>10 DEF StudioInv

LEMMA SweepMasterKeeps ==
    ASSUME Studio!CoverSizes, StudioInv, NEW m \in Masters, Studio!SweepMaster(m)
    PROVE  StudioInv'
<1>1. /\ UNCHANGED <<drafts, raw, masterRow, masterObject, active, put, inspector>> /\ Studio!Collectable(m)
      /\ sweep' = [pc |-> "master", of |-> m]
  BY DEF Studio!SweepMaster
<1>2. StudioTypes' /\ StudioBusy'
  BY <1>1 DEF StudioInv, StudioTypes, StudioBusy
<1>3. MastersPointed' /\ FromUploads' /\ RoomKept' /\ Studio!LiveMasterKept' /\ MastersApart' /\ Unpublished'
  BY <1>1 DEF StudioInv, MastersPointed, FromUploads, RoomKept, Studio!ChargedDrafts,
     Studio!Charged,
     Studio!LiveMasterKept, MastersApart, HasMaster,
              Unpublished
<1>4. SweptIsOver'
  BY <1>1 DEF SweptIsOver, Studio!Collectable, Studio!InSet, Studio!LiveDrafts
<1> QED
  BY <1>2, <1>3, <1>4 DEF StudioInv

LEMMA DropMasterKeeps == ASSUME Studio!CoverSizes, StudioInv, Studio!DropMaster PROVE StudioInv'
<1>1. /\ UNCHANGED <<drafts, raw, masterRow, active, put, inspector>> /\ sweep.pc = "master"
      /\ masterObject' = masterObject \ {sweep.of} /\ sweep' = [sweep EXCEPT !.pc = "row"]
  BY DEF Studio!DropMaster
<1>2. sweep.of \in Masters /\ Studio!Collectable(sweep.of)
  BY <1>1 DEF StudioInv, SweptIsOver
<1>3. /\ sweep' \in [pc: {"idle", "release", "master", "row"}, of: Requests \cup Masters \cup {NoOne}]
      /\ sweep'.pc = "row" /\ sweep'.of = sweep.of
  BY <1>1 DEF StudioInv, StudioTypes
<1>4. StudioTypes' /\ StudioBusy'
  BY <1>1, <1>3 DEF StudioInv, StudioTypes, StudioBusy
<1>5. MastersPointed' /\ FromUploads' /\ RoomKept' /\ MastersApart'
  BY <1>1 DEF StudioInv, MastersPointed, FromUploads, RoomKept, Studio!ChargedDrafts,
     Studio!Charged, MastersApart,
     HasMaster
<1>6. Studio!LiveMasterKept'
  BY <1>1, <1>2 DEF StudioInv, Studio!LiveMasterKept, Studio!Collectable, Studio!InSet,
     Studio!LiveDrafts, Studio!Live
<1>7. Unpublished'
  BY <1>1, <1>2 DEF StudioInv, Unpublished, Studio!Collectable
<1>8. SweptIsOver'
  BY <1>1, <1>2, <1>3 DEF SweptIsOver, Studio!Collectable, Studio!InSet, Studio!LiveDrafts
<1> QED
  BY <1>4, <1>5, <1>6, <1>7, <1>8 DEF StudioInv

LEMMA DropMasterRowKeeps ==
    ASSUME Studio!CoverSizes, StudioInv, Studio!DropMasterRow
    PROVE  StudioInv'
<1> DEFINE m == sweep.of
<1>1. /\ UNCHANGED <<raw, masterObject, active, put, inspector>> /\ sweep.pc = "row"
      /\ drafts' = Studio!Unpointed(m) /\ masterRow' = [masterRow EXCEPT ![m] = "deleted"] /\ sweep' = Studio!IdleSweep
  BY DEF Studio!DropMasterRow
<1>2. m \in Masters /\ Studio!Collectable(m)
  BY <1>1 DEF StudioInv, SweptIsOver
<1>3. /\ masterRow' \in [Masters -> {"none", "kept", "scheduled", "deleted"}]
      /\ \A n \in Masters : n # m => masterRow'[n] = masterRow[n]
  BY <1>1, <1>2 DEF StudioInv, StudioTypes
<1>4. /\ drafts' \in [Requests -> DraftRow]
      /\ \A d \in Requests : /\ drafts'[d].state = drafts[d].state /\ drafts'[d].source = drafts[d].source
                             /\ drafts'[d].key = drafts[d].key
                             /\ \/ drafts[d].master = m /\ drafts'[d].master = NoOne
                                \/ drafts[d].master # m /\ drafts'[d].master = drafts[d].master
  <2>1. drafts' = [d \in Requests |-> drafts'[d]]
    BY <1>1 DEF Studio!Unpointed
  <2>2. ASSUME NEW d \in Requests
        PROVE  /\ drafts'[d] \in DraftRow
               /\ drafts'[d].state = drafts[d].state /\ drafts'[d].source = drafts[d].source
               /\ drafts'[d].key = drafts[d].key
               /\ \/ drafts[d].master = m /\ drafts'[d].master = NoOne
                  \/ drafts[d].master # m /\ drafts'[d].master = drafts[d].master
    <3>1. drafts[d] \in DraftRow
      BY DEF StudioInv, StudioTypes
    <3>2. \/ drafts[d].master = m /\ drafts'[d] = [drafts[d] EXCEPT !.master = NoOne]
          \/ drafts[d].master # m /\ drafts'[d] = drafts[d]
      BY <1>1, <1>2 DEF Studio!Unpointed, Studio!Collectable, Studio!LiveDrafts
    <3> HIDE DEF m
    <3> QED
      BY <3>1, <3>2 DEF DraftRow
  <2> QED
    BY <2>1, <2>2
<1> HIDE DEF m
<1>5. StudioTypes' /\ StudioBusy'
  BY <1>1, <1>3, <1>4 DEF StudioInv, StudioTypes, StudioBusy, Studio!IdleSweep
<1>6. MastersPointed' /\ FromUploads' /\ RoomKept'
  <2>1. Studio!ChargedDrafts' = Studio!ChargedDrafts
    BY <1>4 DEF Studio!ChargedDrafts, Studio!Charged
  <2> QED
    BY <1>1, <1>3, <1>4, <2>1 DEF StudioInv, StudioTypes, DraftRow, MastersPointed, FromUploads,
       RoomKept
<1>7. Studio!LiveMasterKept'
  <2> SUFFICES ASSUME NEW n \in Masters,
                      n = active' \/ \E d \in Requests : drafts'[d].state \in {"inspected", "ready", "publishing"}
                                                       /\ drafts'[d].master = n
               PROVE  n \in masterObject' /\ masterRow'[n] \in {"kept", "scheduled"}
    BY DEF Studio!LiveMasterKept
  <2>1. \/ n = active
        \/ \E d \in Requests : drafts[d].state \in {"inspected", "ready", "publishing"} /\ drafts[d].master = n
    BY <1>1, <1>4 DEF Studio!CoverSizes
  <2>2. n # m
    BY <1>2, <2>1 DEF Studio!Collectable, Studio!InSet, Studio!LiveDrafts, Studio!Live
  <2> QED
    BY <1>1, <1>3, <2>1, <2>2 DEF StudioInv, Studio!LiveMasterKept
<1>8. MastersApart' /\ SweptIsOver'
  BY <1>1 DEF StudioInv, MastersApart, HasMaster, SweptIsOver, Studio!IdleSweep
<1>9. Unpublished'
  <2>1. masterRow[m] = "scheduled"
    BY <1>2 DEF Studio!Collectable
  <2> QED
    BY <1>1, <1>3, <1>4, <2>1 DEF StudioInv, Unpublished, MastersApart, HasMaster, Studio!CoverSizes
<1> QED
  BY <1>5, <1>6, <1>7, <1>8, <1>9 DEF StudioInv

LEMMA AdoptKeeps ==
    ASSUME Studio!CoverSizes, StudioInv, NEW i \in Inspectors, Studio!Adopt(i)
    PROVE  StudioInv'
<1> DEFINE d == inspector[i].draft
           m == inspector[i].master
           ok == inspector[i].fresh /\ drafts[d].state = "transferred" /\ drafts[d].master = NoOne
<1>1. UNCHANGED <<raw, masterRow, masterObject, active, sweep>> /\ inspector[i].pc = "inserted" /\ d \in Requests
  BY DEF Studio!Adopt, StudioInv, StudioBusy
<1>2. /\ m \in Masters /\ masterRow[m] = "kept" /\ m # active /\ m \in masterObject
      /\ \A e \in Requests : drafts[e].master # m
  BY <1>1 DEF StudioInv, MastersApart, HasMaster, Unpublished
<1>3. inspector[i] \in InspectorRow /\ ok \in BOOLEAN
  BY DEF StudioInv, StudioTypes, InspectorRow
<1>4. /\ put' \in [Puts -> PutRow]
      /\ \A p \in Puts : put'[p].pc = put[p].pc /\ put'[p].draft = put[p].draft
  <2>1. put' = [p \in Puts |-> IF ok /\ put[p].draft = d THEN [put[p] EXCEPT !.fresh = FALSE] ELSE put[p]]
    BY DEF Studio!Adopt
  <2> HIDE DEF d, ok
  <2> QED
    BY <1>3, <2>1, PutsGoStale
<1>5. /\ inspector' = [j \in Inspectors |-> inspector'[j]]
      /\ inspector'[i] = IF ok THEN [inspector[i] EXCEPT !.pc = "adopted"] ELSE Studio!IdleInspector
  BY DEF Studio!Adopt
<1>6. ASSUME NEW j \in Inspectors, j # i
      PROVE  /\ inspector'[j] \in InspectorRow /\ inspector'[j].pc = inspector[j].pc
             /\ inspector'[j].draft = inspector[j].draft /\ inspector'[j].master = inspector[j].master
  <2>1. inspector'[j] = IF ok /\ inspector[j].draft = d THEN [inspector[j] EXCEPT !.fresh = FALSE] ELSE inspector[j]
    BY <1>6 DEF Studio!Adopt
  <2> HIDE DEF d, ok
  <2> QED
    BY <1>3, <2>1, InspectorsGoStale
<1>7. /\ inspector'[i] \in InspectorRow
      /\ \/ ok /\ inspector'[i].pc = "adopted" /\ inspector'[i].draft = d /\ inspector'[i].master = m
         \/ ~ok /\ inspector'[i].pc = "idle" /\ inspector'[i].master = NoOne
  BY <1>3, <1>5 DEF InspectorRow, Studio!IdleInspector
<1>8. drafts' = IF ok THEN [drafts EXCEPT ![d].state = "inspected", ![d].master = m] ELSE drafts
  BY DEF Studio!Adopt
<1>9. /\ drafts' \in [Requests -> DraftRow] /\ \A e \in Requests : e # d => drafts'[e] = drafts[e]
      /\ drafts'[d].source = drafts[d].source /\ drafts'[d].key = drafts[d].key
      /\ \/ ok /\ drafts'[d].state = "inspected" /\ drafts'[d].master = m
         \/ ~ok /\ drafts'[d].state = drafts[d].state /\ drafts'[d].master = drafts[d].master
  BY <1>1, <1>2, <1>8 DEF StudioInv, StudioTypes, DraftRow, Studio!Live
<1>10. ok => drafts[d].state = "transferred"
  OBVIOUS
<1> HIDE DEF d, m, ok
<1>11. inspector' \in [Inspectors -> InspectorRow]
  BY <1>5, <1>6, <1>7
<1>12. StudioTypes' /\ StudioBusy'
  BY <1>1, <1>4, <1>6, <1>7, <1>9, <1>11 DEF StudioInv, StudioTypes, StudioBusy
<1>13. MastersPointed' /\ FromUploads'
  BY <1>1, <1>2, <1>9 DEF StudioInv, MastersPointed, FromUploads
<1>14. RoomKept'
  <2>1. \A e \in Requests : Studio!Charged(e)' => Studio!Charged(e)
    BY <1>9 DEF Studio!Charged
  <2> QED
    BY <2>1, RoomStays
<1>15. Studio!LiveMasterKept'
  BY <1>1, <1>2, <1>9, <1>10 DEF StudioInv, Studio!LiveMasterKept
<1>16. SweptIsOver'
  <2>1. ASSUME sweep.pc \in {"master", "row"}
        PROVE  sweep.of \in Masters /\ Studio!Collectable(sweep.of) /\ sweep.of # m
    BY <1>2, <2>1 DEF StudioInv, SweptIsOver, Studio!Collectable
  <2> QED
    BY <1>1, <1>9, <2>1 DEF SweptIsOver, Studio!Collectable, Studio!InSet, Studio!LiveDrafts
<1>17. \A j \in Inspectors : j # i => inspector[j].master # m
  BY <1>2 DEF StudioInv, MastersApart, Studio!CoverSizes, m
<1>18. MastersApart'
  BY <1>2, <1>6, <1>7, <1>17 DEF StudioInv, MastersApart, HasMaster
<1>19. Unpublished'
  BY <1>1, <1>6, <1>7, <1>9, <1>17 DEF StudioInv, Unpublished
<1> QED
  BY <1>12, <1>13, <1>14, <1>15, <1>16, <1>18, <1>19 DEF StudioInv

-----------------------------------------------------------------------------
(* The drafts.                                                             *)

LEMMA StudioSteps == ASSUME Studio!CoverSizes, StudioInv, Studio!Next PROVE StudioInv'
<1>1. CASE \E p \in Puts : Studio!PutStep(p)
  BY <1>1, PutStepWeakens, StudioWeakerKeeps
<1>2. ASSUME NEW i \in Inspectors, Studio!InspectorStep(i) PROVE StudioInv'
  <2>1. CASE InspectorActs(i)
    BY <2>1, InspectorActsWeaken, StudioWeakerKeeps
  <2>2. CASE Studio!FailInspection(i) \/ Studio!ClearRaw(i) \/ Studio!ScheduleMaster(i)
    BY <2>2, FailInspectionWeakens, ClearRawWeakens, ScheduleMasterWeakens, StudioWeakerKeeps
  <2>3. CASE \E m \in Masters : Studio!Normalize(i, m)
    BY <2>3, NormalizeKeeps
  <2>4. CASE Studio!InsertMaster(i) \/ Studio!Adopt(i)
    BY <2>4, InsertMasterKeeps, AdoptKeeps
  <2> QED
    BY <1>2, <2>1, <2>2, <2>3, <2>4 DEF Studio!InspectorStep, InspectorActs
<1>3. ASSUME NEW d \in Requests, Studio!HostStep(d) \/ Studio!Outcome(d) PROVE StudioInv'
  <2>1. CASE HostActs(d)
    BY <2>1, HostActsWeaken, StudioWeakerKeeps
  <2>2. CASE Studio!Discard(d) \/ Studio!Publish(d)
    BY <2>2, DiscardWeakens, PublishWeakens, StudioWeakerKeeps
  <2>3. CASE \E source \in {"new_upload", "existing_upload"} : Studio!Create(d, source)
    BY <2>3, CreateKeeps
  <2> QED
    BY <1>3, <2>1, <2>2, <2>3 DEF Studio!HostStep, Studio!Outcome, HostActs
<1>4. CASE Studio!Displace
  BY <1>4, DisplaceWeakens, StudioWeakerKeeps
<1>5. CASE Studio!SweepStep
  <2>1. CASE \E d \in Requests : Studio!Expire(d) \/ Studio!SweepRaw(d) \/ Studio!Release(d, "failed")
    BY <2>1, HostActsWeaken, SweepRawWeakens, StudioWeakerKeeps DEF HostActs
  <2>2. CASE \E m \in Masters : Studio!SweepMaster(m)
    BY <2>2, SweepMasterKeeps
  <2>3. CASE Studio!ReleaseRaw
    BY <2>3, ReleaseRawWeakens, StudioWeakerKeeps
  <2>4. CASE Studio!DropMaster \/ Studio!DropMasterRow
    BY <2>4, DropMasterKeeps, DropMasterRowKeeps
  <2> QED
    BY <1>5, <2>1, <2>2, <2>3, <2>4 DEF Studio!SweepStep
<1> QED
  BY <1>1, <1>2, <1>3, <1>4, <1>5 DEF Studio!Next

LEMMA StudioStays == ASSUME Studio!CoverSizes, StudioInv, [Studio!Next]_Studio!vars PROVE StudioInv'
<1>1. CASE Studio!Next
  BY <1>1, StudioSteps
<1>2. CASE UNCHANGED Studio!vars
  <2>1. DraftsOnlyEnd /\ MastersOnlyScheduled /\ ActiveFollows /\ InspectorsGoOn
    BY <1>2 DEF Studio!vars, DraftsOnlyEnd, Studio!Charged, MastersOnlyScheduled, ActiveFollows,
       InspectorsGoOn
  <2>2. StudioTypes' /\ StudioBusy' /\ FromUploads'
    BY <1>2 DEF Studio!vars, StudioInv, StudioTypes, StudioBusy, FromUploads
  <2>3. masterObject' = masterObject /\ sweep' = sweep
    BY <1>2 DEF Studio!vars
  <2>4. StudioWeaker
    BY <2>1, <2>2, <2>3 DEF StudioWeaker
  <2> QED
    BY <2>4, StudioWeakerKeeps
<1> QED
  BY <1>1, <1>2

LEMMA StudioBounds ==
    ASSUME Studio!CoverSizes, StudioInv
    PROVE  Studio!TypeOK /\ Studio!LiveMasterKept /\ Studio!StoredBounded
<1>1. Studio!TypeOK /\ Studio!LiveMasterKept
  BY StudioTyped DEF StudioInv
<1>2. {d \in Requests : drafts[d].key} \subseteq Studio!ChargedDrafts
  BY DEF Studio!ChargedDrafts, Studio!Charged
<1>3. IsFiniteSet(Studio!ChargedDrafts) /\ Cardinality(Studio!ChargedDrafts) \in Nat
  BY FS_Subset, FS_CardinalityType, StudioFinite DEF Studio!ChargedDrafts, Studio!CoverSizes
<1>4. /\ Cardinality({d \in Requests : drafts[d].key}) <= Cardinality(Studio!ChargedDrafts)
      /\ Cardinality({d \in Requests : drafts[d].key}) \in Nat
  BY <1>2, <1>3, FS_Subset, FS_CardinalityType
<1> QED
  BY <1>1, <1>3, <1>4, StudioCardinality DEF Studio!StoredBounded, StudioInv, RoomKept,
     Studio!CoverSizes

\* However uploads, inspections, discards, publications and sweeps meet, a draft that
\* can still be published and the cover the event shows keep their master, and the
\* event points at no more raw bytes than its cap.
THEOREM DraftsAreKept == Studio!Spec => []DraftsKept
<1>1. Studio!Init => StudioInv
  BY StudioStarts, StudioSizes
<1>2. StudioInv /\ [Studio!Next]_(Studio!vars) => StudioInv'
  BY StudioStays, StudioSizes
<1>3. StudioInv => DraftsKept
  BY StudioBounds, StudioSizes DEF DraftsKept
<1> QED
  BY <1>1, <1>2, <1>3, PTL DEF Studio!Spec
=============================================================================
