------------------------ MODULE MediaLifecycleProofs ------------------------
(***************************************************************************)
(* The photographs of an event, for every set of photos, handlers and      *)
(* passes and every bound on jobs and attempts.  They are well typed, no   *)
(* photo dangles, and no export loses its sources: TypeOK and Integrity    *)
(* are inductive invariants of MediaLifecycle.  Its books are right: the   *)
(* counters are what the rows amount to, the capacity is never exceeded,   *)
(* and what the promoter and the upload handlers will need is written      *)
(* down.  And its steps keep the promise made to users in PhotoPromise.    *)
(*                                                                         *)
(* Accounted is not inductive.  That a reservation keeps its promotion and *)
(* its aliases depends on who may still retire them: a handoff (only of a  *)
(* promotion whose reservation expired or whose photo was delivered), and  *)
(* a pass that gives a source up (only of a photo that was delivered).     *)
(***************************************************************************)
EXTENDS MediaLifecycle, FiniteSetTheorems, TLAPS

(***************************************************************************)
(* Types.                                                                  *)
(***************************************************************************)
\* Changing one field of a record keeps its type.
LEMMA RowFields ==
    ASSUME NEW r \in Row
    PROVE  /\ \A s \in RowStates : [r EXCEPT !.state = s] \in Row
           /\ \A k \in Keys : [r EXCEPT !.ptr = k] \in Row
           /\ \A x \in BOOLEAN : [r EXCEPT !.expired = x] \in Row
           /\ \A t \in {"no", "restorable", "lapsed"} : [r EXCEPT !.trash = t] \in Row
BY DEF Row

LEMMA PromotionFields ==
    ASSUME NEW q \in Promotion
    PROVE  /\ \A s \in {"none", "pending", "copying", "target_verified", "cleanup_pending"} :
                [q EXCEPT !.state = s] \in Promotion
           /\ \A k \in {"none", "buffer", "copy"} : [q EXCEPT !.kind = k] \in Promotion
           /\ \A d \in Bytes : [q EXCEPT !.digest = d] \in Promotion
           /\ \A t \in Tokens : [q EXCEPT !.token = t] \in Promotion
           /\ \A x \in BOOLEAN : [q EXCEPT !.lease = x] \in Promotion
           /\ \A x \in BOOLEAN : [q EXCEPT !.committed = x] \in Promotion
BY DEF Promotion

LEMMA RequestFields ==
    ASSUME NEW r \in Request
    PROVE  \A s \in {"idle", "claim", "ensure", "putting", "commit"} :
              [r EXCEPT !.pc = s] \in Request
BY DEF Request

LEMMA PassFields ==
    ASSUME NEW q \in Pass
    PROVE  /\ \A s \in PassStates : [q EXCEPT !.pc = s] \in Pass
           /\ \A t \in Tokens : [q EXCEPT !.token = t] \in Pass
           /\ \A d \in Bytes : [q EXCEPT !.digest = d] \in Pass
BY DEF Pass

LEMMA JobFields ==
    ASSUME NEW j \in Job
    PROVE  /\ \A s \in {"none", "queued", "running", "ready", "failed", "expired"} :
                [j EXCEPT !.state = s] \in Job
           /\ j.attempt < MaxAttempts => [j EXCEPT !.attempt = @ + 1] \in Job
BY JobAssumption DEF Job

USE DEF Keys, Bytes, Tokens, Buckets, RowStates

\* The values a process or a photo is reset to have their types.
LEMMA ResetTypes ==
    /\ NoRow \in Row /\ NoPromotion \in Promotion /\ PendingPromotion \in Promotion
    /\ IdleRequest \in Request /\ IdlePass \in Pass /\ NoJob \in Job
<1>1. (CHOOSE m \in Media : TRUE) \in Media
  BY MediaAssumption
<1>2. (CHOOSE d \in Digests : TRUE) \in Digests
  BY BytesAssumption
<1>3. NoRow \in Row
  BY DEF NoRow, Row
<1>4. NoPromotion \in Promotion /\ PendingPromotion \in Promotion
  BY DEF NoPromotion, PendingPromotion, Promotion
<1>5. IdleRequest \in Request
  BY <1>1, <1>2 DEF IdleRequest, Request
<1>6. IdlePass \in Pass
  BY <1>1 DEF IdlePass, Pass, PassStates
<1>7. NoJob \in Job
  BY JobAssumption DEF NoJob, Job
<1> QED
  BY <1>3, <1>4, <1>5, <1>6, <1>7

\* The photos of a bucket, and any other set of photos, have a size.
LEMMA TallyTypes ==
    ASSUME NEW S \in SUBSET Media
    PROVE  Cardinality(S) \in Nat /\ Weight[S] \in Nat
<1>1. IsFiniteSet(S)
  BY FS_Subset, MediaAssumption
<1> QED
  BY <1>1, FS_CardinalityType, WeightAssumption

LEMMA RecountType ==
    ASSUME TypeOK, NEW m \in Media, NEW to, Recount(m, to)
    PROVE  counts' \in [Buckets -> Int] /\ bytes' \in [Buckets -> Int]
<1>1. Size(m) \in Int
  BY TallyTypes, {m} \in SUBSET Media DEF Size
<1> QED
  BY <1>1 DEF Recount, Moved, TypeOK

LEMMA InitTyped == Init => TypeOK
<1> SUFFICES ASSUME NEW old \in SUBSET LegacyMedia, InitWith(old) PROVE TypeOK
  BY DEF Init
<1>1. old \in SUBSET Media
  BY MediaAssumption
<1>2. counts \in [Buckets -> Int] /\ bytes \in [Buckets -> Int]
  BY <1>1, TallyTypes DEF InitWith
<1>3. row \in [Media -> Row]
  BY ResetTypes DEF InitWith, Row, NoRow
<1>4. /\ promo \in [Media -> Promotion] /\ req \in [Requests -> Request]
      /\ pass \in [Passes -> Pass] /\ job \in [JobIds -> Job]
  BY ResetTypes DEF InitWith
<1>5. object \in [Media -> [Keys -> Bytes]] /\ receipt \in [Media -> Bytes]
  BY BytesAssumption DEF InitWith
<1> QED
  BY <1>2, <1>3, <1>4, <1>5 DEF InitWith, TypeOK

\* Reservations, refreshes, sweeps and cancellations keep the types.
LEMMA ReservationStepTyped == TypeOK /\ ReservationStep => TypeOK'
<1> SUFFICES ASSUME TypeOK, ReservationStep PROVE TypeOK'
  OBVIOUS
<1> USE DEF processVars, eventVars
<1>1. CASE ToggleIntake
  BY <1>1 DEF ToggleIntake, TypeOK
<1>2. ASSUME NEW m \in Media, Reserve(m) PROVE TypeOK'
  <2>1. counts' \in [Buckets -> Int] /\ bytes' \in [Buckets -> Int]
    BY <1>2, RecountType DEF Reserve
  <2>2. row' \in [Media -> Row]
    BY <1>2, ResetTypes, RowFields DEF Reserve, TypeOK
  <2>3. promo' \in [Media -> Promotion]
    BY <1>2, ResetTypes DEF Reserve, TypeOK
  <2> QED
    BY <1>2, <2>1, <2>2, <2>3 DEF Reserve, TypeOK
<1>3. ASSUME NEW m \in Media, RefreshReserved(m) PROVE TypeOK'
  BY <1>3, RowFields DEF RefreshReserved, TypeOK
<1>4. ASSUME NEW m \in Media, RefreshFailed(m) PROVE TypeOK'
  <2>1. counts' \in [Buckets -> Int] /\ bytes' \in [Buckets -> Int]
    BY <1>4, RecountType DEF RefreshFailed
  <2>2. row' \in [Media -> Row]
    BY <1>4, RowFields DEF RefreshFailed, TypeOK
  <2> QED
    BY <1>4, <2>1, <2>2 DEF RefreshFailed, TypeOK
<1>5. ASSUME NEW m \in Media, ListExpired(m) PROVE TypeOK'
  BY <1>5 DEF ListExpired, TypeOK
<1>6. ASSUME NEW m \in Media, FailReservation(m) PROVE TypeOK'
  <2>1. CASE row[m].state = "reserved"
    <3>1. counts' \in [Buckets -> Int] /\ bytes' \in [Buckets -> Int]
      BY <1>6, <2>1, RecountType DEF FailReservation
    <3>2. row' = [row EXCEPT ![m].state = "failed"]
      BY <1>6, <2>1 DEF FailReservation
    <3>3. row' \in [Media -> Row]
      BY <3>2, RowFields DEF TypeOK
    <3> QED
      BY <1>6, <3>1, <3>3 DEF FailReservation, TypeOK
  <2>2. CASE row[m].state # "reserved"
    BY <1>6, <2>2 DEF FailReservation, TypeOK
  <2> QED
    BY <2>1, <2>2
<1>7. ASSUME NEW m \in Media, CancelReservation(m) PROVE TypeOK'
  <2>1. counts' \in [Buckets -> Int] /\ bytes' \in [Buckets -> Int]
    BY <1>7, RecountType DEF CancelReservation
  <2>2. row' \in [Media -> Row]
    BY <1>7, RowFields DEF CancelReservation, TypeOK
  <2>3. promo' \in [Media -> Promotion]
    BY <1>7, ResetTypes DEF CancelReservation, TypeOK
  <2>4. suppressed' \in [Media -> SUBSET Keys]
    BY <1>7 DEF CancelReservation, TypeOK
  <2> QED
    BY <1>7, <2>1, <2>2, <2>3, <2>4 DEF CancelReservation, TypeOK
<1>8. ASSUME NEW m \in Media, ReservationDeadline(m) PROVE TypeOK'
  BY <1>8, RowFields DEF ReservationDeadline, TypeOK
<1> QED
  BY <1>1, <1>2, <1>3, <1>4, <1>5, <1>6, <1>7, <1>8 DEF ReservationStep

\* The upload handlers, the PUTs and the leases keep the types.
LEMMA IngressStepTyped == TypeOK /\ IngressStep => TypeOK'
<1> SUFFICES ASSUME TypeOK, IngressStep PROVE TypeOK'
  OBVIOUS
<1> USE DEF processVars, eventVars
<1>1. ASSUME NEW w \in Requests, NEW m \in Media, NEW d \in Digests, StartIngress(w, m, d)
      PROVE TypeOK'
  BY <1>1 DEF StartIngress, TypeOK, Request
<1>2. ASSUME NEW w \in Requests, ClaimIngress(w) PROVE TypeOK'
  <2> DEFINE m == req[w].m  d == req[w].d
  <2>1. m \in Media /\ d \in Digests
    BY DEF TypeOK, Request
  <2>2. [state |-> "copying", kind |-> "buffer", digest |-> d,
         token |-> w, lease |-> TRUE, committed |-> FALSE] \in Promotion
    BY <2>1 DEF Promotion
  <2>3. promo' \in [Media -> Promotion]
    BY <1>2, <2>1, <2>2 DEF ClaimIngress, TypeOK
  <2>4. req' \in [Requests -> Request]
    BY <1>2, RequestFields DEF ClaimIngress, TypeOK
  <2> QED
    BY <1>2, <2>3, <2>4 DEF ClaimIngress, TypeOK
<1>3. ASSUME NEW w \in Requests, PutFinal(w) PROVE TypeOK'
  <2>1. req[w].m \in Media /\ req[w].d \in Digests
    BY DEF TypeOK, Request
  <2>2. req' \in [Requests -> Request]
    BY <1>3, RequestFields DEF PutFinal, TypeOK
  <2>3. inflight' \subseteq (Requests \cup Passes) \X Media \X Bytes
    BY <1>3, <2>1 DEF PutFinal, TypeOK
  <2> QED
    BY <1>3, <2>2, <2>3 DEF PutFinal, TypeOK
<1>4. ASSUME NEW w \in Requests, VerifyFinal(w) PROVE TypeOK'
  BY <1>4, RequestFields DEF VerifyFinal, TypeOK
<1>5. ASSUME NEW w \in Requests, CommitIngress(w) PROVE TypeOK'
  <2> DEFINE m == req[w].m
  <2>1. m \in Media /\ req[w].d \in Digests
    BY DEF TypeOK, Request
  <2>2. counts' \in [Buckets -> Int] /\ bytes' \in [Buckets -> Int]
    BY <1>5, <2>1, RecountType DEF CommitIngress
  <2>3. row' \in [Media -> Row] /\ receipt' \in [Media -> Bytes]
    BY <1>5, <2>1, RowFields DEF CommitIngress, TypeOK
  <2>4. promo' \in [Media -> Promotion]
    BY <1>5, <2>1, PromotionFields DEF CommitIngress, TypeOK
  <2>5. req' \in [Requests -> Request]
    BY <1>5, ResetTypes DEF CommitIngress, TypeOK
  <2> QED
    BY <1>5, <2>2, <2>3, <2>4, <2>5 DEF CommitIngress, TypeOK
<1>6. ASSUME NEW w \in Requests, RequestEnds(w) PROVE TypeOK'
  BY <1>6, ResetTypes DEF RequestEnds, TypeOK
<1>7. ASSUME NEW put \in inflight, PutLands(put) PROVE TypeOK'
  <2>1. put[2] \in Media /\ put[3] \in Bytes
    BY DEF TypeOK
  <2>2. object' \in [Media -> [Keys -> Bytes]]
    BY <1>7, <2>1 DEF PutLands, TypeOK
  <2> QED
    BY <1>7, <2>2 DEF PutLands, TypeOK
<1>8. ASSUME NEW put \in inflight, PutFails(put) PROVE TypeOK'
  BY <1>8 DEF PutFails, TypeOK
<1>9. ASSUME NEW m \in Media, LeaseDeadline(m) PROVE TypeOK'
  BY <1>9, PromotionFields DEF LeaseDeadline, TypeOK
<1> QED
  BY <1>1, <1>2, <1>3, <1>4, <1>5, <1>6, <1>7, <1>8, <1>9 DEF IngressStep

\* What a promoter pass reads of its candidate.
LEMMA PassReads ==
    ASSUME TypeOK, NEW p \in Passes
    PROVE  /\ pass[p] \in Pass /\ pass[p].m \in Media
           /\ pass[p].token \in Tokens /\ pass[p].digest \in Bytes
           /\ promo[pass[p].m] \in Promotion
BY DEF TypeOK, Pass

\* The promoter's steps keep the types.
LEMMA PromotionStepTyped == TypeOK /\ PromotionStep => TypeOK'
<1> SUFFICES ASSUME TypeOK, PromotionStep PROVE TypeOK'
  OBVIOUS
<1> USE DEF processVars, eventVars
<1>0. ASSUME NEW p \in Passes, Settled(p) PROVE pass' \in [Passes -> Pass]
  BY <1>0, ResetTypes DEF Settled, TypeOK
<1>00. ASSUME NEW p \in Passes, NEW s \in PassStates, Goes(p, s)
       PROVE pass' \in [Passes -> Pass]
  BY <1>00, PassFields DEF Goes, TypeOK
<1>1. ASSUME NEW p \in Passes, NEW m \in Media, PickCandidate(p, m) PROVE TypeOK'
  <2>1. Branch(promo[m]) \in PassStates
    BY DEF Branch, PassStates
  <2>2. promo[m].token \in Tokens /\ promo[m].digest \in Bytes
    BY DEF TypeOK, Promotion
  <2>3. [pc |-> Branch(promo[m]), m |-> m, token |-> promo[m].token,
         digest |-> promo[m].digest] \in Pass
    BY <2>1, <2>2 DEF Pass
  <2>4. pass' \in [Passes -> Pass]
    BY <1>1, <2>3 DEF PickCandidate, TypeOK
  <2> QED
    BY <1>1, <2>4 DEF PickCandidate, TypeOK
<1>2. ASSUME NEW p \in Passes, ClaimPromotion(p) PROVE TypeOK'
  <2>1. promo' \in [Media -> Promotion]
    BY <1>2, PassReads, PromotionFields DEF ClaimPromotion, TypeOK
  <2>2. promo[pass[p].m].digest \in Bytes
    BY PassReads DEF Promotion
  <2>3. pass' \in [Passes -> Pass]
    BY <1>2, <2>2, PassFields DEF ClaimPromotion, TypeOK, PassStates
  <2> QED
    BY <1>2, <2>1, <2>3 DEF ClaimPromotion, TypeOK
<1>3. ASSUME NEW p \in Passes, ClaimInactive(p) PROVE TypeOK'
  <2>1. promo' \in [Media -> Promotion]
    BY <1>3, PassReads, ResetTypes, PromotionFields DEF ClaimInactive, TypeOK
  <2>2. pass' \in [Passes -> Pass]
    BY <1>3, PassFields DEF ClaimInactive, TypeOK, PassStates
  <2> QED
    BY <1>3, <2>1, <2>2 DEF ClaimInactive, TypeOK
<1>4. ASSUME NEW p \in Passes, RecordSource(p) PROVE TypeOK'
  <2>1. object[pass[p].m]["source"] \in Bytes
    BY PassReads DEF TypeOK
  <2>2. promo' \in [Media -> Promotion]
    BY <1>4, <2>1, PassReads, PromotionFields DEF RecordSource, TypeOK
  <2>3. pass' \in [Passes -> Pass]
    BY <1>4, <2>1, PassFields DEF RecordSource, TypeOK, PassStates
  <2> QED
    BY <1>4, <2>2, <2>3 DEF RecordSource, TypeOK
<1>5. ASSUME NEW p \in Passes, ReleaseClaim(p) PROVE TypeOK'
  <2>1. promo' \in [Media -> Promotion]
    BY <1>5, ResetTypes DEF ReleaseClaim, TypeOK
  <2> QED
    BY <1>5, <1>0, <2>1 DEF ReleaseClaim, TypeOK
<1>6. ASSUME NEW p \in Passes, PutCopy(p) PROVE TypeOK'
  BY <1>6, PassReads, <1>00 DEF PutCopy, TypeOK, PassStates
<1>7. ASSUME NEW p \in Passes, VerifyCopy(p) PROVE TypeOK'
  BY <1>7, <1>00 DEF VerifyCopy, TypeOK, PassStates
<1>8. ASSUME NEW p \in Passes, MarkVerified(p) PROVE TypeOK'
  <2>1. promo' \in [Media -> Promotion]
    BY <1>8, PromotionFields DEF MarkVerified, TypeOK
  <2> QED
    BY <1>8, <1>00, <2>1 DEF MarkVerified, TypeOK, PassStates
<1>9. ASSUME NEW p \in Passes, CommitPointer(p) PROVE TypeOK'
  <2>1. promo' \in [Media -> Promotion]
    BY <1>9, PromotionFields DEF CommitPointer, TypeOK
  <2>2. row' \in [Media -> Row]
    BY <1>9, RowFields DEF CommitPointer, TypeOK
  <2> QED
    BY <1>9, <1>00, <2>1, <2>2 DEF CommitPointer, TypeOK, PassStates
<1>10. ASSUME NEW p \in Passes, ParkVerified(p) PROVE TypeOK'
  <2>1. promo' \in [Media -> Promotion]
    BY <1>10, PromotionFields DEF ParkVerified, TypeOK
  <2> QED
    BY <1>10, <1>00, <2>1 DEF ParkVerified, TypeOK, PassStates
<1>11. ASSUME NEW p \in Passes, ParkInactive(p) PROVE TypeOK'
  <2>1. promo' \in [Media -> Promotion]
    BY <1>11, PassReads, ResetTypes, PromotionFields DEF ParkInactive, TypeOK
  <2> QED
    BY <1>11, <1>00, <2>1 DEF ParkInactive, TypeOK, PassStates
<1>12. ASSUME NEW p \in Passes, InspectIngress(p) PROVE TypeOK'
  BY <1>12, <1>00 DEF InspectIngress, TypeOK, PassStates
<1>13. ASSUME NEW p \in Passes, AdoptFinal(p) PROVE TypeOK'
  <2>1. counts' \in [Buckets -> Int] /\ bytes' \in [Buckets -> Int]
    BY <1>13, PassReads, RecountType DEF AdoptFinal
  <2>2. row' \in [Media -> Row] /\ receipt' \in [Media -> Bytes]
    BY <1>13, PassReads, RowFields DEF AdoptFinal, TypeOK
  <2>3. promo' \in [Media -> Promotion]
    BY <1>13, PromotionFields DEF AdoptFinal, TypeOK
  <2> QED
    BY <1>13, <1>0, <2>1, <2>2, <2>3 DEF AdoptFinal, TypeOK
<1>14. ASSUME NEW p \in Passes, Handoff(p) PROVE TypeOK'
  <2>1. RetiredKeys(pass[p].m) \subseteq Keys
    BY DEF RetiredKeys
  <2>2. suppressed' \in [Media -> SUBSET Keys]
    BY <1>14, <2>1 DEF Handoff, TypeOK
  <2>3. promo' \in [Media -> Promotion]
    BY <1>14, ResetTypes, PassReads DEF Handoff, TypeOK
  <2> QED
    BY <1>14, <1>0, <2>2, <2>3 DEF Handoff, TypeOK
<1>15. ASSUME NEW p \in Passes, PassEnds(p) PROVE TypeOK'
  BY <1>15, <1>0 DEF PassEnds, TypeOK
<1> QED
  BY <1>1, <1>2, <1>3, <1>4, <1>5, <1>6, <1>7, <1>8, <1>9, <1>10, <1>11, <1>12,
     <1>13, <1>14, <1>15 DEF PromotionStep, PassAdvances

\* Recently deleted, deletion and collection keep the types.
LEMMA RecoveryStepTyped == TypeOK /\ RecoveryStep => TypeOK'
<1> SUFFICES ASSUME TypeOK, NEW m \in Media,
                    \/ Trash(m) \/ Restore(m) \/ RecoveryDeadline(m)
                    \/ PermanentlyDeleteTrashed(m) \/ Delete(m) \/ ClaimObjectDeletion(m)
                    \/ \E k \in Keys : BeginSuppression(m, k) \/ DeleteSuppressed(m, k)
             PROVE TypeOK'
  BY DEF RecoveryStep
<1> USE DEF processVars, eventVars
<1>1. CASE Trash(m)
  BY <1>1, RecountType, RowFields DEF Trash, TypeOK
<1>2. CASE Restore(m)
  <2>1. promo' \in [Media -> Promotion]
    BY <1>2, ResetTypes DEF Restore, TypeOK
  <2>2. row' \in [Media -> Row]
    BY <1>2, RowFields DEF Restore, TypeOK
  <2> QED
    BY <1>2, <2>1, <2>2, RecountType DEF Restore, TypeOK
<1>3. CASE RecoveryDeadline(m)
  BY <1>3, RowFields DEF RecoveryDeadline, TypeOK
<1>4. ASSUME BecomesDeleted(m) PROVE TypeOK'
  BY <1>4, RecountType, RowFields DEF BecomesDeleted, TypeOK
<1>5. CASE PermanentlyDeleteTrashed(m) \/ Delete(m)
  BY <1>4, <1>5 DEF PermanentlyDeleteTrashed, Delete
<1>6. CASE ClaimObjectDeletion(m)
  BY <1>6 DEF ClaimObjectDeletion, TypeOK
<1>7. ASSUME NEW k \in Keys, BeginSuppression(m, k) PROVE TypeOK'
  BY <1>7 DEF BeginSuppression, TypeOK
<1>8. ASSUME NEW k \in Keys, DeleteSuppressed(m, k) PROVE TypeOK'
  BY <1>8 DEF DeleteSuppressed, TypeOK
<1> QED
  BY <1>1, <1>2, <1>3, <1>5, <1>6, <1>7, <1>8

\* The export jobs keep the types.
LEMMA ExportStepTyped == TypeOK /\ ExportStep => TypeOK'
<1> SUFFICES ASSUME TypeOK, ExportStep PROVE TypeOK'
  OBVIOUS
<1> USE DEF processVars, eventVars
<1>1. ASSUME NEW j \in JobIds, CreateExport(j) PROVE TypeOK'
  <2>1. [state |-> "queued", entries |-> Deliverable, attempt |-> 1] \in Job
    BY JobAssumption DEF Job, Deliverable
  <2>2. job' \in [JobIds -> Job]
    BY <1>1, <2>1 DEF CreateExport, TypeOK
  <2> QED
    BY <1>1, <2>2 DEF CreateExport, TypeOK
<1>2. ASSUME NEW j \in JobIds, NEW from,
             NEW to \in {"none", "queued", "running", "ready", "failed", "expired"},
             Moves(j, from, to)
      PROVE TypeOK'
  <2>1. job' \in [JobIds -> Job]
    BY <1>2, JobFields DEF Moves, TypeOK
  <2> QED
    BY <1>2, <2>1 DEF Moves, TypeOK
<1>3. ASSUME NEW j \in JobIds, Retry(j) PROVE TypeOK'
  <2>1. job[j].attempt + 1 \in 0..MaxAttempts /\ job[j].entries \in SUBSET Media
    BY <1>3, JobAssumption DEF Retry, TypeOK, Job
  <2>2. [[job[j] EXCEPT !.state = "queued"] EXCEPT !.attempt = job[j].attempt + 1] \in Job
    BY <2>1, ZenonT(60) DEF TypeOK, Job
  <2>3. job' = [job EXCEPT ![j] =
                  [[job[j] EXCEPT !.state = "queued"] EXCEPT !.attempt = job[j].attempt + 1]]
    BY <1>3 DEF Retry, TypeOK, Job
  <2>4. job' \in [JobIds -> Job]
    BY <2>2, <2>3 DEF TypeOK
  <2> QED
    BY <1>3, <2>4 DEF Retry, TypeOK
<1> QED
  BY <1>1, <1>2, <1>3 DEF ExportStep, ClaimRunning, MarkReady, MarkOwnedFailed,
     MarkDispatchFailed, MarkExpired

\* The purge keeps the types.
LEMMA PurgeStepTyped == TypeOK /\ PurgeStep => TypeOK'
<1> SUFFICES ASSUME TypeOK, PurgeStep PROVE TypeOK'
  OBVIOUS
<1> USE DEF processVars, eventVars
<1>1. CASE BeginPass
  <2>1. job' \in [JobIds -> Job]
    BY <1>1, JobFields DEF BeginPass, TypeOK
  <2> QED
    BY <1>1, <2>1 DEF BeginPass, TypeOK
<1>2. CASE GuardPasses
  <2>1. Cardinality(StillKept) \in Int /\ Weight[StillKept] \in Int
    BY TallyTypes, StillKept \in SUBSET Media DEF StillKept
  <2>2. counts' \in [Buckets -> Int] /\ bytes' \in [Buckets -> Int]
    BY <1>2, <2>1 DEF GuardPasses, TypeOK
  <2>3. row' \in [Media -> Row]
    BY <1>2, RowFields DEF GuardPasses, TypeOK
  <2>4. /\ purge' \in {"none", "fences", "r2", "relational", "complete"}
        /\ purger' \in {"idle", "guard", "sweep", "check", "rows"}
    BY <1>2 DEF GuardPasses, TypeOK
  <2> QED
    BY <1>2, <2>2, <2>3, <2>4 DEF GuardPasses, TypeOK
<1>3. CASE GuardFails
  BY <1>3 DEF GuardFails, TypeOK
<1>4. CASE SweepPrefix
  BY <1>4 DEF SweepPrefix, Empty, TypeOK
<1>5. CASE CheckPrefix
  BY <1>5 DEF CheckPrefix, TypeOK
<1>6. CASE PurgeRows
  BY <1>6, ResetTypes DEF PurgeRows, TypeOK
<1>7. CASE PurgerDies
  BY <1>7 DEF PurgerDies, TypeOK
<1> QED
  BY <1>1, <1>2, <1>3, <1>4, <1>5, <1>6, <1>7 DEF PurgeStep, PurgeAdvances

LEMMA NextTyped == TypeOK /\ [Next]_vars => TypeOK'
<1>1. TypeOK /\ Next => TypeOK'
  BY ReservationStepTyped, IngressStepTyped, PromotionStepTyped, RecoveryStepTyped,
     ExportStepTyped, PurgeStepTyped DEF Next
<1>2. TypeOK /\ UNCHANGED vars => TypeOK'
  BY DEF TypeOK, vars
<1> QED
  BY <1>1, <1>2

\* Every reachable state is well typed: the counters, rows, promotions,
\* tombstones, objects, jobs and the positions of all processes.
THEOREM TypeCorrect == Spec => []TypeOK
<1>1. Init => TypeOK
  BY InitTyped
<1> QED
  BY <1>1, NextTyped, PTL DEF Spec

(***************************************************************************)
(* Integrity.                                                              *)
(***************************************************************************)
\* While the event lives, a step only ever adds to the suppressed keys, and
\* changes an object only if there was none or its key is suppressed.
BytesStable ==
    eventLive' =>
        /\ eventLive
        /\ \A m \in Media : suppressed[m] \subseteq suppressed'[m]
        /\ \A m \in Media, k \in Keys :
              object[m][k] = NoBytes \/ k \in suppressed[m] \/ object'[m][k] = object[m][k]

\* No photo becomes a legacy photo, and none changes what it was delivered with.
LegacyStable ==
    \A m \in Media : LegacyPhoto(m)' => LegacyPhoto(m) /\ receipt'[m] = receipt[m]

\* What was seen under the final key is still there after such a step.
LEMMA FinalStays ==
    ASSUME BytesStable, eventLive', NEW m \in Media, NEW d, d # NoBytes,
           FinalHolds(m, d)
    PROVE  FinalHolds(m, d)'
BY DEF BytesStable, FinalHolds, Keys

\* A step that leaves the handlers, or the passes, where they are.
LEMMA RequestFrame ==
    ASSUME TypeOK, RequestKnows, BytesStable, UNCHANGED req
    PROVE  RequestKnows'
<1> SUFFICES ASSUME NEW w \in Requests, eventLive', req[w].pc = "commit"
             PROVE  FinalHolds(req[w].m, req[w].d)'
  BY DEF RequestKnows
<1>1. req[w].m \in Media /\ req[w].d # NoBytes
  BY BytesAssumption DEF TypeOK, Request
<1>2. FinalHolds(req[w].m, req[w].d)
  BY DEF RequestKnows, BytesStable
<1> QED
  BY <1>1, <1>2, FinalStays

\* ... a single pass,
LEMMA CarriesFrame ==
    ASSUME TypeOK, PassKnows, BytesStable, LegacyStable, NEW p \in Passes,
           pass'[p] = pass[p]
    PROVE  Carries(p)'
<1> DEFINE m == pass[p].m
<1>1. m \in Media /\ Carries(p)
  BY DEF TypeOK, Pass, PassKnows
<1>2. ASSUME pass[p].pc \in {"recover", "write", "wrote", "mark"}, LegacyPhoto(m)'
      PROVE  pass[p].digest = receipt'[m]
  BY <1>1, <1>2 DEF Carries, LegacyStable
<1>3. ASSUME pass[p].pc \in {"mark", "adopt"}, eventLive'
      PROVE  FinalHolds(m, pass[p].digest)'
  <2>1. FinalHolds(m, pass[p].digest) /\ pass[p].digest # NoBytes
    BY <1>1, <1>3 DEF Carries, BytesStable
  <2> QED
    BY <1>1, <1>3, <2>1, FinalStays
<1> QED
  BY <1>1, <1>2, <1>3 DEF Carries

\* ... and all of them.
LEMMA PassFrame ==
    ASSUME TypeOK, PassKnows, BytesStable, LegacyStable, UNCHANGED pass
    PROVE  PassKnows'
BY CarriesFrame DEF PassKnows

\* A pass that moves on leaves the others what they carry.
LEMMA PassStep ==
    ASSUME TypeOK, PassKnows, BytesStable, LegacyStable, NEW p \in Passes,
           \A q \in Passes \ {p} : pass'[q] = pass[q], Carries(p)'
    PROVE  PassKnows'
BY CarriesFrame DEF PassKnows

\* Whom the steps of each actor leave alone.
LEMMA OtherProcesses ==
    /\ ReservationStep => UNCHANGED <<req, pass, purger, eventLive>>
    /\ IngressStep => UNCHANGED <<pass, purger, eventLive>>
    /\ PromotionStep => UNCHANGED <<req, purger, eventLive>>
    /\ RecoveryStep => UNCHANGED <<req, pass, purger, eventLive>>
<1> USE DEF processVars, eventVars
<1>1. ReservationStep => UNCHANGED <<req, pass, purger, eventLive>>
  BY DEF ReservationStep, ToggleIntake, Reserve, RefreshReserved, RefreshFailed,
     ListExpired, FailReservation, CancelReservation, ReservationDeadline
<1>2. IngressStep => UNCHANGED <<pass, purger, eventLive>>
  BY DEF IngressStep, StartIngress, ClaimIngress, PutFinal, VerifyFinal, CommitIngress,
     RequestEnds, PutLands, PutFails, LeaseDeadline
<1>3. PromotionStep => UNCHANGED <<req, purger, eventLive>>
  BY ZenonT(60) DEF PromotionStep, PassAdvances, Goes, Settled, PickCandidate,
     ClaimPromotion,
     ClaimInactive, RecordSource, ReleaseClaim, PutCopy, VerifyCopy, MarkVerified,
     CommitPointer, ParkVerified, ParkInactive, InspectIngress, AdoptFinal, Handoff,
     PassEnds
<1>4. RecoveryStep => UNCHANGED <<req, pass, purger, eventLive>>
  BY DEF RecoveryStep, PermanentlyDeleteTrashed, Delete, Trash, Restore,
     RecoveryDeadline,
     BecomesDeleted, ClaimObjectDeletion, BeginSuppression, DeleteSuppressed
<1> QED
  BY <1>1, <1>2, <1>3, <1>4

USE DEF Integrity, Photo, LegacyPhoto, LegacyActive, Active, Recoverable, Held,
        Unsuppressed, processVars, eventVars, TypeOK, Row, Promotion

\* What is known of the photos themselves, export holds apart.
PhotosFine == PromotionShape /\ PointerAgrees /\ DeliveredInPlace /\ PromotionKnows

\* What every step but the purge's does to the photos.
SoundStep == PhotosFine' /\ BytesStable /\ LegacyStable /\ HoldsInPlace'

\* What a handler has received is some content.
LEMMA RequestReads ==
    ASSUME TypeOK, NEW w \in Requests
    PROVE  req[w].m \in Media /\ req[w].d \in Digests /\ req[w].d # NoBytes
BY BytesAssumption DEF TypeOK, Request

\* A step that touches nothing of the photos.
LEMMA QuietFrame ==
    ASSUME TypeOK, PhotosFine, UNCHANGED <<eventLive, row, promo, suppressed, object,
    receipt>>
    PROVE  PhotosFine' /\ BytesStable /\ LegacyStable
BY DEF PhotosFine, PromotionShape, PointerAgrees, DeliveredInPlace, PromotionKnows,
   FinalHolds, BytesStable, LegacyStable

\* A step that takes up no export hold and leaves the held objects alone.
LEMMA HoldFrame ==
    ASSUME HoldsInPlace, UNCHANGED <<eventLive, row, suppressed, object, receipt>>,
           \A m \in Media : Held(m, "final")' => Held(m, "final")
    PROVE  HoldsInPlace'
BY DEF HoldsInPlace

\* A step of a purge, or any step of a deleted event that moves no promotion
\* and no pass: nothing is promised of its photos any more.
LEMMA DeletedFrame ==
    ASSUME TypeOK, Integrity, ~eventLive', UNCHANGED <<promo, pass>>
    PROVE  Integrity'
<1>1. PurgeAfterDeletion' /\ PointerAgrees' /\ DeliveredInPlace' /\ PromotionKnows'
      /\ RequestKnows' /\ HoldsInPlace' /\ BytesStable /\ LegacyStable
  BY DEF PurgeAfterDeletion, PointerAgrees, DeliveredInPlace, PromotionKnows,
     RequestKnows, HoldsInPlace, BytesStable, LegacyStable
<1>2. PromotionShape'
  BY DEF PromotionShape
<1>3. PassKnows'
  BY <1>1, PassFrame
<1> QED
  BY <1>1, <1>2, <1>3

\* Reservations, refreshes, sweeps and cancellations.
LEMMA ReservationIntegrity == TypeOK /\ Integrity /\ ReservationStep => Integrity'
<1> SUFFICES ASSUME TypeOK, Integrity, ReservationStep PROVE Integrity'
  OBVIOUS
<1>1. ASSUME ToggleIntake PROVE SoundStep
  BY <1>1, QuietFrame, HoldFrame DEF ToggleIntake, SoundStep, PhotosFine
<1>2. ASSUME NEW m \in Media, Reserve(m) PROVE SoundStep
  BY <1>2 DEF Reserve, NoRow, PendingPromotion, NoPromotion, SoundStep, PhotosFine,
     PromotionShape, PointerAgrees, DeliveredInPlace, PromotionKnows, FinalHolds,
     HoldsInPlace, BytesStable, LegacyStable
<1>3. ASSUME NEW m \in Media, RefreshReserved(m) PROVE SoundStep
  BY <1>3 DEF RefreshReserved, SoundStep, PhotosFine, PromotionShape, PointerAgrees,
     DeliveredInPlace, PromotionKnows, FinalHolds, HoldsInPlace, BytesStable,
     LegacyStable
<1>4. ASSUME NEW m \in Media, RefreshFailed(m) PROVE SoundStep
  BY <1>4 DEF RefreshFailed, SoundStep, PhotosFine, PromotionShape, PointerAgrees,
     DeliveredInPlace, PromotionKnows, FinalHolds, HoldsInPlace, BytesStable,
     LegacyStable
<1>5. ASSUME NEW m \in Media, ListExpired(m) PROVE SoundStep
  BY <1>5, QuietFrame, HoldFrame DEF ListExpired, SoundStep, PhotosFine
<1>6. ASSUME NEW m \in Media, FailReservation(m) PROVE SoundStep
  <2>1. CASE row[m].state = "reserved"
    <3>1. /\ row' = [row EXCEPT ![m].state = "failed"]
          /\ UNCHANGED <<eventLive, promo, suppressed, object, receipt, job>>
      BY <1>6, <2>1 DEF FailReservation
    <3>2. PhotosFine'
      BY <2>1, <3>1 DEF PhotosFine, PromotionShape, PointerAgrees, DeliveredInPlace,
         PromotionKnows, FinalHolds
    <3>3. HoldsInPlace' /\ BytesStable /\ LegacyStable
      BY <2>1, <3>1 DEF HoldsInPlace, BytesStable, LegacyStable
    <3> QED
      BY <3>2, <3>3 DEF SoundStep
  <2>2. CASE row[m].state # "reserved"
    BY <1>6, <2>2, QuietFrame, HoldFrame DEF FailReservation, SoundStep, PhotosFine
  <2> QED
    BY <2>1, <2>2
<1>7. ASSUME NEW m \in Media, CancelReservation(m) PROVE SoundStep
  BY <1>7 DEF CancelReservation, NoPromotion, SoundStep, PhotosFine, PromotionShape,
     PointerAgrees, DeliveredInPlace, PromotionKnows, FinalHolds, HoldsInPlace,
     BytesStable,
     LegacyStable
<1>8. ASSUME NEW m \in Media, ReservationDeadline(m) PROVE SoundStep
  BY <1>8 DEF ReservationDeadline, SoundStep, PhotosFine, PromotionShape, PointerAgrees,
     DeliveredInPlace, PromotionKnows, FinalHolds, HoldsInPlace, BytesStable,
     LegacyStable
<1>9. UNCHANGED <<req, pass, purger, eventLive>>
  BY OtherProcesses

<1>10. SoundStep
  BY <1>1, <1>2, <1>3, <1>4, <1>5, <1>6, <1>7, <1>8 DEF ReservationStep
<1> QED
  BY <1>9, <1>10, PassFrame, RequestFrame DEF SoundStep, PhotosFine, PurgeAfterDeletion

\* Uploads, their PUTs and leases.
LEMMA IngressIntegrity == TypeOK /\ Integrity /\ IngressStep => Integrity'
<1> SUFFICES ASSUME TypeOK, Integrity, IngressStep PROVE Integrity'
  OBVIOUS
<1>1. ASSUME NEW w \in Requests, NEW m \in Media, NEW d \in Digests, StartIngress(w, m,
d)
      PROVE SoundStep /\ RequestKnows'
  <2>1. SoundStep
    BY <1>1, QuietFrame, HoldFrame DEF StartIngress, SoundStep, PhotosFine
  <2>2. RequestKnows'
    BY <1>1, <2>1, RequestReads DEF SoundStep, BytesStable, StartIngress, RequestKnows,
       Request, FinalHolds
  <2> QED
    BY <2>1, <2>2
<1>2. ASSUME NEW w \in Requests, ClaimIngress(w) PROVE SoundStep /\ RequestKnows'
  <2>1. SoundStep
    BY <1>2, RequestReads DEF ClaimIngress, SoundStep, PhotosFine, PromotionShape,
       PointerAgrees, DeliveredInPlace, PromotionKnows, FinalHolds, HoldsInPlace,
       BytesStable, LegacyStable
  <2>2. RequestKnows'
    BY <1>2, <2>1, RequestReads DEF SoundStep, BytesStable, ClaimIngress, RequestKnows,
       Request, FinalHolds
  <2> QED
    BY <2>1, <2>2
<1>3. ASSUME NEW w \in Requests, PutFinal(w) PROVE SoundStep /\ RequestKnows'
  <2>1. SoundStep
    BY <1>3, QuietFrame, HoldFrame DEF PutFinal, SoundStep, PhotosFine
  <2>2. RequestKnows'
    BY <1>3, <2>1, RequestReads DEF SoundStep, BytesStable, PutFinal, RequestKnows,
       Request, FinalHolds
  <2> QED
    BY <2>1, <2>2
<1>4. ASSUME NEW w \in Requests, VerifyFinal(w) PROVE SoundStep /\ RequestKnows'
  <2>1. SoundStep
    BY <1>4, QuietFrame, HoldFrame DEF VerifyFinal, SoundStep, PhotosFine
  <2>2. RequestKnows'
    BY <1>4, <2>1, RequestReads DEF SoundStep, BytesStable, VerifyFinal, RequestKnows,
       Request, FinalHolds
  <2> QED
    BY <2>1, <2>2
<1>5. ASSUME NEW w \in Requests, CommitIngress(w) PROVE SoundStep /\ RequestKnows'
  <2>1. SoundStep
    <3> DEFINE m == req[w].m
    <3>1. /\ m \in Media /\ eventLive /\ row[m].state = "reserved"
          /\ row'[m].state = "stored" /\ row'[m].ptr = "final"
          /\ promo'[m].state = "cleanup_pending" /\ promo'[m].committed
          /\ promo'[m].kind = promo[m].kind /\ promo'[m].digest = promo[m].digest
          /\ receipt'[m] = req[w].d
      BY <1>5, RequestReads, SMTT(90) DEF CommitIngress, TypeOK, Promotion, Row
    <3>2. /\ \A n \in Media : n # m => /\ row'[n] = row[n] /\ promo'[n] = promo[n]
                                       /\ receipt'[n] = receipt[n]
          /\ UNCHANGED <<eventLive, suppressed, object, job>>
      BY <1>5, RequestReads DEF CommitIngress, TypeOK
    <3>3. /\ suppressed[m] = {} /\ req[w].d # NoBytes
          /\ object[m]["final"] = req[w].d
      BY <1>5, RequestReads DEF CommitIngress, Unsuppressed, RequestKnows, FinalHolds
    <3>4. PromotionShape'
      <4> SUFFICES ASSUME NEW n \in Media
                   PROVE  /\ promo'[n].committed => promo'[n].state = "cleanup_pending"
                          /\ promo'[n].kind = "buffer" => promo'[n].digest # NoBytes
        BY SMTT(30) DEF PromotionShape
      <4>1. CASE n = m
        BY <3>1, <4>1 DEF PromotionShape
      <4>2. CASE n # m
        BY <3>2, <4>2 DEF PromotionShape
      <4> QED
        BY <4>1, <4>2
    <3>5. PointerAgrees'
      <4> SUFFICES ASSUME NEW n \in Media, Photo(n)', promo'[n].state # "none"
                   PROVE  row'[n].ptr = IF promo'[n].committed THEN "final" ELSE "source"
        BY DEF PointerAgrees
      <4>1. CASE n = m
        BY <3>1, <4>1
      <4>2. CASE n # m
        BY <3>2, <4>2 DEF PointerAgrees
      <4> QED
        BY <4>1, <4>2
    <3>6. DeliveredInPlace'
      <4> SUFFICES ASSUME NEW n \in Media, Photo(n)'
                   PROVE  /\ receipt'[n] # NoBytes
                          /\ row'[n].ptr \notin suppressed[n]
                          /\ object[n][row'[n].ptr] = receipt'[n]
        BY <3>2 DEF DeliveredInPlace
      <4>1. CASE n = m
        BY <3>1, <3>3, <4>1
      <4>2. CASE n # m
        BY <3>2, <4>2 DEF DeliveredInPlace
      <4> QED
        BY <4>1, <4>2
    <3>7. PromotionKnows'
      <4> SUFFICES ASSUME NEW n \in Media, LegacyPhoto(n)'
                   PROVE  /\ promo'[n].digest # NoBytes => promo'[n].digest = receipt'[n]
                          /\ promo'[n].state = "target_verified" =>
                               FinalHolds(n, receipt[n])'
        BY DEF PromotionKnows
      <4>1. n # m
        BY <3>1
      <4> QED
        BY <3>2, <4>1 DEF PromotionKnows, FinalHolds
    <3>8. HoldsInPlace'
      <4> SUFFICES ASSUME NEW n \in Media, Held(n, "final")
                   PROVE  /\ row'[n].state \in {"stored", "deleted"}
                          /\ receipt'[n] # NoBytes
                          /\ "final" \notin suppressed[n]
                          /\ object[n]["final"] = receipt'[n]
        BY <3>2 DEF HoldsInPlace
      <4>1. n # m
        BY <3>1 DEF HoldsInPlace
      <4> QED
        BY <3>2, <4>1, <3>1 DEF HoldsInPlace
    <3>9. BytesStable /\ LegacyStable
      BY <3>1, <3>2 DEF BytesStable, LegacyStable, LegacyPhoto, Photo
    <3> QED
      BY <3>4, <3>5, <3>6, <3>7, <3>8, <3>9 DEF SoundStep, PhotosFine
  <2>2. RequestKnows'
    BY <1>5, <2>1, RequestReads DEF SoundStep, BytesStable, CommitIngress, RequestKnows,
       Request, FinalHolds, IdleRequest
  <2> QED
    BY <2>1, <2>2
<1>6. ASSUME NEW w \in Requests, RequestEnds(w) PROVE SoundStep /\ RequestKnows'
  <2>1. SoundStep
    BY <1>6, QuietFrame, HoldFrame DEF RequestEnds, SoundStep, PhotosFine
  <2>2. RequestKnows'
    BY <1>6, <2>1, RequestReads DEF SoundStep, BytesStable, RequestEnds, RequestKnows,
       Request, FinalHolds, IdleRequest
  <2> QED
    BY <2>1, <2>2
<1>7. ASSUME NEW put \in inflight, PutLands(put) PROVE SoundStep /\ RequestKnows'
  <2>1. SoundStep
    BY <1>7 DEF PutLands, SoundStep, PhotosFine, PromotionShape, PointerAgrees,
       DeliveredInPlace, PromotionKnows, FinalHolds, HoldsInPlace, BytesStable,
       LegacyStable
  <2> QED
    BY <1>7, <2>1, RequestFrame DEF SoundStep, PutLands
<1>8. ASSUME NEW put \in inflight, PutFails(put) PROVE SoundStep /\ RequestKnows'
  <2>1. SoundStep
    BY <1>8, QuietFrame, HoldFrame DEF PutFails, SoundStep, PhotosFine
  <2> QED
    BY <1>8, <2>1, RequestFrame DEF SoundStep, PutFails
<1>9. ASSUME NEW m \in Media, LeaseDeadline(m) PROVE SoundStep /\ RequestKnows'
  <2>1. SoundStep
    BY <1>9 DEF LeaseDeadline, SoundStep, PhotosFine, PromotionShape, PointerAgrees,
       DeliveredInPlace, PromotionKnows, FinalHolds, HoldsInPlace, BytesStable,
       LegacyStable
  <2> QED
    BY <1>9, <2>1, RequestFrame DEF SoundStep, LeaseDeadline
<1>10. UNCHANGED <<pass, purger, eventLive>>
  BY OtherProcesses

<1>11. SoundStep /\ RequestKnows'
  BY <1>1, <1>2, <1>3, <1>4, <1>5, <1>6, <1>7, <1>8, <1>9 DEF IngressStep
<1> QED
  BY <1>10, <1>11, PassFrame DEF SoundStep, PhotosFine, PurgeAfterDeletion

\* The promoter's passes.
LEMMA PromotionIntegrity == TypeOK /\ Integrity /\ PromotionStep => Integrity'
<1> SUFFICES ASSUME TypeOK, Integrity, PromotionStep PROVE Integrity'
  OBVIOUS
<1>1. ASSUME NEW p \in Passes, NEW m \in Media, PickCandidate(p, m)
      PROVE SoundStep /\ Carries(p)'
  <2>1. SoundStep
    BY <1>1, QuietFrame, HoldFrame DEF PickCandidate, SoundStep, PhotosFine
  <2>2. Carries(p)'
    BY <1>1, PassReads DEF PickCandidate, PassKnows, Carries, FinalHolds, Branch,
       PromotionShape
  <2> QED
    BY <2>1, <2>2
<1>2. ASSUME NEW p \in Passes, ClaimPromotion(p) PROVE SoundStep /\ Carries(p)'
  <2>1. SoundStep
    <3> DEFINE m == pass[p].m
    <3>1. /\ m \in Media /\ promo[m].state \in {"pending", "copying"}
          /\ promo'[m].state = "copying" /\ ~promo'[m].committed
          /\ promo'[m].kind = promo[m].kind /\ promo'[m].digest = promo[m].digest
      <4>1. /\ m \in Media /\ promo[m].state \in {"pending", "copying"}
            /\ promo \in [Media -> Promotion] /\ promo[m] \in Promotion
            /\ promo' = [promo EXCEPT ![m].state = "copying", ![m].token = p,
                                      ![m].lease = TRUE, ![m].committed = FALSE]
        BY <1>2, PassReads, ZenonT(30) DEF ClaimPromotion, Claimable
      <4> QED
        BY <4>1, SMTT(30)
    <3>2. /\ \A n \in Media : n # m => promo'[n] = promo[n]
          /\ UNCHANGED <<eventLive, row, suppressed, object, receipt, job>>
      BY <1>2, PassReads DEF ClaimPromotion, TypeOK, eventVars
    <3>3. ~promo[m].committed
      BY <3>1 DEF PromotionShape
    <3>4. PromotionShape'
      <4> SUFFICES ASSUME NEW n \in Media
                   PROVE  /\ promo'[n].committed => promo'[n].state = "cleanup_pending"
                          /\ promo'[n].kind = "buffer" => promo'[n].digest # NoBytes
        BY SMTT(30) DEF PromotionShape
      <4>1. CASE n = m
        BY <3>1, <4>1 DEF PromotionShape
      <4>2. CASE n # m
        BY <3>2, <4>2 DEF PromotionShape
      <4> QED
        BY <4>1, <4>2
    <3>5. PointerAgrees'
      <4> SUFFICES ASSUME NEW n \in Media, Photo(n)', promo'[n].state # "none"
                   PROVE  row'[n].ptr = IF promo'[n].committed THEN "final" ELSE "source"
        BY DEF PointerAgrees
      <4>1. CASE n = m
        BY <3>1, <3>2, <3>3, <4>1 DEF PointerAgrees
      <4>2. CASE n # m
        BY <3>2, <4>2 DEF PointerAgrees
      <4> QED
        BY <4>1, <4>2
    <3>6. DeliveredInPlace'
      BY <3>1, <3>2 DEF DeliveredInPlace, Photo
    <3>7. PromotionKnows'
      BY <3>1, <3>2 DEF PromotionKnows, FinalHolds, LegacyPhoto, Photo
    <3>8. HoldsInPlace'
      BY <3>1, <3>2 DEF HoldsInPlace, Held
    <3>9. BytesStable /\ LegacyStable
      BY <3>1, <3>2 DEF BytesStable, LegacyStable, LegacyPhoto, Photo
    <3> QED
      BY <3>4, <3>5, <3>6, <3>7, <3>8, <3>9 DEF SoundStep, PhotosFine
  <2>2. Carries(p)'
    <3> DEFINE m == pass[p].m
    <3>1. /\ pass'[p].m = m /\ pass'[p].digest = promo[m].digest
          /\ pass'[p].pc \in {"copy", "recover"}
          /\ pass'[p].pc = "recover" => promo[m].digest # NoBytes
      BY <1>2, PassReads, SMTT(30) DEF ClaimPromotion, TypeOK, Pass
    <3>2. m \in Media /\ LegacyPhoto(m) /\ UNCHANGED <<eventLive, row, receipt>>
      BY <1>2, PassReads DEF ClaimPromotion, LegacyActive, Active, LegacyPhoto, Photo,
         eventVars
    <3>3. promo[m].digest # NoBytes => promo[m].digest = receipt[m]
      BY <3>2 DEF PromotionKnows
    <3> QED
      BY <3>1, <3>2, <3>3 DEF Carries
  <2> QED
    BY <2>1, <2>2
<1>3. ASSUME NEW p \in Passes, ClaimInactive(p) PROVE SoundStep /\ Carries(p)'
  <2>1. SoundStep
    BY <1>3, PassReads DEF ClaimInactive, Claimable, PendingPromotion, NoPromotion,
       SoundStep, PhotosFine, PromotionShape, PointerAgrees, DeliveredInPlace,
       PromotionKnows, FinalHolds, HoldsInPlace, BytesStable, LegacyStable
  <2>2. Carries(p)'
    BY <1>3, PassReads DEF ClaimInactive, Claimable, PendingPromotion, NoPromotion,
       PassKnows, Carries, FinalHolds
  <2> QED
    BY <2>1, <2>2
<1>4. ASSUME NEW p \in Passes, RecordSource(p) PROVE SoundStep /\ Carries(p)'
  <2>1. SoundStep
    <3>1. PromotionShape'
      BY <1>4, PassReads, SMTT(30) DEF RecordSource, PromotionShape
    <3>2. PointerAgrees'
      BY <1>4, PassReads, SMTT(30) DEF RecordSource, PointerAgrees, PromotionShape
    <3>3. DeliveredInPlace'
      BY <1>4, PassReads, SMTT(30) DEF RecordSource, DeliveredInPlace
    <3>4. PromotionKnows'
      BY <1>4, PassReads, SMTT(30) DEF RecordSource, PromotionKnows, FinalHolds,
         DeliveredInPlace
    <3>5. HoldsInPlace' /\ BytesStable /\ LegacyStable
      BY <1>4, PassReads, SMTT(30) DEF RecordSource, HoldsInPlace, BytesStable,
         LegacyStable
    <3> QED
      BY <3>1, <3>2, <3>3, <3>4, <3>5 DEF SoundStep, PhotosFine
  <2>2. Carries(p)'
    BY <1>4, PassReads DEF RecordSource, PassKnows, Carries, FinalHolds, PromotionKnows,
       DeliveredInPlace
  <2> QED
    BY <2>1, <2>2
<1>5. ASSUME NEW p \in Passes, ReleaseClaim(p) PROVE SoundStep /\ Carries(p)'
  <2>1. SoundStep
    BY <1>5, PassReads DEF ReleaseClaim, Settled, IdlePass, PendingPromotion,
       NoPromotion,
       SoundStep, PhotosFine, PromotionShape, PointerAgrees, DeliveredInPlace,
       PromotionKnows, FinalHolds, HoldsInPlace, BytesStable, LegacyStable
  <2>2. Carries(p)'
    BY <1>5, PassReads DEF ReleaseClaim, Settled, IdlePass, PendingPromotion,
       NoPromotion,
       PassKnows, Carries, FinalHolds
  <2> QED
    BY <2>1, <2>2
<1>6. ASSUME NEW p \in Passes, PutCopy(p) PROVE SoundStep /\ Carries(p)'
  <2>1. SoundStep
    BY <1>6, QuietFrame, HoldFrame DEF PutCopy, Goes, SoundStep, PhotosFine
  <2>2. Carries(p)'
    BY <1>6, PassReads DEF PutCopy, Goes, PassKnows, Carries, FinalHolds
  <2> QED
    BY <2>1, <2>2
<1>7. ASSUME NEW p \in Passes, VerifyCopy(p) PROVE SoundStep /\ Carries(p)'
  <2>1. SoundStep
    BY <1>7, QuietFrame, HoldFrame DEF VerifyCopy, Goes, SoundStep, PhotosFine
  <2>2. Carries(p)'
    BY <1>7, PassReads DEF VerifyCopy, Goes, PassKnows, Carries, FinalHolds
  <2> QED
    BY <2>1, <2>2
<1>8. ASSUME NEW p \in Passes, MarkVerified(p) PROVE SoundStep /\ Carries(p)'
  <2>1. SoundStep
    <3>1. PromotionShape'
      BY <1>8, PassReads, SMTT(30) DEF MarkVerified, Goes, PromotionShape
    <3>2. PointerAgrees'
      BY <1>8, PassReads, SMTT(30) DEF MarkVerified, Goes, PointerAgrees, PromotionShape
    <3>3. DeliveredInPlace'
      BY <1>8, PassReads, SMTT(30) DEF MarkVerified, Goes, DeliveredInPlace, PassKnows,
         Carries, HasToken
    <3>4. PromotionKnows'
      BY <1>8, PassReads, SMTT(30) DEF MarkVerified, Goes, PromotionKnows, FinalHolds,
         DeliveredInPlace, PassKnows, Carries, HasToken
    <3>5. HoldsInPlace' /\ BytesStable /\ LegacyStable
      BY <1>8, PassReads, SMTT(30) DEF MarkVerified, Goes, HoldsInPlace, BytesStable,
         LegacyStable
    <3> QED
      BY <3>1, <3>2, <3>3, <3>4, <3>5 DEF SoundStep, PhotosFine
  <2>2. Carries(p)'
    BY <1>8, PassReads DEF MarkVerified, Goes, PassKnows, Carries, FinalHolds,
       PromotionKnows, DeliveredInPlace
  <2> QED
    BY <2>1, <2>2
<1>9. ASSUME NEW p \in Passes, CommitPointer(p) PROVE SoundStep /\ Carries(p)'
  <2>1. SoundStep
    <3>1. PromotionShape'
      BY <1>9, PassReads, SMTT(30) DEF CommitPointer, Goes, PromotionShape
    <3>2. PointerAgrees'
      BY <1>9, PassReads, SMTT(30) DEF CommitPointer, Goes, PointerAgrees,
         PromotionShape
    <3>3. DeliveredInPlace'
      BY <1>9, PassReads, SMTT(30) DEF CommitPointer, Goes, DeliveredInPlace,
         PromotionKnows, FinalHolds
    <3>4. PromotionKnows'
      BY <1>9, PassReads, SMTT(30) DEF CommitPointer, Goes, PromotionKnows, FinalHolds,
         DeliveredInPlace
    <3>5. HoldsInPlace' /\ BytesStable /\ LegacyStable
      BY <1>9, PassReads, SMTT(30) DEF CommitPointer, Goes, HoldsInPlace, BytesStable,
         LegacyStable
    <3> QED
      BY <3>1, <3>2, <3>3, <3>4, <3>5 DEF SoundStep, PhotosFine
  <2>2. Carries(p)'
    BY <1>9, PassReads DEF CommitPointer, Goes, PassKnows, Carries, FinalHolds,
       PromotionKnows, DeliveredInPlace
  <2> QED
    BY <2>1, <2>2
<1>10. ASSUME NEW p \in Passes, ParkVerified(p) PROVE SoundStep /\ Carries(p)'
  <2>1. SoundStep
    <3>1. PromotionShape'
      BY <1>10, PassReads, SMTT(30) DEF ParkVerified, Goes, PromotionShape
    <3>2. PointerAgrees'
      BY <1>10, PassReads, SMTT(30) DEF ParkVerified, Goes, PointerAgrees,
         PromotionShape
    <3>3. DeliveredInPlace'
      BY <1>10, PassReads, SMTT(30) DEF ParkVerified, Goes, DeliveredInPlace
    <3>4. PromotionKnows'
      BY <1>10, PassReads, SMTT(30) DEF ParkVerified, Goes, PromotionKnows, FinalHolds,
         DeliveredInPlace
    <3>5. HoldsInPlace' /\ BytesStable /\ LegacyStable
      BY <1>10, PassReads, SMTT(30) DEF ParkVerified, Goes, HoldsInPlace, BytesStable,
         LegacyStable
    <3> QED
      BY <3>1, <3>2, <3>3, <3>4, <3>5 DEF SoundStep, PhotosFine
  <2>2. Carries(p)'
    BY <1>10, PassReads DEF ParkVerified, Goes, PassKnows, Carries, FinalHolds
  <2> QED
    BY <2>1, <2>2
<1>11. ASSUME NEW p \in Passes, ParkInactive(p) PROVE SoundStep /\ Carries(p)'
  <2>1. SoundStep
    <3>1. PromotionShape'
      BY <1>11, PassReads, SMTT(30) DEF ParkInactive, Goes, PendingPromotion,
         NoPromotion, StillAdoptable, PromotionShape
    <3>2. PointerAgrees'
      BY <1>11, PassReads, SMTT(30) DEF ParkInactive, Goes, PendingPromotion,
         NoPromotion, StillAdoptable, PointerAgrees, PromotionShape
    <3>3. DeliveredInPlace'
      BY <1>11, PassReads, SMTT(30) DEF ParkInactive, Goes, PendingPromotion,
         NoPromotion, StillAdoptable, DeliveredInPlace
    <3>4. PromotionKnows'
      BY <1>11, PassReads, SMTT(30) DEF ParkInactive, Goes, PendingPromotion,
         NoPromotion, StillAdoptable, PromotionKnows, FinalHolds, DeliveredInPlace
    <3>5. HoldsInPlace' /\ BytesStable /\ LegacyStable
      BY <1>11, PassReads, SMTT(30) DEF ParkInactive, Goes, PendingPromotion,
         NoPromotion, StillAdoptable, HoldsInPlace, BytesStable, LegacyStable
    <3> QED
      BY <3>1, <3>2, <3>3, <3>4, <3>5 DEF SoundStep, PhotosFine
  <2>2. Carries(p)'
    BY <1>11, PassReads DEF ParkInactive, Goes, PendingPromotion, NoPromotion,
       StillAdoptable, PassKnows, Carries, FinalHolds
  <2> QED
    BY <2>1, <2>2
<1>12. ASSUME NEW p \in Passes, InspectIngress(p) PROVE SoundStep /\ Carries(p)'
  <2>1. SoundStep
    BY <1>12, QuietFrame, HoldFrame DEF InspectIngress, Goes, SoundStep, PhotosFine
  <2>2. Carries(p)'
    BY <1>12, PassReads DEF InspectIngress, Goes, PassKnows, Carries, FinalHolds
  <2> QED
    BY <2>1, <2>2
<1>13. ASSUME NEW p \in Passes, AdoptFinal(p) PROVE SoundStep /\ Carries(p)'
  <2>1. SoundStep
    <3> DEFINE m == pass[p].m
    <3>1. /\ m \in Media /\ eventLive /\ row[m].state = "reserved"
          /\ row'[m].state = "stored" /\ row'[m].ptr = "final"
          /\ promo'[m].state = "cleanup_pending" /\ promo'[m].committed
          /\ promo'[m].kind = promo[m].kind /\ promo'[m].digest = promo[m].digest
          /\ receipt'[m] = pass[p].digest
      BY <1>13, PassReads, SMTT(30) DEF AdoptFinal, TypeOK, Promotion, Row
    <3>2. /\ \A n \in Media : n # m => /\ row'[n] = row[n] /\ promo'[n] = promo[n]
                                       /\ receipt'[n] = receipt[n]
          /\ UNCHANGED <<eventLive, suppressed, object, job>>
      BY <1>13, PassReads DEF AdoptFinal, TypeOK
    <3>3. /\ suppressed[m] = {} /\ pass[p].digest # NoBytes
          /\ object[m]["final"] = pass[p].digest
      BY <1>13 DEF AdoptFinal, Unsuppressed, PassKnows, Carries, FinalHolds
    <3>4. PromotionShape'
      <4> SUFFICES ASSUME NEW n \in Media
                   PROVE  /\ promo'[n].committed => promo'[n].state = "cleanup_pending"
                          /\ promo'[n].kind = "buffer" => promo'[n].digest # NoBytes
        BY SMTT(30) DEF PromotionShape
      <4>1. CASE n = m
        BY <3>1, <4>1 DEF PromotionShape
      <4>2. CASE n # m
        BY <3>2, <4>2 DEF PromotionShape
      <4> QED
        BY <4>1, <4>2
    <3>5. PointerAgrees'
      <4> SUFFICES ASSUME NEW n \in Media, Photo(n)', promo'[n].state # "none"
                   PROVE  row'[n].ptr = IF promo'[n].committed THEN "final" ELSE "source"
        BY DEF PointerAgrees
      <4>1. CASE n = m
        BY <3>1, <4>1
      <4>2. CASE n # m
        BY <3>2, <4>2 DEF PointerAgrees
      <4> QED
        BY <4>1, <4>2
    <3>6. DeliveredInPlace'
      <4> SUFFICES ASSUME NEW n \in Media, Photo(n)'
                   PROVE  /\ receipt'[n] # NoBytes
                          /\ row'[n].ptr \notin suppressed[n]
                          /\ object[n][row'[n].ptr] = receipt'[n]
        BY <3>2 DEF DeliveredInPlace
      <4>1. CASE n = m
        BY <3>1, <3>3, <4>1
      <4>2. CASE n # m
        BY <3>2, <4>2 DEF DeliveredInPlace
      <4> QED
        BY <4>1, <4>2
    <3>7. PromotionKnows'
      <4> SUFFICES ASSUME NEW n \in Media, LegacyPhoto(n)'
                   PROVE  /\ promo'[n].digest # NoBytes => promo'[n].digest = receipt'[n]
                          /\ promo'[n].state = "target_verified" =>
                               FinalHolds(n, receipt[n])'
        BY DEF PromotionKnows
      <4>1. n # m
        BY <3>1
      <4> QED
        BY <3>2, <4>1 DEF PromotionKnows, FinalHolds
    <3>8. HoldsInPlace'
      <4> SUFFICES ASSUME NEW n \in Media, Held(n, "final")
                   PROVE  /\ row'[n].state \in {"stored", "deleted"}
                          /\ receipt'[n] # NoBytes
                          /\ "final" \notin suppressed[n]
                          /\ object[n]["final"] = receipt'[n]
        BY <3>2 DEF HoldsInPlace
      <4>1. n # m
        BY <3>1 DEF HoldsInPlace
      <4> QED
        BY <3>2, <4>1, <3>1 DEF HoldsInPlace
    <3>9. BytesStable /\ LegacyStable
      BY <3>1, <3>2 DEF BytesStable, LegacyStable, LegacyPhoto, Photo
    <3> QED
      BY <3>4, <3>5, <3>6, <3>7, <3>8, <3>9 DEF SoundStep, PhotosFine
  <2>2. Carries(p)'
    BY <1>13, PassReads DEF AdoptFinal, Settled, IdlePass, PassKnows, Carries,
       FinalHolds,
       PromotionKnows, DeliveredInPlace
  <2> QED
    BY <2>1, <2>2
<1>14. ASSUME NEW p \in Passes, Handoff(p) PROVE SoundStep /\ Carries(p)'
  <2>1. SoundStep
    <3> DEFINE m == pass[p].m
    <3>1. /\ m \in Media /\ promo[m].state = "cleanup_pending"
          /\ promo'[m] \in {NoPromotion, promo[m]}
          /\ \A n \in Media \ {m} : promo'[n] = promo[n] /\ suppressed'[n] = suppressed[n]
          /\ suppressed'[m] = suppressed[m] \cup RetiredKeys(m)
          /\ MaySuppress(m, RetiredKeys(m))
          /\ UNCHANGED <<eventLive, row, object, receipt, job>>
      BY <1>14, PassReads DEF Handoff
    <3>2. Photo(m) => row[m].ptr \notin RetiredKeys(m)
      BY <3>1 DEF PointerAgrees, OwnsPointer, RetiredKeys
    <3>3. PromotionShape' /\ PointerAgrees'
      <4>1. PromotionShape'
        <5>1. ~NoPromotion.committed /\ NoPromotion.kind # "buffer"
          BY DEF NoPromotion
        <5> SUFFICES ASSUME NEW n \in Media
                     PROVE  /\ promo'[n].committed => promo'[n].state = "cleanup_pending"
                            /\ promo'[n].kind = "buffer" => promo'[n].digest # NoBytes
          BY SMTT(30) DEF PromotionShape
        <5>2. CASE promo'[n] = NoPromotion
          BY <5>1, <5>2
        <5>3. CASE promo'[n] = promo[n]
          BY <5>3 DEF PromotionShape
        <5> QED
          BY <3>1, <5>2, <5>3
      <4>2. PointerAgrees'
        BY <3>1, SMTT(30) DEF PointerAgrees, NoPromotion
      <4> QED
        BY <4>1, <4>2
    <3>4. DeliveredInPlace'
      BY <3>1, <3>2 DEF DeliveredInPlace
    <3>5. PromotionKnows'
      <4>1. promo'[m].digest # NoBytes => promo'[m] = promo[m]
        BY <3>1 DEF NoPromotion
      <4>2. promo'[m].state # "target_verified"
        BY <3>1 DEF NoPromotion
      <4> QED
        BY <3>1, <4>1, <4>2, SMTT(30) DEF PromotionKnows, FinalHolds
    <3>6. HoldsInPlace' /\ BytesStable /\ LegacyStable
      <4>1. HoldsInPlace'
        BY <3>1, SMTT(30) DEF MaySuppress, HoldsInPlace
      <4>2. BytesStable
        BY <3>1 DEF BytesStable
      <4>3. LegacyStable
        BY <3>1 DEF LegacyStable
      <4> QED
        BY <4>1, <4>2, <4>3
    <3> QED
      BY <3>3, <3>4, <3>5, <3>6 DEF SoundStep, PhotosFine
  <2>2. Carries(p)'
    BY <1>14, PassReads DEF Handoff, Settled, IdlePass, OwnsPointer, RetiredKeys,
       MaySuppress, NoPromotion, Keys, PassKnows, Carries, FinalHolds
  <2> QED
    BY <2>1, <2>2
<1>15. ASSUME NEW p \in Passes, PassEnds(p) PROVE SoundStep /\ Carries(p)'
  <2>1. SoundStep
    BY <1>15, QuietFrame, HoldFrame DEF PassEnds, Settled, IdlePass, SoundStep,
       PhotosFine
  <2>2. Carries(p)'
    BY <1>15, PassReads DEF PassEnds, Settled, IdlePass, PassKnows, Carries, FinalHolds
  <2> QED
    BY <2>1, <2>2
<1>16. UNCHANGED <<req, purger, eventLive>>
  BY OtherProcesses

<1>17. PICK p \in Passes : \/ \E m \in Media : PickCandidate(p, m)
                         \/ PassAdvances(p) \/ PassEnds(p)
  BY DEF PromotionStep
<1>18. \A q \in Passes \ {p} : pass'[q] = pass[q]
  BY <1>17 DEF PassAdvances, Goes, Settled, PickCandidate, ClaimPromotion,
     ClaimInactive,
     RecordSource, ReleaseClaim, PutCopy, VerifyCopy, MarkVerified, CommitPointer,
     ParkVerified, ParkInactive, InspectIngress, AdoptFinal, Handoff, PassEnds
<1>19. SoundStep /\ Carries(p)'
  BY <1>1, <1>2, <1>3, <1>4, <1>5, <1>6, <1>7, <1>8, <1>9, <1>10, <1>11, <1>12, <1>13,
     <1>14, <1>15, <1>17 DEF PassAdvances
<1> QED
  BY <1>16, <1>18, <1>19, PassStep, RequestFrame DEF SoundStep, PhotosFine,
     PurgeAfterDeletion

\* Recently deleted, deletion and collection.
LEMMA RecoveryIntegrity == TypeOK /\ Integrity /\ RecoveryStep => Integrity'
<1> SUFFICES ASSUME TypeOK, Integrity, RecoveryStep PROVE Integrity'
  OBVIOUS
<1>1. ASSUME NEW m \in Media, Trash(m) PROVE SoundStep
  BY <1>1 DEF Trash, SoundStep, PhotosFine, PromotionShape, PointerAgrees,
     DeliveredInPlace, PromotionKnows, FinalHolds, HoldsInPlace, BytesStable,
     LegacyStable
<1>2. ASSUME NEW m \in Media, Restore(m) PROVE SoundStep
  BY <1>2 DEF Restore, PendingPromotion, NoPromotion, SoundStep, PhotosFine,
     PromotionShape, PointerAgrees, DeliveredInPlace, PromotionKnows, FinalHolds,
     HoldsInPlace, BytesStable, LegacyStable
<1>3. ASSUME NEW m \in Media, RecoveryDeadline(m) PROVE SoundStep
  BY <1>3 DEF RecoveryDeadline, SoundStep, PhotosFine, PromotionShape, PointerAgrees,
     DeliveredInPlace, PromotionKnows, FinalHolds, HoldsInPlace, BytesStable,
     LegacyStable
<1>4. ASSUME NEW m \in Media, BecomesDeleted(m) PROVE SoundStep
  BY <1>4 DEF BecomesDeleted, SoundStep, PhotosFine, PromotionShape, PointerAgrees,
     DeliveredInPlace, PromotionKnows, FinalHolds, HoldsInPlace, BytesStable,
     LegacyStable
<1>5. ASSUME NEW m \in Media, ClaimObjectDeletion(m) PROVE SoundStep
  BY <1>5 DEF ClaimObjectDeletion, SoundStep, PhotosFine, PromotionShape, PointerAgrees,
     DeliveredInPlace, PromotionKnows, FinalHolds, HoldsInPlace, BytesStable,
     LegacyStable
<1>6. ASSUME NEW m \in Media, NEW k \in Keys, BeginSuppression(m, k) PROVE SoundStep
  BY <1>6 DEF BeginSuppression, MaySuppress, Owned, Keys, SoundStep, PhotosFine,
     PromotionShape, PointerAgrees, DeliveredInPlace, PromotionKnows, FinalHolds,
     HoldsInPlace, BytesStable, LegacyStable
<1>7. ASSUME NEW m \in Media, NEW k \in Keys, DeleteSuppressed(m, k) PROVE SoundStep
  BY <1>7 DEF DeleteSuppressed, Keys, SoundStep, PhotosFine, PromotionShape,
     PointerAgrees, DeliveredInPlace, PromotionKnows, FinalHolds, HoldsInPlace,
     BytesStable,
     LegacyStable
<1>8. UNCHANGED <<req, pass, purger, eventLive>>
  BY OtherProcesses

<1>9. SoundStep
  BY <1>1, <1>2, <1>3, <1>4, <1>5, <1>6, <1>7 DEF RecoveryStep,
     PermanentlyDeleteTrashed,
     Delete
<1> QED
  BY <1>8, <1>9, PassFrame, RequestFrame DEF SoundStep, PhotosFine, PurgeAfterDeletion

\* Export jobs: a hold is only taken up on canonical, unsuppressed photos.
LEMMA ExportIntegrity == TypeOK /\ Integrity /\ ExportStep => Integrity'
<1> SUFFICES ASSUME TypeOK, Integrity, ExportStep PROVE Integrity'
  OBVIOUS
<1>1. UNCHANGED <<eventVars, row, promo, suppressed, object, receipt, processVars>>
  BY DEF ExportStep, CreateExport, Retry, Moves, ClaimRunning, MarkReady,
     MarkOwnedFailed,
     MarkDispatchFailed, MarkExpired
<1>2. ASSUME NEW j \in JobIds, CreateExport(j) PROVE HoldsInPlace'
  BY <1>2 DEF CreateExport, HoldsInPlace, DeliveredInPlace, Deliverable, Job
<1>3. ASSUME NEW j \in JobIds, Retry(j) PROVE HoldsInPlace'
  BY <1>3 DEF Retry, HoldsInPlace, DeliveredInPlace, Job
<1>4. ASSUME NEW j \in JobIds, NEW from, NEW to, Moves(j, from, to),
             to \in {"queued", "running"} => from \in {"queued", "running"}
      PROVE HoldsInPlace'
  <2>1. \A m \in Media : Held(m, "final")' => Held(m, "final")
    BY <1>4 DEF Moves, Job
  <2> QED
    BY <1>1, <2>1, HoldFrame
<1>5. HoldsInPlace'
  BY <1>2, <1>3, <1>4 DEF ExportStep, ClaimRunning, MarkReady, MarkOwnedFailed,
     MarkDispatchFailed, MarkExpired
<1>6. PhotosFine' /\ BytesStable /\ LegacyStable
  BY <1>1, QuietFrame DEF PhotosFine
<1> QED
  BY <1>1, <1>5, <1>6, PassFrame, RequestFrame DEF PhotosFine, PurgeAfterDeletion

\* The purge.
LEMMA PurgeIntegrity == TypeOK /\ Integrity /\ PurgeStep => Integrity'
<1> SUFFICES ASSUME TypeOK, Integrity, PurgeStep PROVE Integrity'
  OBVIOUS
<1>1. UNCHANGED <<promo, pass>>
  BY DEF PurgeStep, PurgeAdvances, BeginPass, GuardPasses, GuardFails, SweepPrefix,
     CheckPrefix, PurgeRows, PurgerDies
<1>2. purger = "idle" => BeginPass
  BY DEF PurgeStep, PurgeAdvances, GuardPasses, GuardFails, SweepPrefix, CheckPrefix,
     PurgeRows, PurgerDies
<1>3. BeginPass => ~eventLive'
  BY DEF BeginPass
<1>4. eventLive' => eventLive
  BY <1>3 DEF PurgeStep, PurgeAdvances, GuardPasses, GuardFails, SweepPrefix,
     CheckPrefix,
     PurgeRows, PurgerDies
<1> QED
  BY <1>1, <1>2, <1>3, <1>4, DeletedFrame DEF PurgeAfterDeletion

\* Integrity is inductive.
LEMMA NextIntegrity == TypeOK /\ Integrity /\ [Next]_vars => Integrity'
<1>1. TypeOK /\ Integrity /\ Next => Integrity'
  BY ReservationIntegrity, IngressIntegrity, PromotionIntegrity, RecoveryIntegrity,
     ExportIntegrity, PurgeIntegrity DEF Next
<1>2. TypeOK /\ Integrity /\ UNCHANGED vars => Integrity'
  <2> SUFFICES ASSUME TypeOK, Integrity, UNCHANGED vars PROVE Integrity'
    OBVIOUS
  <2>1. PhotosFine' /\ BytesStable /\ LegacyStable /\ HoldsInPlace'
    BY QuietFrame, HoldFrame DEF PhotosFine, vars
  <2> QED
    BY <2>1, PassFrame, RequestFrame DEF PhotosFine, PurgeAfterDeletion, vars
<1> QED
  BY <1>1, <1>2

\* It holds of a fresh event and of one with legacy photos in place.
LEMMA InitIntegrity == Init => Integrity
BY BytesAssumption DEF Init, InitWith, Integrity, PurgeAfterDeletion, PromotionShape,
   PointerAgrees,
   DeliveredInPlace, PromotionKnows, PassKnows, Carries, RequestKnows, HoldsInPlace,
   NoRow,
   NoPromotion, PendingPromotion, IdlePass, IdleRequest, NoJob, Keys

\* Integrity holds in every reachable state: where a photo's bytes are, what its
\* promotion has verified, and what handlers and passes remember of it.
THEOREM IntegrityHolds == Spec => []Integrity
<1>1. TypeOK /\ Integrity /\ [Next]_vars => Integrity'
  BY NextIntegrity
<1> QED
  BY <1>1, InitIntegrity, TypeCorrect, PTL DEF Spec

\* A photo a live event shows or could restore always has the bytes it was
\* delivered with under its pointer, whatever the promoter, the sweeps, the janitor
\* and late PUTs do, for every number of photos, handlers and passes.
THEOREM NoPhotoDangles == Spec => []NoDanglingPhoto
<1>1. Integrity => NoDanglingPhoto
  BY DEF DeliveredInPlace, NoDanglingPhoto
<1> QED
  BY <1>1, IntegrityHolds, PTL

\* A queued or running export of a live event finds every frozen original in
\* place, although its photo may be trashed, restored or deleted meanwhile.
THEOREM HoldsAreSafe == Spec => []HeldSourceIntact
<1>1. Integrity => HeldSourceIntact
  BY DEF HoldsInPlace, HeldSourceIntact
<1> QED
  BY <1>1, IntegrityHolds, PTL

-----------------------------------------------------------------------------
(* The books.                                                              *)

HIDE DEF Keys, Bytes, Tokens, Buckets, RowStates, Integrity, Photo, LegacyPhoto,
         LegacyActive, Active, Recoverable, Held, Unsuppressed, processVars, eventVars,
         TypeOK, Row, Promotion

\* Only a delivered photo lies in Recently deleted.
OnlyStoredTrashed == \A m \in Media : row[m].trash # "no" => row[m].state = "stored"

\* A photo that is past its reservation for good.
Past(m) ==
    \/ row[m].state \in {"stored", "deleted"}
    \/ row[m].state = "absent" /\ ~eventLive

\* Whose promotions may be handed off, and whose source a pass reads.
RetiredInTime ==
    \A m \in Media :
        /\ promo[m].state = "target_verified" => Past(m)
        /\ promo[m].state = "cleanup_pending" /\ row[m].state = "reserved" => row[m].expired
CopiesPast == \A p \in Passes : pass[p].pc = "copy" => Past(pass[p].m)

Books == PurgeAfterDeletion /\ OnlyStoredTrashed /\ RetiredInTime /\ CopiesPast
AccountInv == TypeOK /\ Books /\ Accounted

-----------------------------------------------------------------------------
(* Counting.                                                               *)

\* One photo more, or less, in a set of photos.
LEMMA OnePhoto ==
    ASSUME NEW S \in SUBSET Media, NEW m \in Media
    PROVE  /\ Cardinality(S) \in Int /\ Weight[S] \in Int /\ Size(m) \in Nat
           /\ m \notin S => /\ Cardinality(S \cup {m}) = Cardinality(S) + 1
                            /\ Weight[S \cup {m}] = Weight[S] + Size(m)
           /\ m \in S => /\ Cardinality(S \ {m}) = Cardinality(S) - 1
                         /\ Weight[S \ {m}] = Weight[S] - Size(m)
<1>1. IsFiniteSet(S)
  BY FS_Subset, MediaAssumption
<1>2. /\ Cardinality(S) \in Nat /\ Cardinality(S \ {m}) \in Nat
      /\ Weight[S] \in Nat /\ Weight[S \ {m}] \in Nat /\ Weight[{m}] \in Nat
  BY TallyTypes, S \ {m} \in SUBSET Media, {m} \in SUBSET Media
<1>3. m \notin S => Cardinality(S \cup {m}) = Cardinality(S) + 1
  BY <1>1, FS_AddElement
<1>4. m \in S => Cardinality(S \ {m}) = Cardinality(S) - 1
  BY <1>1, FS_RemoveElement
<1>5. m \notin S => Weight[S \cup {m}] = Weight[S] + Weight[{m}]
  BY WeightAssumption, S \cap {m} = {} \/ m \in S, {m} \in SUBSET Media
<1>6. ASSUME m \in S PROVE Weight[S] = Weight[S \ {m}] + Weight[{m}]
  <2>1. (S \ {m}) \cup {m} = S /\ (S \ {m}) \cap {m} = {}
    BY <1>6
  <2> QED
    BY <2>1, WeightAssumption, {m} \in SUBSET Media, S \ {m} \in SUBSET Media
<1> QED
  BY <1>2, <1>3, <1>4, <1>5, <1>6 DEF Size

\* No photos weigh nothing.
LEMMA NoWeight == Weight[{}] = 0
<1> DEFINE S == {}
<1>1. S \in SUBSET Media /\ S \cap S = {} /\ S \cup S = S
  OBVIOUS
<1> HIDE DEF S
<1>2. Weight[S \cup S] = Weight[S] + Weight[S] /\ Weight[S] \in Nat
  BY <1>1, WeightAssumption
<1>3. Weight[S] = Weight[S] + Weight[S]
  BY <1>1, <1>2
<1>4. Weight[S] = 0
  <2>1. \A w \in Nat : w = w + w => w = 0
    OBVIOUS
  <2> QED
    BY <1>2, <1>3, <2>1
<1> QED
  BY <1>4 DEF S

\* A photo that is re-counted moves from its bucket to the other.
LEMMA Recounted ==
    ASSUME TypeOK, CountersExact, NEW m \in Media, NEW to, Recount(m, to),
           row' \in [Media -> Row], \A n \in Media \ {m} : row'[n] = row[n],
           Bucket(row'[m]) = to
    PROVE  CountersExact'
<1> SUFFICES ASSUME NEW b \in Buckets
             PROVE  counts'[b] = Cardinality(Charged(b)') /\ bytes'[b] = Weight[Charged(b)']
  BY DEF CountersExact
<1> DEFINE S == Charged(b)  from == Bucket(row[m])
<1>1. S \in SUBSET Media /\ (m \in S <=> b = from)
  BY DEF Charged
<1>2. Charged(b)' = IF b = to THEN S \cup {m} ELSE S \ {m}
  BY DEF Charged
<1>3. counts[b] = Cardinality(S) /\ bytes[b] = Weight[S]
  BY DEF CountersExact
<1>4. /\ counts'[b] = counts[b] - (IF b = from THEN 1 ELSE 0) + (IF b = to THEN 1 ELSE 0)
      /\ bytes'[b] = bytes[b] - (IF b = from THEN Size(m) ELSE 0) + (IF b = to THEN Size(m) ELSE 0)
  BY DEF Recount, Moved
<1> HIDE DEF S, from
<1>9. Cardinality(S) \in Int /\ Weight[S] \in Int /\ Size(m) \in Nat
  BY <1>1, OnePhoto, Zenon
<1>5. CASE b = from /\ b = to
  <2>1. Charged(b)' = S
    BY <1>1, <1>2, <1>5
  <2> QED
    BY <1>1, <1>3, <1>4, <1>5, <1>9, <2>1
<1>6. CASE b = from /\ b # to
  BY <1>1, <1>2, <1>3, <1>4, <1>6, OnePhoto
<1>7. CASE b # from /\ b = to
  BY <1>1, <1>2, <1>3, <1>4, <1>7, OnePhoto
<1>8. CASE b # from /\ b # to
  <2>1. Charged(b)' = S
    BY <1>1, <1>2, <1>8
  <2> QED
    BY <1>1, <1>3, <1>4, <1>8, <1>9, <2>1
<1> QED
  BY <1>5, <1>6, <1>7, <1>8

\* A step that leaves every photo in its bucket.
LEMMA SameBuckets ==
    ASSUME CountersExact, UNCHANGED <<counts, bytes>>,
           \A m \in Media : Bucket(row'[m]) = Bucket(row[m])
    PROVE  CountersExact'
BY DEF CountersExact, Charged

\* The bucket of a row whose named fields are these.
LEMMA BucketOf ==
    ASSUME NEW r \in Row
    PROVE  /\ r.state \in {"absent", "failed", "deleted"} => Bucket(r) = "none"
           /\ r.state = "reserved" => Bucket(r) = "reserved"
           /\ r.state = "stored" /\ r.trash = "no" => Bucket(r) = "stored"
           /\ r.state = "stored" /\ r.trash # "no" => Bucket(r) = "recoverable"
BY DEF Bucket, Row

\* The bucket depends on nothing else.
LEMMA BucketReads ==
    ASSUME NEW r \in Row, NEW q \in Row, r.state = q.state, r.trash = q.trash
    PROVE  Bucket(r) = Bucket(q)
BY DEF Bucket

-----------------------------------------------------------------------------
(* Who takes up what.                                                      *)

\* What the rows, promotions and passes promise, counters apart.
Papers == Books /\ InventoryComplete /\ ReservationUsable

USE DEF LegacyActive, Active, Unsuppressed, processVars, eventVars, Row, Promotion, Past

\* ... of one photo.
PhotoPapers(m) ==
    /\ row[m].trash # "no" => row[m].state = "stored"
    /\ promo[m].state = "target_verified" => Past(m)
    /\ promo[m].state = "cleanup_pending" /\ row[m].state = "reserved" => row[m].expired
    /\ (row[m].state = "reserved" /\ ~row[m].expired) \/ (LegacyActive(m) /\ "final" \notin suppressed[m])
         => promo[m].state # "none"
    /\ row[m].state = "reserved" /\ promo[m].state = "pending" => suppressed[m] = {}

LEMMA PapersAre ==
    /\ (Papers <=> PurgeAfterDeletion /\ CopiesPast /\ \A m \in Media : PhotoPapers(m))
    /\ (Papers' <=> PurgeAfterDeletion' /\ CopiesPast' /\ \A m \in Media : PhotoPapers(m)')
BY DEF Papers, Books, OnlyStoredTrashed, RetiredInTime, InventoryComplete, ReservationUsable, PhotoPapers

\* A step that is at no photo but m, and leaves no pass reading but of a photo past.
LEMMA PapersMove ==
    ASSUME TypeOK, Papers, NEW m \in Media, UNCHANGED <<eventLive, purger>>, PhotoPapers(m)',
           \A n \in Media \ {m} : row'[n] = row[n] /\ promo'[n] = promo[n] /\ suppressed'[n] = suppressed[n],
           Past(m) => Past(m)',
           \A p \in Passes : \/ pass'[p].pc # "copy"
                             \/ pass'[p].m = pass[p].m /\ pass[p].pc = "copy"
                             \/ pass'[p].m = m /\ Past(m)'
    PROVE  Papers'
<1>1. \A n \in Media : PhotoPapers(n)'
  BY PapersAre DEF PhotoPapers
<1>2. \A p \in Passes : pass[p].m \in Media
  BY DEF TypeOK, Pass
<1>3. CopiesPast'
  BY <1>2, PapersAre DEF CopiesPast
<1> QED
  BY <1>1, <1>3, PapersAre DEF PurgeAfterDeletion

\* A step that is at no photo at all.
LEMMA PapersRest ==
    ASSUME TypeOK, Papers, UNCHANGED <<row, promo, suppressed, eventLive, purger>>,
           \A p \in Passes : pass'[p] = pass[p] \/ pass'[p].pc # "copy"
    PROVE  Papers'
<1>1. \A n \in Media : PhotoPapers(n)'
  BY PapersAre DEF PhotoPapers
<1>2. \A p \in Passes : pass[p].m \in Media
  BY DEF TypeOK, Pass
<1>3. CopiesPast'
  BY <1>2, PapersAre DEF CopiesPast
<1> QED
  BY <1>1, <1>3, PapersAre DEF PurgeAfterDeletion

\* Of an ended event only the passes read on.
LEMMA PapersEnd ==
    ASSUME TypeOK, Papers, ~eventLive', UNCHANGED <<promo, suppressed, pass>>,
           \A m \in Media : \/ row'[m] = row[m]
                            \/ row'[m].state \in {"absent", "deleted"} /\ row'[m].trash = "no"
    PROVE  Papers'
<1>1. \A n \in Media : PhotoPapers(n)' /\ (Past(n) => Past(n)')
  BY PapersAre DEF PhotoPapers
<1>2. \A p \in Passes : pass[p].m \in Media
  BY DEF TypeOK, Pass
<1>3. CopiesPast'
  BY <1>1, <1>2, PapersAre DEF CopiesPast
<1> QED
  BY <1>1, <1>3, PapersAre DEF PurgeAfterDeletion

\* Reservations, refreshes, sweeps and cancellations.
LEMMA ReservationPapers == TypeOK /\ Papers /\ ReservationStep => Papers'
<1> SUFFICES ASSUME TypeOK, Papers, NEW m \in Media,
                    \/ ToggleIntake
                    \/ Reserve(m) \/ RefreshReserved(m) \/ RefreshFailed(m)
                    \/ ListExpired(m) \/ FailReservation(m) \/ CancelReservation(m)
                    \/ ReservationDeadline(m)
             PROVE  Papers'
  BY MediaAssumption DEF ReservationStep
<1>1. PhotoPapers(m) /\ row[m] \in Row /\ promo[m] \in Promotion
  BY PapersAre DEF TypeOK
<1>2. CASE ToggleIntake \/ ListExpired(m)
  BY <1>2, PapersRest DEF ToggleIntake, ListExpired
<1>3. ASSUME /\ row' = [row EXCEPT ![m] = row'[m]] /\ promo' = [promo EXCEPT ![m] = promo'[m]]
             /\ suppressed' = [suppressed EXCEPT ![m] = suppressed'[m]]
             /\ UNCHANGED <<eventLive, purger, pass>>,
             PhotoPapers(m)', Past(m) => Past(m)'
      PROVE  Papers'
  BY <1>3, PapersMove DEF TypeOK
<1> USE DEF TypeOK, PhotoPapers
<1>4. CASE Reserve(m)
  BY <1>1, <1>3, <1>4 DEF Reserve, NoRow, PendingPromotion, NoPromotion
<1>5. CASE RefreshReserved(m)
  BY <1>1, <1>3, <1>5 DEF RefreshReserved
<1>6. CASE RefreshFailed(m)
  BY <1>1, <1>3, <1>6 DEF RefreshFailed
<1>7. CASE FailReservation(m)
  <2>1. CASE row[m].state = "reserved"
    BY <1>1, <1>3, <1>7, <2>1 DEF FailReservation
  <2>2. CASE row[m].state # "reserved"
    BY <1>7, <2>2, PapersRest DEF FailReservation
  <2> QED
    BY <2>1, <2>2
<1>8. CASE CancelReservation(m)
  BY <1>1, <1>3, <1>8 DEF CancelReservation, NoPromotion
<1>9. CASE ReservationDeadline(m)
  BY <1>1, <1>3, <1>9 DEF ReservationDeadline
<1> QED
  BY <1>2, <1>4, <1>5, <1>6, <1>7, <1>8, <1>9

\* Uploads, their PUTs and leases.
LEMMA IngressPapers == TypeOK /\ Papers /\ IngressStep => Papers'
<1> SUFFICES ASSUME TypeOK, Papers, IngressStep PROVE Papers'
  OBVIOUS
<1>1. ASSUME UNCHANGED <<row, promo, suppressed, eventLive, purger, pass>> PROVE Papers'
  BY <1>1, PapersRest
<1>2. CASE \E w \in Requests :
             \/ \E m \in Media, d \in Digests : StartIngress(w, m, d)
             \/ PutFinal(w) \/ VerifyFinal(w) \/ RequestEnds(w)
  BY <1>1, <1>2 DEF StartIngress, PutFinal, VerifyFinal, RequestEnds
<1>3. CASE \E put \in inflight : PutLands(put) \/ PutFails(put)
  BY <1>1, <1>3 DEF PutLands, PutFails
<1>4. ASSUME NEW m \in Media, PhotoPapers(m)', Past(m) => Past(m)',
             /\ row' = [row EXCEPT ![m] = row'[m]] /\ promo' = [promo EXCEPT ![m] = promo'[m]]
             /\ UNCHANGED <<suppressed, eventLive, purger, pass>>
      PROVE  Papers'
  BY <1>4, PapersMove DEF TypeOK
<1>5. \A m \in Media : PhotoPapers(m)
  BY PapersAre
<1>6. ASSUME NEW w \in Requests, NEW m \in Media, m = req[w].m, ClaimIngress(w) \/ CommitIngress(w)
      PROVE  Papers'
  <2>1. CASE ClaimIngress(w)
    <3>1. PhotoPapers(m)' /\ (Past(m) => Past(m)')
      BY <1>5, <1>6, <2>1 DEF ClaimIngress, TypeOK, PhotoPapers
    <3> QED
      BY <1>4, <1>6, <2>1, <3>1 DEF ClaimIngress, TypeOK
  <2>2. CASE CommitIngress(w)
    <3>1. PhotoPapers(m)' /\ (Past(m) => Past(m)')
      <4>1. /\ row[m].state = "reserved" /\ UNCHANGED <<eventLive, suppressed>>
            /\ row' = [row EXCEPT ![m].state = "stored", ![m].ptr = "final"]
            /\ promo' = [promo EXCEPT ![m].state = "cleanup_pending", ![m].committed = TRUE,
                                      ![m].lease = FALSE]
        BY <1>6, <2>2 DEF CommitIngress
      <4>2. row'[m].state = "stored" /\ row'[m].ptr = "final"
        BY <4>1 DEF TypeOK
      <4>3. promo'[m].state = "cleanup_pending"
        BY <4>1 DEF TypeOK
      <4> QED
        BY <4>1, <4>2, <4>3 DEF PhotoPapers
    <3> QED
      BY ZenonT(60), <1>4, <1>6, <2>2, <3>1 DEF CommitIngress, TypeOK
  <2> QED
    BY <1>6, <2>1, <2>2
<1>7. ASSUME NEW m \in Media, LeaseDeadline(m) PROVE Papers'
  <2>1. PhotoPapers(m)' /\ (Past(m) => Past(m)')
    BY <1>5, <1>7 DEF LeaseDeadline, TypeOK, PhotoPapers
  <2> QED
    BY <1>4, <1>7, <2>1 DEF LeaseDeadline, TypeOK
<1>8. \A w \in Requests : req[w].m \in Media
  BY DEF TypeOK, Request
<1> QED
  BY <1>2, <1>3, <1>6, <1>7, <1>8 DEF IngressStep

\* The promoter.
LEMMA PromotionPapers == TypeOK /\ Papers /\ PromotionStep => Papers'
<1> SUFFICES ASSUME TypeOK, Papers, NEW p \in Passes, NEW m \in Media, m = pass[p].m,
                    (\E n \in Media : PickCandidate(p, n)) \/ PassAdvances(p) \/ PassEnds(p)
             PROVE  Papers'
  BY DEF PromotionStep, TypeOK, Pass
<1>1. /\ pass[p] \in Pass /\ PhotoPapers(m) /\ row[m] \in Row /\ promo[m] \in Promotion
      /\ pass[p].pc = "copy" => Past(m)
  BY PapersAre DEF TypeOK, CopiesPast
<1>2. ASSUME UNCHANGED <<row, promo, suppressed, eventLive, purger>>,
             \A q \in Passes : pass'[q] = pass[q] \/ pass'[q].pc # "copy"
      PROVE  Papers'
  BY <1>2, PapersRest
<1>3. ASSUME PhotoPapers(m)', Past(m) => Past(m)', UNCHANGED <<eventLive, purger>>,
             \A n \in Media \ {m} : row'[n] = row[n] /\ promo'[n] = promo[n] /\ suppressed'[n] = suppressed[n],
             \A q \in Passes \ {p} : pass'[q] = pass[q],
             pass'[p].pc = "copy" => pass'[p].m = m /\ Past(m)
      PROVE  Papers'
  BY <1>1, <1>3, PapersMove
<1> USE DEF Settled, Goes, HasToken, IdlePass
<1>4. CASE \E n \in Media : PickCandidate(p, n)
  BY <1>2, <1>4 DEF PickCandidate, Branch, TypeOK
<1>5. CASE PutCopy(p) \/ VerifyCopy(p) \/ InspectIngress(p) \/ PassEnds(p)
  BY <1>2, <1>5 DEF PutCopy, VerifyCopy, InspectIngress, PassEnds, TypeOK, Pass
<1> USE DEF TypeOK, Pass
<1>6. CASE ClaimPromotion(p)
  <2>1. PhotoPapers(m)' /\ Past(m) /\ Past(m)'
    BY <1>1, <1>6 DEF ClaimPromotion, PhotoPapers
  <2> QED
    BY <1>1, <1>3, <1>6, <2>1 DEF ClaimPromotion
<1>7. CASE ClaimInactive(p)
  <2>1. PhotoPapers(m)' /\ (Past(m) => Past(m)')
    BY <1>1, <1>7 DEF ClaimInactive, PhotoPapers, PendingPromotion, NoPromotion
  <2> QED
    BY <1>1, <1>3, <1>7, <2>1 DEF ClaimInactive
<1>8. CASE RecordSource(p)
  <2>1. PhotoPapers(m)' /\ (Past(m) => Past(m)')
    BY <1>1, <1>8 DEF RecordSource, PhotoPapers
  <2> QED
    BY <1>1, <1>3, <1>8, <2>1 DEF RecordSource
<1>9. CASE ReleaseClaim(p)
  <2>1. PhotoPapers(m)' /\ (Past(m) => Past(m)')
    BY <1>1, <1>9 DEF ReleaseClaim, PhotoPapers, PendingPromotion, NoPromotion
  <2> QED
    BY <1>1, <1>3, <1>9, <2>1 DEF ReleaseClaim
<1>10. CASE MarkVerified(p)
  <2>1. PhotoPapers(m)' /\ (Past(m) => Past(m)')
    BY <1>1, <1>10 DEF MarkVerified, PhotoPapers
  <2> QED
    BY <1>1, <1>3, <1>10, <2>1 DEF MarkVerified
<1>11. CASE CommitPointer(p)
  <2>1. PhotoPapers(m)' /\ (Past(m) => Past(m)')
    BY <1>1, <1>11 DEF CommitPointer, PhotoPapers
  <2> QED
    BY <1>1, <1>3, <1>11, <2>1 DEF CommitPointer
<1>12. CASE ParkVerified(p)
  <2>1. PhotoPapers(m)' /\ (Past(m) => Past(m)')
    BY <1>1, <1>12 DEF ParkVerified, PhotoPapers
  <2> QED
    BY <1>1, <1>3, <1>12, <2>1 DEF ParkVerified
<1>13. CASE ParkInactive(p)
  <2>1. PhotoPapers(m)' /\ (Past(m) => Past(m)')
    BY <1>1, <1>13 DEF ParkInactive, PhotoPapers, PendingPromotion, NoPromotion
  <2> QED
    BY <1>1, <1>3, <1>13, <2>1 DEF ParkInactive
<1>14. CASE AdoptFinal(p)
  <2>1. PhotoPapers(m)' /\ (Past(m) => Past(m)')
    BY <1>1, <1>14 DEF AdoptFinal, PhotoPapers
  <2> QED
    BY <1>1, <1>3, <1>14, <2>1 DEF AdoptFinal
<1>15. CASE Handoff(p)
  <2>1. PICK ks : ks = RetiredKeys(m)
    OBVIOUS
  <2>2. /\ suppressed'[m] = suppressed[m] \cup ks
        /\ promo'[m] = IF suppressed'[m] = ks THEN NoPromotion ELSE promo[m]
        /\ promo[m].state = "cleanup_pending" /\ UNCHANGED <<row, eventLive, purger>>
        /\ \A n \in Media \ {m} : promo'[n] = promo[n] /\ suppressed'[n] = suppressed[n]
        /\ \A q \in Passes \ {p} : pass'[q] = pass[q]
        /\ pass'[p].pc = "idle"
    BY <1>15, <2>1 DEF Handoff
  <2>3. LegacyActive(m) => "final" \in ks
    BY <2>1 DEF RetiredKeys, OwnsPointer, Keys
  <2>4. PhotoPapers(m)'
    <3>1. CASE suppressed'[m] = ks
      BY <1>1, <2>2, <2>3, <3>1 DEF NoPromotion, PhotoPapers
    <3>2. CASE suppressed'[m] # ks
      BY <1>1, <2>2, <2>3, <3>2 DEF PhotoPapers
    <3> QED
      BY <3>1, <3>2
  <2> QED
    BY <1>3, <2>2, <2>4
<1> QED
  BY <1>4, <1>5, <1>6, <1>7, <1>8, <1>9, <1>10, <1>11, <1>12, <1>13, <1>14, <1>15 DEF PassAdvances

\* Recently deleted, removals and the janitor.
LEMMA RecoveryPapers == TypeOK /\ Papers /\ RecoveryStep => Papers'
<1> SUFFICES ASSUME TypeOK, Papers, NEW m \in Media,
                    \/ Trash(m) \/ Restore(m) \/ RecoveryDeadline(m)
                    \/ PermanentlyDeleteTrashed(m) \/ Delete(m) \/ ClaimObjectDeletion(m)
                    \/ \E k \in Keys : BeginSuppression(m, k) \/ DeleteSuppressed(m, k)
             PROVE  Papers'
  BY DEF RecoveryStep
<1>1. PhotoPapers(m) /\ row[m] \in Row /\ promo[m] \in Promotion
  BY PapersAre DEF TypeOK
<1>2. ASSUME PhotoPapers(m)', Past(m) => Past(m)', UNCHANGED <<eventLive, purger, pass>>,
             \A n \in Media \ {m} : row'[n] = row[n] /\ promo'[n] = promo[n] /\ suppressed'[n] = suppressed[n]
      PROVE  Papers'
  BY <1>2, PapersMove
<1> USE DEF TypeOK
<1>3. CASE Trash(m)
  <2>1. PhotoPapers(m)' /\ (Past(m) => Past(m)')
    BY <1>1, <1>3 DEF Trash, PhotoPapers
  <2> QED
    BY <1>2, <1>3, <2>1 DEF Trash
<1>4. CASE Restore(m)
  <2>1. PhotoPapers(m)' /\ (Past(m) => Past(m)')
    BY <1>1, <1>4 DEF Restore, PhotoPapers, PendingPromotion, NoPromotion
  <2> QED
    BY <1>2, <1>4, <2>1 DEF Restore
<1>5. CASE RecoveryDeadline(m)
  <2>1. PhotoPapers(m)' /\ (Past(m) => Past(m)')
    BY <1>1, <1>5 DEF RecoveryDeadline, PhotoPapers
  <2> QED
    BY <1>2, <1>5, <2>1 DEF RecoveryDeadline
<1>6. CASE PermanentlyDeleteTrashed(m) \/ Delete(m)
  <2>1. BecomesDeleted(m) /\ row[m].state \notin {"absent", "deleted"}
    BY <1>6 DEF PermanentlyDeleteTrashed, Delete
  <2>2. PhotoPapers(m)' /\ (Past(m) => Past(m)')
    BY <1>1, <2>1 DEF BecomesDeleted, PhotoPapers
  <2> QED
    BY <1>2, <2>1, <2>2 DEF BecomesDeleted
<1>7. CASE ClaimObjectDeletion(m)
  <2>1. PhotoPapers(m)' /\ (Past(m) => Past(m)')
    BY <1>1, <1>7 DEF ClaimObjectDeletion, PhotoPapers
  <2> QED
    BY <1>2, <1>7, <2>1 DEF ClaimObjectDeletion
<1>8. ASSUME NEW k \in Keys, BeginSuppression(m, k) PROVE Papers'
  <2>1. PhotoPapers(m)' /\ (Past(m) => Past(m)')
    BY <1>1, <1>8 DEF BeginSuppression, Owned, PhotoPapers
  <2> QED
    BY <1>2, <1>8, <2>1 DEF BeginSuppression
<1>9. ASSUME NEW k \in Keys, DeleteSuppressed(m, k) PROVE Papers'
  BY <1>9, PapersRest DEF DeleteSuppressed
<1> QED
  BY <1>3, <1>4, <1>5, <1>6, <1>7, <1>8, <1>9

\* Exports and the purge.
LEMMA OtherPapers == TypeOK /\ Papers /\ (ExportStep \/ PurgeStep \/ UNCHANGED vars) => Papers'
<1> SUFFICES ASSUME TypeOK, Papers, ExportStep \/ PurgeStep \/ UNCHANGED vars PROVE Papers'
  OBVIOUS
<1>1. PurgeAfterDeletion
  BY PapersAre
<1>2. CASE ExportStep \/ UNCHANGED vars
  <2>1. UNCHANGED <<row, promo, suppressed, pass, eventLive, purger>>
    BY <1>2 DEF ExportStep, CreateExport, ClaimRunning, MarkReady, MarkOwnedFailed,
       MarkDispatchFailed, MarkExpired, Retry, Moves, vars
  <2> QED
    BY <2>1, PapersRest
<1>3. CASE BeginPass \/ GuardFails \/ SweepPrefix \/ CheckPrefix \/ PurgerDies
  BY <1>1, <1>3, PapersEnd DEF BeginPass, GuardFails, SweepPrefix, CheckPrefix, PurgerDies, PurgeAfterDeletion
<1>4. CASE GuardPasses
  <2>1. \A m \in Media : row'[m] = row[m] \/ (row'[m].state = "deleted" /\ row'[m].trash = "no")
    <3>1. \A m \in Media : row'[m] = IF EndsRecovery(m)
                                     THEN [row[m] EXCEPT !.state = "deleted", !.trash = "no"] ELSE row[m]
      BY <1>4 DEF GuardPasses
    <3>2. ASSUME NEW m \in Media, EndsRecovery(m)
          PROVE  row'[m].state = "deleted" /\ row'[m].trash = "no"
      <4>1. row[m] \in Row
        BY DEF TypeOK
      <4>2. row'[m] = [row[m] EXCEPT !.state = "deleted", !.trash = "no"]
        BY <3>1, <3>2
      <4> QED
        BY <4>1, <4>2
    <3> QED
      BY <3>1, <3>2
  <2>2. ~eventLive' /\ UNCHANGED <<promo, suppressed, pass>>
    BY <1>1, <1>4 DEF GuardPasses, PurgeAfterDeletion
  <2> QED
    BY <2>1, <2>2, PapersEnd
<1>5. CASE PurgeRows
  <2>1. ~eventLive' /\ UNCHANGED <<promo, suppressed, pass>>
    BY <1>1, <1>5 DEF PurgeRows, PurgeAfterDeletion
  <2>2. \A m \in Media : row'[m].state = "absent" /\ row'[m].trash = "no"
    BY <1>5 DEF PurgeRows, NoRow
  <2> QED
    BY <2>1, <2>2, PapersEnd
<1> QED
  BY <1>2, <1>3, <1>4, <1>5 DEF PurgeStep, PurgeAdvances

-----------------------------------------------------------------------------
(* The counters.                                                           *)

\* A photo whose row is re-written and re-counted.
LEMMA Rewritten ==
    ASSUME TypeOK, TypeOK', CountersExact, NEW m \in Media, NEW r, NEW to,
           row' = [row EXCEPT ![m] = r], Bucket(r) = to, Recount(m, to)
    PROVE  CountersExact'
<1>1. row'[m] = r /\ \A n \in Media \ {m} : row'[n] = row[n]
  BY DEF TypeOK
<1>2. row' \in [Media -> Row]
  BY DEF TypeOK
<1> QED
  BY <1>1, <1>2, Recounted

\* ... or only its deadlines and its key.
LEMMA SameBucket ==
    ASSUME TypeOK, TypeOK', CountersExact, UNCHANGED <<counts, bytes>>, NEW m \in Media,
           \A n \in Media \ {m} : row'[n] = row[n],
           row'[m].state = row[m].state, row[m].trash = "no" <=> row'[m].trash = "no"
    PROVE  CountersExact'
<1>1. Bucket(row'[m]) = Bucket(row[m])
  BY DEF Bucket
<1> QED
  BY <1>1, SameBuckets

LEMMA ReservationCounts == TypeOK /\ TypeOK' /\ Papers /\ CountersExact /\ ReservationStep => CountersExact'
<1> SUFFICES ASSUME TypeOK, TypeOK', Papers, CountersExact, NEW m \in Media,
                    \/ ToggleIntake
                    \/ Reserve(m) \/ RefreshReserved(m) \/ RefreshFailed(m)
                    \/ ListExpired(m) \/ FailReservation(m) \/ CancelReservation(m)
                    \/ ReservationDeadline(m)
             PROVE  CountersExact'
  BY MediaAssumption DEF ReservationStep
<1>1. row[m] \in Row /\ (row[m].trash # "no" => row[m].state = "stored")
  BY PapersAre DEF TypeOK, PhotoPapers
<1>2. CASE ToggleIntake \/ ListExpired(m)
  BY <1>2, SameBuckets DEF ToggleIntake, ListExpired
<1>3. CASE Reserve(m)
  <2>1. Bucket([NoRow EXCEPT !.state = "reserved"]) = "reserved"
    BY DEF Bucket, NoRow
  <2> QED
    BY <1>3, <2>1, Rewritten DEF Reserve
<1>4. CASE RefreshReserved(m) \/ ReservationDeadline(m)
  <2>1. \A n \in Media \ {m} : row'[n] = row[n]
    BY <1>4 DEF RefreshReserved, ReservationDeadline, TypeOK
  <2>2. row'[m].state = row[m].state /\ row'[m].trash = row[m].trash
    BY <1>1, <1>4 DEF RefreshReserved, ReservationDeadline, TypeOK
  <2>3. UNCHANGED <<counts, bytes>>
    BY <1>4 DEF RefreshReserved, ReservationDeadline
  <2> QED
    BY <2>1, <2>2, <2>3, SameBucket
<1>5. CASE RefreshFailed(m)
  <2> DEFINE r == [row[m] EXCEPT !.state = "reserved", !.expired = FALSE]
  <2>1. Bucket(r) = "reserved"
    BY <1>1 DEF Bucket
  <2>2. row' = [row EXCEPT ![m] = r]
    BY <1>5 DEF RefreshFailed, TypeOK
  <2> HIDE DEF r
  <2> QED
    BY <1>5, <2>1, <2>2, Rewritten DEF RefreshFailed
<1>6. CASE FailReservation(m)
  <2> DEFINE r == [row[m] EXCEPT !.state = "failed"]
  <2>1. Bucket(r) = "none"
    BY <1>1 DEF Bucket
  <2>2. CASE row[m].state = "reserved"
    <3>1. row' = [row EXCEPT ![m] = r] /\ Recount(m, "none")
      BY <1>6, <2>2 DEF FailReservation, TypeOK
    <3> HIDE DEF r
    <3> QED
      BY <2>1, <3>1, Rewritten
  <2>3. CASE row[m].state # "reserved"
    BY <1>6, <2>3, SameBuckets DEF FailReservation
  <2> QED
    BY <2>2, <2>3
<1>7. CASE CancelReservation(m)
  <2> DEFINE r == [row[m] EXCEPT !.state = "deleted"]
  <2>1. Bucket(r) = "none"
    BY <1>1 DEF Bucket
  <2>2. row' = [row EXCEPT ![m] = r]
    BY <1>7 DEF CancelReservation, TypeOK
  <2> HIDE DEF r
  <2> QED
    BY <1>7, <2>1, <2>2, Rewritten DEF CancelReservation
<1> QED
  BY <1>2, <1>3, <1>4, <1>5, <1>6, <1>7

\* A reservation that is delivered.
LEMMA DeliveredCounts ==
    ASSUME TypeOK, TypeOK', Papers, CountersExact, NEW m \in Media, row[m].state = "reserved",
           row' = [row EXCEPT ![m].state = "stored", ![m].ptr = "final"], Recount(m, "stored")
    PROVE  CountersExact'
<1> DEFINE r == [row[m] EXCEPT !.state = "stored", !.ptr = "final"]
<1>1. row[m] \in Row /\ row[m].trash = "no"
  BY PapersAre DEF TypeOK, PhotoPapers
<1>2. Bucket(r) = "stored"
  BY <1>1 DEF Bucket
<1>3. row' = [row EXCEPT ![m] = r]
  BY DEF TypeOK
<1> HIDE DEF r
<1> QED
  BY <1>2, <1>3, Rewritten

LEMMA DeliveryCounts ==
    TypeOK /\ TypeOK' /\ Papers /\ CountersExact /\ (IngressStep \/ PromotionStep) => CountersExact'
<1> SUFFICES ASSUME TypeOK, TypeOK', Papers, CountersExact, IngressStep \/ PromotionStep
             PROVE  CountersExact'
  OBVIOUS
<1>1. ASSUME UNCHANGED <<row, counts, bytes>> PROVE CountersExact'
  BY <1>1, SameBuckets
<1>2. ASSUME NEW w \in Requests, CommitIngress(w) PROVE CountersExact'
  BY <1>2, DeliveredCounts DEF CommitIngress, TypeOK, Request
<1>3. CASE IngressStep /\ \A w \in Requests : ~CommitIngress(w)
  BY <1>1, <1>3 DEF IngressStep, StartIngress, ClaimIngress, PutFinal, VerifyFinal, RequestEnds,
     PutLands, PutFails, LeaseDeadline
<1>4. ASSUME NEW p \in Passes, (\E m \in Media : PickCandidate(p, m)) \/ PassAdvances(p) \/ PassEnds(p)
      PROVE  CountersExact'
  <2>1. CASE AdoptFinal(p)
    BY <2>1, PassReads, DeliveredCounts DEF AdoptFinal
  <2>2. CASE CommitPointer(p)
    <3> DEFINE m == pass[p].m
    <3>1. m \in Media /\ row[m] \in Row /\ row' = [row EXCEPT ![m].ptr = "final"] /\ UNCHANGED <<counts, bytes>>
      BY <2>2, PassReads DEF CommitPointer, TypeOK
    <3> HIDE DEF m
    <3> QED
      BY <3>1, SameBucket DEF TypeOK
  <2>3. CASE (\E m \in Media : PickCandidate(p, m)) \/ ClaimPromotion(p) \/ ClaimInactive(p) \/ RecordSource(p)
               \/ ReleaseClaim(p) \/ PutCopy(p) \/ VerifyCopy(p) \/ MarkVerified(p) \/ ParkVerified(p)
               \/ ParkInactive(p) \/ InspectIngress(p) \/ Handoff(p) \/ PassEnds(p)
    BY <1>1, <2>3 DEF PickCandidate, ClaimPromotion, ClaimInactive, RecordSource, ReleaseClaim, PutCopy,
       VerifyCopy, MarkVerified, ParkVerified, ParkInactive, InspectIngress, Handoff, PassEnds
  <2> QED
    BY <1>4, <2>1, <2>2, <2>3 DEF PassAdvances
<1> QED
  BY <1>2, <1>3, <1>4 DEF IngressStep, PromotionStep

LEMMA RecoveryCounts == TypeOK /\ TypeOK' /\ Papers /\ CountersExact /\ RecoveryStep => CountersExact'
<1> SUFFICES ASSUME TypeOK, TypeOK', Papers, CountersExact, NEW m \in Media,
                    \/ Trash(m) \/ Restore(m) \/ RecoveryDeadline(m)
                    \/ PermanentlyDeleteTrashed(m) \/ Delete(m) \/ ClaimObjectDeletion(m)
                    \/ \E k \in Keys : BeginSuppression(m, k) \/ DeleteSuppressed(m, k)
             PROVE  CountersExact'
  BY DEF RecoveryStep
<1>1. row[m] \in Row
  BY DEF TypeOK
<1>2. CASE Trash(m)
  <2> DEFINE r == [row[m] EXCEPT !.trash = "restorable"]
  <2>1. Bucket(r) = "recoverable"
    BY <1>1, <1>2 DEF Bucket, Trash
  <2>2. row' = [row EXCEPT ![m] = r]
    BY <1>2 DEF Trash, TypeOK
  <2> HIDE DEF r
  <2> QED
    BY <1>2, <2>1, <2>2, Rewritten DEF Trash
<1>3. CASE Restore(m)
  <2> DEFINE r == [row[m] EXCEPT !.trash = "no"]
  <2>1. Bucket(r) = "stored"
    BY <1>1, <1>3 DEF Bucket, Restore
  <2>2. row' = [row EXCEPT ![m] = r]
    BY <1>3 DEF Restore, TypeOK
  <2> HIDE DEF r
  <2> QED
    BY <1>3, <2>1, <2>2, Rewritten DEF Restore
<1>4. CASE RecoveryDeadline(m)
  <2>1. \A n \in Media \ {m} : row'[n] = row[n]
    BY <1>4 DEF RecoveryDeadline, TypeOK
  <2>2. row'[m].state = row[m].state /\ (row[m].trash = "no" <=> row'[m].trash = "no")
    BY <1>1, <1>4 DEF RecoveryDeadline, TypeOK
  <2>3. UNCHANGED <<counts, bytes>>
    BY <1>4 DEF RecoveryDeadline
  <2> QED
    BY <2>1, <2>2, <2>3, SameBucket
<1>5. CASE PermanentlyDeleteTrashed(m) \/ Delete(m)
  <2> DEFINE r == [row[m] EXCEPT !.state = "deleted", !.trash = "no"]
  <2>1. Bucket(r) = "none"
    BY <1>1 DEF Bucket
  <2>2. row' = [row EXCEPT ![m] = r] /\ Recount(m, "none")
    BY <1>5 DEF PermanentlyDeleteTrashed, Delete, BecomesDeleted, TypeOK
  <2> HIDE DEF r
  <2> QED
    BY <2>1, <2>2, Rewritten
<1>6. CASE ClaimObjectDeletion(m) \/ \E k \in Keys : BeginSuppression(m, k) \/ DeleteSuppressed(m, k)
  BY <1>6, SameBuckets DEF ClaimObjectDeletion, BeginSuppression, DeleteSuppressed
<1> QED
  BY <1>2, <1>3, <1>4, <1>5, <1>6

LEMMA OtherCounts ==
    TypeOK /\ TypeOK' /\ CountersExact /\ (ExportStep \/ PurgeStep \/ UNCHANGED vars) => CountersExact'
<1> SUFFICES ASSUME TypeOK, TypeOK', CountersExact, ExportStep \/ PurgeStep \/ UNCHANGED vars
             PROVE  CountersExact'
  OBVIOUS
<1>1. ASSUME UNCHANGED <<row, counts, bytes>> PROVE CountersExact'
  BY <1>1, SameBuckets
<1>2. CASE ExportStep \/ UNCHANGED vars
  <2>1. UNCHANGED <<row, counts, bytes>>
    BY <1>2 DEF ExportStep, CreateExport, ClaimRunning, MarkReady, MarkOwnedFailed,
       MarkDispatchFailed, MarkExpired, Retry, Moves, vars
  <2> QED
    BY <1>1, <2>1
<1>3. CASE BeginPass \/ GuardFails \/ SweepPrefix \/ CheckPrefix \/ PurgerDies
  BY <1>1, <1>3 DEF BeginPass, GuardFails, SweepPrefix, CheckPrefix, PurgerDies
<1>4. CASE GuardPasses
  <2>1. \A m \in Media : Bucket(row'[m]) = IF EndsRecovery(m) THEN "none" ELSE Bucket(row[m])
    <3>1. \A m \in Media : row'[m] = IF EndsRecovery(m)
                                     THEN [row[m] EXCEPT !.state = "deleted", !.trash = "no"] ELSE row[m]
      BY <1>4 DEF GuardPasses
    <3>2. \A r \in Row : Bucket([r EXCEPT !.state = "deleted", !.trash = "no"]) = "none"
      BY DEF Bucket
    <3>3. \A m \in Media : row[m] \in Row
      BY DEF TypeOK
    <3> HIDE DEF Row
    <3> QED
      BY <3>1, <3>2, <3>3
  <2>2. \A m \in Media : Recoverable(m) <=> Bucket(row[m]) = "recoverable"
    BY DEF Recoverable, Bucket
  <2>3. Charged("recoverable")' = StillKept
    BY <2>1, <2>2 DEF Charged, StillKept, EndsRecovery
  <2>4. \A b \in {"reserved", "stored"} : Charged(b)' = Charged(b)
    BY <2>1, <2>2 DEF Charged, EndsRecovery
  <2>5. counts \in [Buckets -> Int] /\ bytes \in [Buckets -> Int]
    BY DEF TypeOK
  <2>6. /\ counts' = [counts EXCEPT !["recoverable"] = Cardinality(StillKept)]
        /\ bytes' = [bytes EXCEPT !["recoverable"] = Weight[StillKept]]
    BY <1>4 DEF GuardPasses
  <2>7. SUFFICES ASSUME NEW b \in Buckets
                 PROVE  counts'[b] = Cardinality(Charged(b)') /\ bytes'[b] = Weight[Charged(b)']
    BY DEF CountersExact
  <2>8. CASE b = "recoverable"
    BY <2>3, <2>5, <2>6, <2>8
  <2>9. CASE b # "recoverable"
    <3>1. counts'[b] = counts[b] /\ bytes'[b] = bytes[b]
      BY <2>5, <2>6, <2>9
    <3>2. Charged(b)' = Charged(b)
      BY <2>4, <2>9 DEF Buckets
    <3>3. counts[b] = Cardinality(Charged(b)) /\ bytes[b] = Weight[Charged(b)]
      BY DEF CountersExact
    <3> QED
      BY <3>1, <3>2, <3>3
  <2> QED
    BY <2>8, <2>9
<1>5. CASE PurgeRows
  <2>0. Bucket(NoRow) = "none"
    BY DEF Bucket, NoRow
  <2>1. \A b \in Buckets : Charged(b)' = {} /\ counts'[b] = 0 /\ bytes'[b] = 0
    <3>1. \A m \in Media : row'[m] = NoRow
      BY <1>5 DEF PurgeRows
    <3>2. \A b \in Buckets : Charged(b)' = {}
      BY <2>0, <3>1 DEF Charged, Buckets
    <3>3. \A b \in Buckets : counts'[b] = 0 /\ bytes'[b] = 0
      BY <1>5 DEF PurgeRows
    <3> QED
      BY <3>2, <3>3
  <2>2. Cardinality({}) = 0 /\ Weight[{}] = 0
    BY FS_EmptySet, NoWeight
  <2> QED
    BY <2>1, <2>2 DEF CountersExact
<1> QED
  BY <1>2, <1>3, <1>4, <1>5 DEF PurgeStep, PurgeAdvances

-----------------------------------------------------------------------------
(* The capacity.                                                           *)

\* What the three counters add up to.
LEMMA Totals ==
    ASSUME NEW c, NEW b, NEW R \in SUBSET Media, NEW S \in SUBSET Media, NEW T \in SUBSET Media,
           R \cap S = {}, (R \cup S) \cap T = {},
           c["reserved"] = Cardinality(R), b["reserved"] = Weight[R],
           c["stored"] = Cardinality(S), b["stored"] = Weight[S],
           c["recoverable"] = Cardinality(T), b["recoverable"] = Weight[T]
    PROVE  Total(c) = Cardinality((R \cup S) \cup T) /\ Total(b) = Weight[(R \cup S) \cup T]
<1>1. IsFiniteSet(R) /\ IsFiniteSet(S) /\ IsFiniteSet(T) /\ IsFiniteSet(R \cup S)
  BY FS_Subset, MediaAssumption, R \cup S \in SUBSET Media
<1>2. /\ Cardinality(R) \in Nat /\ Cardinality(S) \in Nat /\ Cardinality(T) \in Nat
      /\ Cardinality(R \cup S) \in Nat
  BY TallyTypes, R \cup S \in SUBSET Media
<1>3. Cardinality(R \cup S) = Cardinality(R) + Cardinality(S) - Cardinality(R \cap S)
  BY <1>1, FS_Union, Zenon
<1>4. Cardinality((R \cup S) \cup T)
        = Cardinality(R \cup S) + Cardinality(T) - Cardinality((R \cup S) \cap T)
  BY <1>1, FS_Union, Zenon
<1>5. Cardinality(R \cap S) = 0 /\ Cardinality((R \cup S) \cap T) = 0
  BY FS_EmptySet
<1>6. Weight[(R \cup S) \cup T] = Weight[R] + Weight[S] + Weight[T]
  BY WeightAssumption, R \cup S \in SUBSET Media
<1> QED
  BY <1>2, <1>3, <1>4, <1>5, <1>6 DEF Total

\* The photos that count against the event's capacity.
Counted == {m \in Media : row[m].state \in {"reserved", "stored"}}

LEMMA CountedTotals ==
    /\ CountersExact => /\ Total(counts) = Cardinality(Counted)
                        /\ Total(bytes) = Weight[Counted]
    /\ CountersExact' => /\ Total(counts') = Cardinality(Counted')
                         /\ Total(bytes') = Weight[Counted']
<1> DEFINE R == Charged("reserved")  S == Charged("stored")  T == Charged("recoverable")
<1>1. /\ R \in SUBSET Media /\ S \in SUBSET Media /\ T \in SUBSET Media
      /\ R \cap S = {} /\ (R \cup S) \cap T = {}
      /\ R' \in SUBSET Media /\ S' \in SUBSET Media /\ T' \in SUBSET Media
      /\ R' \cap S' = {} /\ (R' \cup S') \cap T' = {}
  BY DEF Charged
<1>2. Counted = (R \cup S) \cup T /\ Counted' = (R' \cup S') \cup T'
  BY DEF Counted, Charged, Bucket
<1>3. CountersExact => /\ counts["reserved"] = Cardinality(R) /\ bytes["reserved"] = Weight[R]
                       /\ counts["stored"] = Cardinality(S) /\ bytes["stored"] = Weight[S]
                       /\ counts["recoverable"] = Cardinality(T) /\ bytes["recoverable"] = Weight[T]
  BY DEF CountersExact, Buckets
<1>4. CountersExact' => /\ counts'["reserved"] = Cardinality(R') /\ bytes'["reserved"] = Weight[R']
                        /\ counts'["stored"] = Cardinality(S') /\ bytes'["stored"] = Weight[S']
                        /\ counts'["recoverable"] = Cardinality(T') /\ bytes'["recoverable"] = Weight[T']
  BY DEF CountersExact, Buckets
<1> HIDE DEF R, S, T
<1>5. CountersExact => Total(counts) = Cardinality(Counted) /\ Total(bytes) = Weight[Counted]
  BY <1>1, <1>2, <1>3, Totals
<1>6. CountersExact' => Total(counts') = Cardinality(Counted') /\ Total(bytes') = Weight[Counted']
  BY <1>1, <1>2, <1>4, Totals
<1> QED
  BY <1>5, <1>6

\* A step that counts no photo anew.
LEMMA NotMore ==
    ASSUME CountersExact, CountersExact', WithinCapacity, Counted' \subseteq Counted
    PROVE  WithinCapacity'
<1> DEFINE S == Counted  T == Counted'
<1>1. S \in SUBSET Media /\ T \in SUBSET Media /\ S \ T \in SUBSET Media
  BY DEF Counted
<1>2. Total(counts) = Cardinality(S) /\ Total(bytes) = Weight[S]
  BY CountedTotals
<1>3. Total(counts') = Cardinality(T) /\ Total(bytes') = Weight[T]
  BY CountedTotals
<1>4. T \subseteq S /\ T \cup (S \ T) = S /\ T \cap (S \ T) = {}
  OBVIOUS
<1> HIDE DEF S, T
<1>5. Cardinality(T) <= Cardinality(S)
  BY <1>1, <1>4, FS_Subset, MediaAssumption, Zenon
<1>6. Weight[T] <= Weight[S]
  <2>1. Weight[T \cup (S \ T)] = Weight[T] + Weight[S \ T]
    BY <1>1, <1>4, WeightAssumption
  <2>2. Weight[S] = Weight[T] + Weight[S \ T]
    BY <1>4, <2>1
  <2>3. Weight[T] \in Nat /\ Weight[S] \in Nat /\ Weight[S \ T] \in Nat
    BY <1>1, TallyTypes
  <2> QED
    BY <2>2, <2>3
<1>7. /\ Cardinality(T) \in Nat /\ Cardinality(S) \in Nat
      /\ Weight[T] \in Nat /\ Weight[S] \in Nat
  BY <1>1, TallyTypes
<1> QED
  BY <1>2, <1>3, <1>5, <1>6, <1>7, CapacityAssumption DEF WithinCapacity, WithinLimits

\* A photo more in a bucket is a photo more in all.
LEMMA OneMore ==
    ASSUME NEW tally \in [Buckets -> Int], NEW x \in Int
    PROVE  Total(Moved(tally, "none", "reserved", x)) = Total(tally) + x
BY DEF Moved, Total, Buckets

\* The bytes of a reservation arrive; nobody else's row moves but its pointer.
LEMMA DeliveringRows ==
    ASSUME TypeOK, IngressStep \/ PromotionStep
    PROVE  \A m \in Media : row'[m] = row[m] \/ row[m].state \in {"reserved", "stored"}
<1>1. ASSUME NEW w \in Requests, CommitIngress(w)
      PROVE  \A m \in Media : row'[m] = row[m] \/ row[m].state \in {"reserved", "stored"}
  BY <1>1 DEF CommitIngress, TypeOK
<1>2. ASSUME NEW p \in Passes, AdoptFinal(p) \/ CommitPointer(p)
      PROVE  \A m \in Media : row'[m] = row[m] \/ row[m].state \in {"reserved", "stored"}
  BY <1>2 DEF AdoptFinal, CommitPointer, TypeOK
<1>3. CASE IngressStep /\ \A w \in Requests : ~CommitIngress(w)
  <2>1. UNCHANGED row
    BY <1>3 DEF IngressStep, StartIngress, ClaimIngress, PutFinal, VerifyFinal, RequestEnds,
       PutLands, PutFails, LeaseDeadline
  <2> QED
    BY <2>1
<1>4. ASSUME NEW p \in Passes, (\E m \in Media : PickCandidate(p, m)) \/ PassAdvances(p) \/ PassEnds(p)
      PROVE  \A m \in Media : row'[m] = row[m] \/ row[m].state \in {"reserved", "stored"}
  <2>1. CASE (\E m \in Media : PickCandidate(p, m)) \/ ClaimPromotion(p) \/ ClaimInactive(p) \/ RecordSource(p)
               \/ ReleaseClaim(p) \/ PutCopy(p) \/ VerifyCopy(p) \/ MarkVerified(p) \/ ParkVerified(p)
               \/ ParkInactive(p) \/ InspectIngress(p) \/ Handoff(p) \/ PassEnds(p)
    <3>1. UNCHANGED row
      BY <2>1 DEF PickCandidate, ClaimPromotion, ClaimInactive, RecordSource, ReleaseClaim, PutCopy,
         VerifyCopy, MarkVerified, ParkVerified, ParkInactive, InspectIngress, Handoff, PassEnds
    <3> QED
      BY <3>1
  <2> QED
    BY <1>2, <1>4, <2>1 DEF PassAdvances
<1> QED
  BY <1>1, <1>2, <1>3, <1>4 DEF IngressStep, PromotionStep

\* Only a reservation counts a photo anew, and both ways to make one are guarded.
LEMMA NextWithin ==
    TypeOK /\ CountersExact /\ CountersExact' /\ WithinCapacity /\ [Next]_vars => WithinCapacity'
<1> SUFFICES ASSUME TypeOK, CountersExact, CountersExact', WithinCapacity, [Next]_vars
             PROVE  WithinCapacity'
  OBVIOUS
<1>1. ASSUME \A m \in Media : row'[m] = row[m] \/ row'[m].state \in {"absent", "failed", "deleted"}
                                                \/ row[m].state \in {"reserved", "stored"}
      PROVE  WithinCapacity'
  <2>1. Counted' \subseteq Counted
    BY <1>1 DEF Counted
  <2> QED
    BY <2>1, NotMore
<1>2. ASSUME NEW m \in Media, Reserve(m) PROVE WithinCapacity'
  <2>1. Bucket(row[m]) = "none"
    BY <1>2 DEF Reserve, Bucket
  <2>2. counts \in [Buckets -> Int] /\ bytes \in [Buckets -> Int] /\ Size(m) \in Int
    BY TallyTypes, {m} \in SUBSET Media DEF TypeOK, Size
  <2>3. Total(counts') = Total(counts) + 1 /\ Total(bytes') = Total(bytes) + Size(m)
    BY <1>2, <2>1, <2>2, OneMore DEF Reserve, Recount
  <2>4. Total(counts) \in Int /\ Total(counts) < MaxCount /\ Total(bytes) + Size(m) <= MaxBytes
    BY <1>2, <2>2 DEF Reserve, Total, Buckets
  <2> QED
    BY <2>3, <2>4, CapacityAssumption DEF WithinCapacity, WithinLimits
<1>3. ASSUME NEW m \in Media, RefreshFailed(m) PROVE WithinCapacity'
  BY <1>3 DEF RefreshFailed, WithinCapacity, WithinLimits
<1>4. ASSUME NEW m \in Media, FailReservation(m) \/ CancelReservation(m) \/ RefreshReserved(m)
                              \/ Trash(m) \/ Restore(m) \/ PermanentlyDeleteTrashed(m) \/ Delete(m)
      PROVE  WithinCapacity'
  <2>1. \A n \in Media \ {m} : row'[n] = row[n]
    BY <1>4 DEF FailReservation, CancelReservation, RefreshReserved, Trash, Restore,
       PermanentlyDeleteTrashed, Delete, BecomesDeleted, TypeOK
  <2>2. row'[m] = row[m] \/ row'[m].state = "deleted" \/ row[m].state \in {"reserved", "stored"}
    BY <1>4 DEF FailReservation, CancelReservation, RefreshReserved, Trash, Restore,
       PermanentlyDeleteTrashed, Delete, BecomesDeleted, TypeOK
  <2> QED
    BY <1>1, <2>1, <2>2
<1>5. ASSUME NEW m \in Media, ReservationDeadline(m) \/ RecoveryDeadline(m) PROVE WithinCapacity'
  <2>1. UNCHANGED <<counts, bytes>>
    BY <1>5 DEF ReservationDeadline, RecoveryDeadline
  <2> QED
    BY <2>1 DEF WithinCapacity, WithinLimits
<1>6. ASSUME UNCHANGED <<counts, bytes>> PROVE WithinCapacity'
  BY <1>6 DEF WithinCapacity, WithinLimits
<1>7. CASE ReservationStep
  <2>1. CASE ToggleIntake \/ \E m \in Media : ListExpired(m)
    BY <1>6, <2>1 DEF ToggleIntake, ListExpired
  <2> QED
    BY <1>2, <1>3, <1>4, <1>5, <1>7, <2>1 DEF ReservationStep
<1>8. CASE IngressStep \/ PromotionStep
  <2>1. \A m \in Media : row'[m] = row[m] \/ row[m].state \in {"reserved", "stored"}
    BY <1>8, DeliveringRows
  <2> QED
    BY <1>1, <2>1
<1>9. CASE RecoveryStep
  <2>1. ASSUME NEW m \in Media, ClaimObjectDeletion(m)
                 \/ \E k \in Keys : BeginSuppression(m, k) \/ DeleteSuppressed(m, k)
        PROVE  WithinCapacity'
    BY <1>6, <2>1 DEF ClaimObjectDeletion, BeginSuppression, DeleteSuppressed
  <2> QED
    BY <1>4, <1>5, <1>9, <2>1 DEF RecoveryStep
<1>10. CASE ExportStep \/ UNCHANGED vars
  BY <1>6, <1>10 DEF ExportStep, CreateExport, ClaimRunning, MarkReady, MarkOwnedFailed,
     MarkDispatchFailed, MarkExpired, Retry, Moves, vars
<1>11. CASE BeginPass \/ GuardFails \/ SweepPrefix \/ CheckPrefix \/ PurgerDies
  BY <1>6, <1>11 DEF BeginPass, GuardFails, SweepPrefix, CheckPrefix, PurgerDies
<1>12. CASE GuardPasses
  <2>1. \A m \in Media : row'[m] = row[m] \/ row[m].state = "stored"
    BY <1>12 DEF GuardPasses, EndsRecovery, Recoverable, TypeOK
  <2> QED
    BY <1>1, <2>1
<1>13. CASE PurgeRows
  BY <1>1, <1>13 DEF PurgeRows, NoRow
<1> QED
  BY <1>7, <1>8, <1>9, <1>10, <1>11, <1>12, <1>13 DEF Next, PurgeStep, PurgeAdvances

-----------------------------------------------------------------------------
LEMMA InitAccounts == Init => AccountInv
<1> SUFFICES ASSUME NEW old \in SUBSET LegacyMedia, InitWith(old) PROVE Papers /\ CountersExact /\ WithinCapacity
  BY InitTyped DEF Init, AccountInv, Accounted, Papers
<1>1. old \in SUBSET Media
  BY MediaAssumption
<1>2. CopiesPast /\ PurgeAfterDeletion
  BY DEF InitWith, CopiesPast, PurgeAfterDeletion, IdlePass
<1>3. ASSUME NEW m \in Media PROVE PhotoPapers(m)
  BY DEF InitWith, PhotoPapers, NoRow, PendingPromotion, NoPromotion
<1>4. /\ Charged("stored") = old /\ Charged("reserved") = {} /\ Charged("recoverable") = {}
  BY <1>1 DEF Charged, Bucket, InitWith, NoRow
<1>5. CountersExact
  <2>1. /\ counts = [b \in Buckets |-> IF b = "stored" THEN Cardinality(old) ELSE 0]
        /\ bytes = [b \in Buckets |-> IF b = "stored" THEN Weight[old] ELSE 0]
    BY DEF InitWith
  <2>2. \A b \in Buckets : b # "stored" => Charged(b) = {}
    BY <1>4 DEF Buckets
  <2>3. Cardinality({}) = 0 /\ Weight[{}] = 0
    BY FS_EmptySet, NoWeight
  <2> QED
    BY <1>4, <2>1, <2>2, <2>3 DEF CountersExact
<1>6. WithinCapacity
  <2>1. Counted = old
    BY <1>1 DEF Counted, InitWith, NoRow
  <2> QED
    BY <1>5, <2>1, CountedTotals, LegacyFits DEF WithinCapacity, WithinLimits
<1> QED
  BY <1>2, <1>3, <1>5, <1>6, PapersAre

LEMMA NextAccounts == AccountInv /\ [Next]_vars => AccountInv'
<1> SUFFICES ASSUME AccountInv, [Next]_vars PROVE AccountInv'
  OBVIOUS
<1>1. TypeOK /\ Papers /\ CountersExact /\ WithinCapacity
  BY DEF AccountInv, Accounted, Papers
<1>2. TypeOK'
  BY <1>1, NextTyped
<1>3. Papers'
  BY <1>1, ReservationPapers, IngressPapers, PromotionPapers, RecoveryPapers, OtherPapers DEF Next
<1>4. CountersExact'
  BY <1>1, <1>2, ReservationCounts, DeliveryCounts, RecoveryCounts, OtherCounts DEF Next
<1>5. WithinCapacity'
  BY <1>1, <1>4, NextWithin
<1> QED
  BY <1>2, <1>3, <1>4, <1>5 DEF AccountInv, Accounted, Papers

LEMMA AccountsKept == Spec => []AccountInv
BY InitAccounts, NextAccounts, PTL DEF Spec

\* The counters of media.ts are the number and the bytes of its rows, within the limits
\* of the event, and nothing the promoter or a handler still needs is missing, for any
\* photos, handlers, passes and limits.
THEOREM PhotosAccounted == Spec => []Accounted
<1>1. AccountInv => Accounted
  BY DEF AccountInv
<1> QED
  BY <1>1, AccountsKept, PTL

\* Of that, what an event with more guests than places relies on: however handlers,
\* sweeps and recoveries race for the rest, counters stay exact and limits are kept.
THEOREM EventWithinCapacity == Spec => []CapacityKept
<1>1. Accounted => CapacityKept
  BY DEF Accounted, CapacityKept
<1> QED
  BY <1>1, PhotosAccounted, PTL

-----------------------------------------------------------------------------
(***************************************************************************)
(* The upload handlers, the promoter, the sweeps, the janitor, the exports *)
(* and the purge together keep the promise of PhotoPromise: every step of  *)
(* MediaLifecycle is one of its steps, or shows nothing.                   *)
(*                                                                         *)
(* The mapping reads the bytes under a photo's pointer.  By Integrity they *)
(* are what the photo was delivered with, so that a cutover, a late PUT or *)
(* a deleted object shows nothing; by CountersExact the counters the       *)
(* guards read are what the promise counts; by OnlyStoredTrashed a         *)
(* delivered upload is not one that already lies in Recently deleted.      *)
(***************************************************************************)

Trustworthy == AccountInv /\ Integrity

\* What the event shows of a photo is what it was delivered with.
LEMMA ContentIs ==
    /\ Integrity => \A m \in Media :
         Content[m] = IF eventLive /\ row[m].state = "stored" THEN receipt[m] ELSE NoBytes
    /\ Integrity' => \A m \in Media :
         Content'[m] = IF eventLive' /\ row'[m].state = "stored" THEN receipt'[m] ELSE NoBytes
BY DEF Integrity, DeliveredInPlace, Photo, Content

\* Where a photo stands is read off its row.
StageIs(m, s) ==
    /\ eventLive
    /\ \/ s = "new" /\ row[m].state = "absent"
       \/ s \in {"reserved", "failed"} /\ row[m].state = s
       \/ s = "delivered" /\ row[m].state = "stored" /\ row[m].trash = "no"
       \/ s = "trashed" /\ row[m].state = "stored" /\ row[m].trash # "no"
       \/ s = "gone" /\ row[m].state = "deleted"

LEMMA StageReads ==
    ASSUME NEW m \in Media, NEW s
    PROVE  /\ ~eventLive => Stage[m] = "gone"
           /\ ~eventLive' => Stage'[m] = "gone"
           /\ StageIs(m, s) => Stage[m] = s
           /\ StageIs(m, s)' => Stage'[m] = s
<1>1. /\ ~eventLive => Stage[m] = "gone"
      /\ ~eventLive' => Stage'[m] = "gone"
  BY DEF Stage
<1>2. ASSUME StageIs(m, s) PROVE Stage[m] = s
  <2>1. CASE s = "new"
    BY <1>2, <2>1 DEF Stage, StageIs, Recoverable, Active
  <2>2. CASE s \in {"reserved", "failed"}
    BY <1>2, <2>2 DEF Stage, StageIs, Recoverable, Active
  <2>3. CASE s = "delivered"
    BY <1>2, <2>3 DEF Stage, StageIs, Recoverable, Active
  <2>4. CASE s = "trashed"
    BY <1>2, <2>4 DEF Stage, StageIs, Recoverable, Active
  <2>5. CASE s = "gone"
    BY <1>2, <2>5 DEF Stage, StageIs, Recoverable, Active
  <2> QED
    BY <1>2, <2>1, <2>2, <2>3, <2>4, <2>5 DEF StageIs
<1>3. ASSUME StageIs(m, s)' PROVE Stage'[m] = s
  <2>1. CASE s = "new"
    BY <1>3, <2>1 DEF Stage, StageIs, Recoverable, Active
  <2>2. CASE s \in {"reserved", "failed"}
    BY <1>3, <2>2 DEF Stage, StageIs, Recoverable, Active
  <2>3. CASE s = "delivered"
    BY <1>3, <2>3 DEF Stage, StageIs, Recoverable, Active
  <2>4. CASE s = "trashed"
    BY <1>3, <2>4 DEF Stage, StageIs, Recoverable, Active
  <2>5. CASE s = "gone"
    BY <1>3, <2>5 DEF Stage, StageIs, Recoverable, Active
  <2> QED
    BY <1>3, <2>1, <2>2, <2>3, <2>4, <2>5 DEF StageIs
<1> QED
  BY <1>1, <1>2, <1>3


\* Of an ended event there is nothing to show.
LEMMA EndedQuiet == Integrity /\ Integrity' /\ ~eventLive /\ ~eventLive' => UNCHANGED <<Stage, Content>>
<1> SUFFICES ASSUME Integrity, Integrity', ~eventLive, ~eventLive' PROVE UNCHANGED <<Stage, Content>>
  OBVIOUS
<1>1. \A m \in Media : Stage'[m] = Stage[m] /\ Content'[m] = Content[m]
  BY ContentIs, StageReads
<1> QED
  BY <1>1 DEF Stage, Content

\* A step that leaves every photo where it stands.
LEMMA Quiet ==
    ASSUME Integrity, Integrity', UNCHANGED <<eventLive, receipt>>,
           \A m \in Media : row'[m].state = row[m].state,
           \A m \in Media : row'[m].trash = "no" <=> row[m].trash = "no"
    PROVE  UNCHANGED <<Stage, Content>>
<1>1. \A m \in Media : Content'[m] = Content[m]
  BY ContentIs
<1>2. \A m \in Media : Stage'[m] = Stage[m]
  BY DEF Stage, Active, Recoverable
<1> QED
  BY <1>1, <1>2 DEF Stage, Content

\* A step at one photo of a live event, that stood at s and then at t.
LEMMA OneMoves ==
    ASSUME Integrity, Integrity', eventLive, eventLive', NEW m \in Media, NEW s, NEW t,
           \A n \in Media \ {m} : row'[n] = row[n] /\ receipt'[n] = receipt[n],
           StageIs(m, s), StageIs(m, t)'
    PROVE  /\ Stage[m] = s
           /\ Stage' = [Stage EXCEPT ![m] = t]
           /\ Content' = [Content EXCEPT ![m] =
                IF t \in {"delivered", "trashed"} THEN receipt'[m] ELSE NoBytes]
           /\ Content[m] = IF s \in {"delivered", "trashed"} THEN receipt[m] ELSE NoBytes
<1>1. Stage[m] = s /\ Stage'[m] = t
  BY StageReads
<1>2. \A n \in Media \ {m} : Stage'[n] = Stage[n]
  BY DEF Stage, Active, Recoverable
<1>3. \A n \in Media \ {m} : Content'[n] = Content[n]
  BY ContentIs
<1>4. Content'[m] = IF t \in {"delivered", "trashed"} THEN receipt'[m] ELSE NoBytes
  BY ContentIs DEF StageIs
<1>5. Content[m] = IF s \in {"delivered", "trashed"} THEN receipt[m] ELSE NoBytes
  BY ContentIs DEF StageIs
<1>6. /\ Stage = [n \in Media |-> Stage[n]] /\ Stage' = [n \in Media |-> Stage'[n]]
      /\ Content = [n \in Media |-> Content[n]] /\ Content' = [n \in Media |-> Content'[n]]
  BY DEF Stage, Content
<1> HIDE DEF Stage, Content
<1>7. Stage' = [Stage EXCEPT ![m] = t]
  BY <1>1, <1>2, <1>6
<1>8. Content' = [Content EXCEPT ![m] = IF t \in {"delivered", "trashed"} THEN receipt'[m] ELSE NoBytes]
  BY <1>3, <1>4, <1>6
<1> QED
  BY <1>1, <1>5, <1>7, <1>8

\* What the promise counts against the capacity is what the counters say.
LEMMA Occupancy ==
    ASSUME TypeOK, CountersExact, eventLive
    PROVE  /\ Promise!Occupied \in SUBSET Media
           /\ Cardinality(Promise!Occupied) = Total(counts)
           /\ Weight[Promise!Occupied] = Total(bytes)
<1>1. Promise!Occupied = Counted
  <2>1. \A m \in Media : Stage[m] \in {"reserved", "delivered", "trashed"} <=>
                         row[m].state \in {"reserved", "stored"}
    <3> SUFFICES ASSUME NEW m \in Media
                 PROVE  Stage[m] \in {"reserved", "delivered", "trashed"} <=>
                         row[m].state \in {"reserved", "stored"}
      OBVIOUS
    <3>1. row[m].state \in RowStates
      BY DEF TypeOK, Row
    <3>2. CASE row[m].state = "absent"
      BY <3>2, StageReads DEF StageIs
    <3>3. CASE row[m].state = "reserved"
      BY <3>3, StageReads DEF StageIs
    <3>4. CASE row[m].state = "failed"
      BY <3>4, StageReads DEF StageIs
    <3>5. CASE row[m].state = "deleted"
      BY <3>5, StageReads DEF StageIs
    <3>6. CASE row[m].state = "stored" /\ row[m].trash = "no"
      BY <3>6, StageReads DEF StageIs
    <3>7. CASE row[m].state = "stored" /\ row[m].trash # "no"
      BY <3>7, StageReads DEF StageIs
    <3> QED
      BY <3>1, <3>2, <3>3, <3>4, <3>5, <3>6, <3>7 DEF RowStates
  <2> QED
    BY <2>1 DEF Promise!Occupied, Counted
<1> QED
  BY <1>1, CountedTotals DEF Counted

\* The promise counts like everybody else.
LEMMA SameCardinality == \A S : Promise!Cardinality(S) = Cardinality(S)
BY DEF Promise!Cardinality, Cardinality

\* The guards of a reservation leave room for one photo more.
LEMMA RoomLeft ==
    ASSUME TypeOK, CountersExact, eventLive, NEW m \in Media, row[m].state \in {"absent", "failed"},
           Total(counts) + 1 <= MaxCount, Total(bytes) + Size(m) <= MaxBytes
    PROVE  /\ Cardinality(Promise!Occupied \cup {m}) <= MaxCount
           /\ Weight[Promise!Occupied \cup {m}] <= MaxBytes
<1>1. m \notin Promise!Occupied
  <2>1. Stage[m] \in {"new", "failed"}
    BY StageReads DEF StageIs
  <2> QED
    BY <2>1 DEF Promise!Occupied
<1>2. Promise!Occupied \in SUBSET Media
  BY Occupancy
<1>3. /\ Cardinality(Promise!Occupied \cup {m}) = Cardinality(Promise!Occupied) + 1
      /\ Weight[Promise!Occupied \cup {m}] = Weight[Promise!Occupied] + Size(m)
  BY <1>1, <1>2, OnePhoto, Zenon
<1> QED
  BY <1>3, Occupancy

-----------------------------------------------------------------------------
HIDE DEF LegacyActive, Active, Unsuppressed, processVars, eventVars, Row, Promotion, Past

\* A step of the promise, or one that shows nothing.
Keeps == Promise!Next \/ UNCHANGED <<Stage, Content>>

LEMMA ReservationKeeps == Trustworthy /\ Trustworthy' /\ ReservationStep => Keeps
<1> SUFFICES ASSUME Trustworthy, Trustworthy', NEW m \in Media,
                    \/ ToggleIntake
                    \/ Reserve(m) \/ RefreshReserved(m) \/ RefreshFailed(m)
                    \/ ListExpired(m) \/ FailReservation(m) \/ CancelReservation(m)
                    \/ ReservationDeadline(m)
             PROVE  Keeps
  BY MediaAssumption DEF ReservationStep
<1>1. /\ TypeOK /\ CountersExact /\ Integrity /\ Integrity' /\ row[m] \in Row
      /\ row[m].trash # "no" => row[m].state = "stored"
  BY DEF Trustworthy, AccountInv, Accounted, Books, OnlyStoredTrashed, TypeOK
<1>2. UNCHANGED <<eventLive, receipt>>
  BY DEF ToggleIntake, Reserve, RefreshReserved, RefreshFailed, ListExpired, FailReservation,
     CancelReservation, ReservationDeadline, eventVars, processVars
<1>3. CASE ~eventLive
  BY <1>1, <1>2, <1>3, EndedQuiet DEF Keeps
<1> SUFFICES ASSUME eventLive PROVE Keeps
  BY <1>3
<1>4. ASSUME \A n \in Media : row'[n].state = row[n].state /\ row'[n].trash = row[n].trash
      PROVE  Keeps
  BY <1>1, <1>2, <1>4, Quiet DEF Keeps
<1>5. ASSUME NEW s \in {"new", "reserved", "failed"}, NEW t \in {"reserved", "failed", "gone"},
             \A n \in Media \ {m} : row'[n] = row[n], StageIs(m, s), StageIs(m, t)'
      PROVE  Stage[m] = s /\ Stage' = [Stage EXCEPT ![m] = t]
             /\ Content' = [Content EXCEPT ![m] = NoBytes] /\ Content' = Content
  <2>1. /\ Stage[m] = s /\ Stage' = [Stage EXCEPT ![m] = t]
        /\ Content' = [Content EXCEPT ![m] = NoBytes] /\ Content[m] = NoBytes
    BY <1>1, <1>2, <1>5, OneMoves
  <2>2. Content = [n \in Media |-> Content[n]]
    BY DEF Content
  <2> HIDE DEF Content
  <2> QED
    BY <2>1, <2>2
<1>6. ASSUME NEW s \in {"new", "failed"}, StageIs(m, s), StageIs(m, "reserved")',
             \A n \in Media \ {m} : row'[n] = row[n],
             Total(counts) + 1 <= MaxCount, Total(bytes) + Size(m) <= MaxBytes
      PROVE  Keeps
  <2>1. row[m].state \in {"absent", "failed"}
    BY <1>6 DEF StageIs
  <2>2. /\ Cardinality(Promise!Occupied \cup {m}) <= MaxCount
        /\ Weight[Promise!Occupied \cup {m}] <= MaxBytes
    BY <1>1, <1>6, <2>1, RoomLeft
  <2>3. /\ Stage[m] = s /\ Stage' = [Stage EXCEPT ![m] = "reserved"]
        /\ Content' = Content
    BY <1>5, <1>6
  <2>4. Promise!Reserve(m)
    BY <1>6, <2>2, <2>3, SameCardinality DEF Promise!Reserve, Promise!Moves
  <2> QED
    BY <2>4 DEF Promise!Next, Keeps
<1>7. CASE ToggleIntake \/ ListExpired(m)
  BY <1>4, <1>7 DEF ToggleIntake, ListExpired
<1>8. CASE Reserve(m)
  <2>1. /\ StageIs(m, "new") /\ StageIs(m, "reserved")'
        /\ \A n \in Media \ {m} : row'[n] = row[n]
    BY <1>1, <1>2, <1>8 DEF Reserve, StageIs, NoRow, TypeOK
  <2>2. Total(counts) + 1 <= MaxCount /\ Total(bytes) + Size(m) <= MaxBytes
    <3>1. Total(counts) \in Int
      BY <1>1 DEF Total, TypeOK, Buckets
    <3> QED
      BY <1>8, <3>1, CapacityAssumption DEF Reserve
  <2> QED
    BY <1>6, <2>1, <2>2
<1>9. CASE RefreshReserved(m) \/ ReservationDeadline(m)
  <2>1. \A n \in Media \ {m} : row'[n] = row[n]
    BY <1>1, <1>9 DEF RefreshReserved, ReservationDeadline, TypeOK, Row
  <2>2. row'[m].state = row[m].state /\ row'[m].trash = row[m].trash
    BY <1>1, <1>9 DEF RefreshReserved, ReservationDeadline, TypeOK, Row
  <2> QED
    BY <1>4, <2>1, <2>2
<1>10. CASE RefreshFailed(m)
  <2>1. /\ StageIs(m, "failed") /\ StageIs(m, "reserved")'
        /\ \A n \in Media \ {m} : row'[n] = row[n]
    BY <1>1, <1>2, <1>10 DEF RefreshFailed, StageIs, TypeOK
  <2>2. Bucket(row[m]) = "none"
    BY <1>1, <1>10 DEF RefreshFailed, Bucket
  <2>3. Size(m) \in Nat
    BY TallyTypes, {m} \in SUBSET Media DEF Size
  <2>4. Total(counts') = Total(counts) + 1 /\ Total(bytes') = Total(bytes) + Size(m)
    <3>1. /\ counts' = Moved(counts, "none", "reserved", 1)
          /\ bytes' = Moved(bytes, "none", "reserved", Size(m))
      BY <1>10, <2>2 DEF RefreshFailed, Recount
    <3>2. counts \in [Buckets -> Int] /\ bytes \in [Buckets -> Int]
      BY <1>1 DEF TypeOK
    <3> QED
      BY <2>3, <3>1, <3>2, OneMore
  <2>5. Total(counts') <= MaxCount /\ Total(bytes') <= MaxBytes
    BY <1>10 DEF RefreshFailed, WithinLimits
  <2> QED
    BY <1>6, <2>1, <2>4, <2>5
<1>11. CASE FailReservation(m)
  <2>1. CASE row[m].state = "reserved"
    <3>1. /\ StageIs(m, "reserved") /\ StageIs(m, "failed")'
          /\ \A n \in Media \ {m} : row'[n] = row[n]
      BY <1>1, <1>2, <1>11, <2>1 DEF FailReservation, StageIs, TypeOK, Row
    <3> QED
      BY <1>5, <3>1 DEF Promise!Fail, Promise!Moves, Promise!Next, Keeps
  <2>2. CASE row[m].state # "reserved"
    BY <1>4, <1>11, <2>2 DEF FailReservation
  <2> QED
    BY <2>1, <2>2
<1>12. CASE CancelReservation(m)
  <2>1. PICK s \in {"reserved", "failed"} : row[m].state = s
    BY <1>12 DEF CancelReservation
  <2>2. /\ StageIs(m, s) /\ StageIs(m, "gone")'
        /\ \A n \in Media \ {m} : row'[n] = row[n]
    BY <1>1, <1>2, <1>12, <2>1 DEF CancelReservation, StageIs, TypeOK
  <2> QED
    BY <1>5, <2>2 DEF Promise!Remove, Promise!Moves, Promise!Next, Keeps
<1> QED
  BY <1>7, <1>8, <1>9, <1>10, <1>11, <1>12

\* Whatever handler, sender or promoter: a photo is delivered once, with its bytes.
LEMMA DeliveryKeeps == Trustworthy /\ Trustworthy' /\ (IngressStep \/ PromotionStep) => Keeps
<1> SUFFICES ASSUME Trustworthy, Trustworthy', IngressStep \/ PromotionStep PROVE Keeps
  OBVIOUS
<1>1. TypeOK /\ Integrity /\ Integrity' /\ OnlyStoredTrashed
  BY DEF Trustworthy, AccountInv, Books
<1>2. UNCHANGED eventLive
  BY OtherProcesses
<1>3. CASE ~eventLive
  BY <1>1, <1>2, <1>3, EndedQuiet DEF Keeps
<1> SUFFICES ASSUME eventLive PROVE Keeps
  BY <1>3
<1>4. ASSUME UNCHANGED <<row, receipt>> PROVE Keeps
  BY <1>1, <1>2, <1>4, Quiet DEF Keeps
\* The one step of the promise.
<1>5. ASSUME NEW m \in Media, row[m].state = "reserved", receipt'[m] \in Digests,
             \A n \in Media \ {m} : receipt'[n] = receipt[n],
             row' = [row EXCEPT ![m].state = "stored", ![m].ptr = "final"]
      PROVE  Keeps
  <2>1. row[m] \in Row /\ row[m].trash = "no"
    BY <1>1, <1>5 DEF OnlyStoredTrashed, TypeOK
  <2>2. /\ StageIs(m, "reserved") /\ StageIs(m, "delivered")'
        /\ \A n \in Media \ {m} : row'[n] = row[n]
    BY <1>1, <1>2, <1>5, <2>1 DEF StageIs, TypeOK, Row
  <2>3. /\ Stage[m] = "reserved" /\ Stage' = [Stage EXCEPT ![m] = "delivered"]
        /\ Content' = [Content EXCEPT ![m] = receipt'[m]]
    BY <1>1, <1>2, <1>5, <2>2, OneMoves
  <2>4. Promise!Deliver(m, receipt'[m])
    BY <2>3 DEF Promise!Deliver, Promise!Moves
  <2> QED
    BY <1>5, <2>4 DEF Promise!Next, Keeps
<1>6. ASSUME NEW w \in Requests, CommitIngress(w) PROVE Keeps
  <2> DEFINE m == req[w].m
  <2>1. m \in Media /\ req[w].d \in Digests
    BY <1>1, RequestReads
  <2>2. /\ row[m].state = "reserved" /\ receipt' = [receipt EXCEPT ![m] = req[w].d]
        /\ row' = [row EXCEPT ![m].state = "stored", ![m].ptr = "final"]
    BY <1>6 DEF CommitIngress
  <2>3. receipt \in [Media -> Bytes]
    BY <1>1 DEF TypeOK
  <2> HIDE DEF m
  <2> QED
    BY <1>5, <2>1, <2>2, <2>3
<1>7. CASE IngressStep /\ \A w \in Requests : ~CommitIngress(w)
  <2>1. UNCHANGED <<row, receipt>>
    BY <1>7 DEF IngressStep, StartIngress, ClaimIngress, PutFinal, VerifyFinal, RequestEnds,
       PutLands, PutFails, LeaseDeadline
  <2> QED
    BY <1>4, <2>1
<1>8. ASSUME NEW p \in Passes, (\E m \in Media : PickCandidate(p, m)) \/ PassAdvances(p) \/ PassEnds(p)
      PROVE  Keeps
  <2> DEFINE m == pass[p].m
  <2>1. m \in Media
    BY <1>1, PassReads
  <2>2. CASE AdoptFinal(p)
    <3>1. /\ row[m].state = "reserved" /\ receipt' = [receipt EXCEPT ![m] = pass[p].digest]
          /\ row' = [row EXCEPT ![m].state = "stored", ![m].ptr = "final"]
      BY <2>2 DEF AdoptFinal
    <3>2. pass[p].digest \in Digests
      <4>1. pass[p].pc = "adopt" /\ pass[p].digest # NoBytes
        BY <1>1, <2>2 DEF AdoptFinal, Integrity, PassKnows, Carries
      <4>2. pass[p].digest \in Bytes
        BY <1>1 DEF TypeOK, Pass
      <4> QED
        BY <4>1, <4>2 DEF Bytes
    <3>3. receipt \in [Media -> Bytes]
      BY <1>1 DEF TypeOK
    <3> HIDE DEF m
    <3> QED
      BY <1>5, <2>1, <3>1, <3>2, <3>3
  <2>3. CASE CommitPointer(p)
    <3>1. row' = [row EXCEPT ![m].ptr = "final"] /\ UNCHANGED receipt
      BY <2>3 DEF CommitPointer
    <3>2. row \in [Media -> Row]
      BY <1>1 DEF TypeOK
    <3> HIDE DEF m
    <3>3. \A n \in Media : row'[n].state = row[n].state /\ row'[n].trash = row[n].trash
      BY <2>1, <3>1, <3>2 DEF Row
    <3> QED
      BY <1>1, <1>2, <3>1, <3>3, Quiet DEF Keeps
  <2>4. CASE (\E n \in Media : PickCandidate(p, n)) \/ ClaimPromotion(p) \/ ClaimInactive(p) \/ RecordSource(p)
               \/ ReleaseClaim(p) \/ PutCopy(p) \/ VerifyCopy(p) \/ MarkVerified(p) \/ ParkVerified(p)
               \/ ParkInactive(p) \/ InspectIngress(p) \/ Handoff(p) \/ PassEnds(p)
    <3>1. UNCHANGED <<row, receipt>>
      BY <2>4 DEF PickCandidate, ClaimPromotion, ClaimInactive, RecordSource, ReleaseClaim, PutCopy,
         VerifyCopy, MarkVerified, ParkVerified, ParkInactive, InspectIngress, Handoff, PassEnds
    <3> QED
      BY <1>4, <3>1
  <2> QED
    BY <1>8, <2>2, <2>3, <2>4 DEF PassAdvances
<1> QED
  BY <1>6, <1>7, <1>8 DEF IngressStep, PromotionStep

\* Recently deleted and back, and removal for good.
LEMMA RecoveryKeeps == Trustworthy /\ Trustworthy' /\ RecoveryStep => Keeps
<1> SUFFICES ASSUME Trustworthy, Trustworthy', NEW m \in Media,
                    \/ Trash(m) \/ Restore(m) \/ RecoveryDeadline(m)
                    \/ PermanentlyDeleteTrashed(m) \/ Delete(m) \/ ClaimObjectDeletion(m)
                    \/ \E k \in Keys : BeginSuppression(m, k) \/ DeleteSuppressed(m, k)
             PROVE  Keeps
  BY DEF RecoveryStep, Trustworthy
<1>1. /\ TypeOK /\ Integrity /\ Integrity' /\ row[m] \in Row
      /\ row[m].trash # "no" => row[m].state = "stored"
  BY DEF Trustworthy, AccountInv, Books, OnlyStoredTrashed, TypeOK
<1>2. UNCHANGED <<eventLive, receipt>>
  BY DEF Trash, Restore, RecoveryDeadline, PermanentlyDeleteTrashed, Delete, BecomesDeleted,
     ClaimObjectDeletion, BeginSuppression, DeleteSuppressed, eventVars
<1>3. CASE ~eventLive
  BY <1>1, <1>2, <1>3, EndedQuiet DEF Keeps
<1> SUFFICES ASSUME eventLive PROVE Keeps
  BY <1>3
<1>4. ASSUME NEW s \in {"delivered", "trashed"}, NEW t \in {"delivered", "trashed"},
             \A n \in Media \ {m} : row'[n] = row[n], StageIs(m, s), StageIs(m, t)'
      PROVE  Stage[m] = s /\ Stage' = [Stage EXCEPT ![m] = t] /\ Content' = Content
  <2>1. /\ Stage[m] = s /\ Stage' = [Stage EXCEPT ![m] = t]
        /\ Content' = [Content EXCEPT ![m] = receipt'[m]] /\ Content[m] = receipt[m]
    BY <1>1, <1>2, <1>4, OneMoves
  <2>2. Content = [n \in Media |-> Content[n]]
    BY DEF Content
  <2> HIDE DEF Content
  <2> QED
    BY <1>2, <2>1, <2>2
<1>5. CASE Trash(m)
  <2>1. /\ StageIs(m, "delivered") /\ StageIs(m, "trashed")'
        /\ \A n \in Media \ {m} : row'[n] = row[n]
    BY <1>1, <1>2, <1>5 DEF Trash, Active, StageIs, TypeOK, Row
  <2>2. Promise!Trash(m)
    BY <1>4, <2>1 DEF Promise!Trash, Promise!Moves
  <2> QED
    BY <2>2 DEF Promise!Next, Keeps
<1>6. CASE Restore(m)
  <2>1. /\ StageIs(m, "trashed") /\ StageIs(m, "delivered")'
        /\ \A n \in Media \ {m} : row'[n] = row[n]
    BY <1>1, <1>2, <1>6 DEF Restore, StageIs, TypeOK, Row
  <2>2. Promise!Restore(m)
    BY <1>4, <2>1 DEF Promise!Restore, Promise!Moves
  <2> QED
    BY <2>2 DEF Promise!Next, Keeps
<1>7. CASE RecoveryDeadline(m)
  <2>1. \A n \in Media \ {m} : row'[n] = row[n]
    BY <1>1, <1>7 DEF RecoveryDeadline, TypeOK
  <2>2. row'[m].state = row[m].state /\ (row'[m].trash = "no" <=> row[m].trash = "no")
    BY <1>1, <1>7 DEF RecoveryDeadline, TypeOK, Row
  <2> QED
    BY <1>1, <1>2, <2>1, <2>2, Quiet DEF Keeps
<1>8. CASE PermanentlyDeleteTrashed(m) \/ Delete(m)
  <2>1. /\ row[m].state \in {"reserved", "failed", "stored"}
        /\ row' = [row EXCEPT ![m].state = "deleted", ![m].trash = "no"]
    BY <1>8 DEF PermanentlyDeleteTrashed, Delete, BecomesDeleted
  <2>2. /\ StageIs(m, "gone")'
        /\ \A n \in Media \ {m} : row'[n] = row[n]
    BY <1>1, <1>2, <2>1 DEF StageIs, TypeOK, Row
  <2>3. PICK s \in {"reserved", "failed", "delivered", "trashed"} : StageIs(m, s)
    BY <2>1 DEF StageIs
  <2>4. /\ Stage[m] = s /\ Stage' = [Stage EXCEPT ![m] = "gone"]
        /\ Content' = [Content EXCEPT ![m] = NoBytes]
    BY <1>1, <1>2, <2>2, <2>3, OneMoves
  <2>5. Promise!Remove(m)
    BY <2>4 DEF Promise!Remove, Promise!Moves
  <2> QED
    BY <2>5 DEF Promise!Next, Keeps
<1>9. CASE ClaimObjectDeletion(m) \/ \E k \in Keys : BeginSuppression(m, k) \/ DeleteSuppressed(m, k)
  <2>1. UNCHANGED row
    BY <1>9 DEF ClaimObjectDeletion, BeginSuppression, DeleteSuppressed
  <2> QED
    BY <1>1, <1>2, <2>1, Quiet DEF Keeps
<1> QED
  BY <1>5, <1>6, <1>7, <1>8, <1>9

\* Exports show nothing, and the first pass of a purge ends it all at once.
LEMMA OtherKeeps == Trustworthy /\ Trustworthy' /\ (ExportStep \/ PurgeStep \/ UNCHANGED vars) => Keeps
<1> SUFFICES ASSUME Trustworthy, Trustworthy', ExportStep \/ PurgeStep \/ UNCHANGED vars PROVE Keeps
  OBVIOUS
<1>1. Integrity /\ Integrity' /\ PurgeAfterDeletion
  BY DEF Trustworthy, Integrity
<1>2. CASE ExportStep \/ UNCHANGED vars
  <2>1. UNCHANGED <<row, receipt, eventLive>>
    BY <1>2 DEF ExportStep, CreateExport, ClaimRunning, MarkReady, MarkOwnedFailed,
       MarkDispatchFailed, MarkExpired, Retry, Moves, eventVars, vars
  <2> QED
    BY <1>1, <2>1, Quiet DEF Keeps
<1>3. CASE PurgeAdvances \/ PurgerDies
  <2>1. ~eventLive /\ UNCHANGED eventLive
    BY <1>1, <1>3 DEF PurgeAfterDeletion, PurgeAdvances, GuardPasses, GuardFails, SweepPrefix,
       CheckPrefix, PurgeRows, PurgerDies, eventVars
  <2> QED
    BY <1>1, <2>1, EndedQuiet DEF Keeps
<1>4. CASE BeginPass
  <2>1. ~eventLive'
    BY <1>4 DEF BeginPass
  <2>2. \A m \in Media : Stage'[m] = "gone" /\ Content'[m] = NoBytes
    BY <1>1, <2>1, StageReads, ContentIs
  <2>3. Promise!EndEvent
    BY <2>2 DEF Promise!EndEvent, Stage, Content
  <2> QED
    BY <2>3 DEF Promise!Next, Keeps
<1> QED
  BY <1>2, <1>3, <1>4 DEF PurgeStep

LEMMA PromiseStarts == Init => Promise!Init
<1> SUFFICES ASSUME NEW old \in SUBSET LegacyMedia, InitWith(old) PROVE Promise!Init
  BY DEF Init
<1>1. ASSUME NEW m \in Media, m \in old PROVE Stage[m] = "delivered" /\ Content[m] = LegacyDigest
  <2>1. StageIs(m, "delivered")
    BY <1>1 DEF InitWith, StageIs, NoRow
  <2>2. eventLive /\ row[m].state = "stored" /\ row[m].ptr = "source" /\ object[m]["source"] = LegacyDigest
    BY <1>1 DEF InitWith, NoRow, Keys
  <2> QED
    BY <2>1, <2>2, StageReads DEF Content
<1>2. ASSUME NEW m \in Media, m \notin old PROVE Stage[m] = "new" /\ Content[m] = NoBytes
  <2>1. StageIs(m, "new")
    BY <1>2 DEF InitWith, StageIs, NoRow
  <2>2. row[m].state = "absent"
    BY <2>1 DEF StageIs
  <2> QED
    BY <2>1, <2>2, StageReads DEF Content
<1>4. /\ Stage = [m \in Media |-> IF m \in old THEN "delivered" ELSE "new"]
      /\ Content = [m \in Media |-> IF m \in old THEN LegacyDigest ELSE NoBytes]
  BY <1>1, <1>2 DEF Stage, Content
<1> QED
  BY <1>4 DEF Promise!Init

\* Everything guests, hosts, crons and jobs do to the photographs of an event is one
\* of the steps PhotoPromise allows, for any photos, handlers, passes, exports and limits.
THEOREM PromiseKept == Spec => PhotosKeepPromise
<1>1. Trustworthy /\ Trustworthy' /\ [Next]_vars => [Promise!Next]_<<Stage, Content>>
  BY ReservationKeeps, DeliveryKeeps, RecoveryKeeps, OtherKeeps DEF Next, Keeps
<1>2. Spec => []AccountInv /\ []Integrity
  BY AccountsKept, IntegrityHolds, PTL
<1>3. []AccountInv /\ []Integrity => []Trustworthy
  BY PTL DEF Trustworthy
<1> QED
  BY <1>1, <1>2, <1>3, PromiseStarts, PTL DEF Spec, PhotosKeepPromise, Promise!Spec
=============================================================================
