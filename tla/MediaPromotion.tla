--------------------------- MODULE MediaPromotion ---------------------------
(***************************************************************************)
(* promoteLegacyStoredMedia: the scheduled promoter.  It copies a legacy   *)
(* photo to its canonical key and switches the row over, adopts an upload  *)
(* whose commit was lost, and retires the promotion rows of photos that    *)
(* have gone.  Hourly and daily invocations overlap and any may die at any *)
(* await.  A pass acts on the candidate it listed, however stale; every    *)
(* statement compares the state and the claim token again.                 *)
(*                                                                         *)
(* A pass runs on the frozen clock () => now, so to its own statements the *)
(* lease it took never expires; only another pass sees it expire.          *)
(***************************************************************************)
EXTENDS MediaState

\* One row of listPromotionWork, with pointer cutover enabled.
Listed(m) ==
    \/ promo[m].state = "cleanup_pending" /\ row[m].expired
    \/ promo[m].state = "copying" /\ ~promo[m].lease
       /\ (row[m].expired \/ LegacyActive(m))
    \/ promo[m].state = "pending" /\ row[m].expired
    \/ promo[m].state = "target_verified"

Branch(q) ==
    CASE q.state = "target_verified" -> "verified"
      [] q.state = "copying" /\ q.kind = "buffer" -> "ingress"
      [] q.state = "cleanup_pending" -> "handoff"
      [] OTHER -> "claim"

Settled(p) == pass' = [pass EXCEPT ![p] = IdlePass]
Goes(p, pc) == pass' = [pass EXCEPT ![p].pc = pc]
HasToken(p) == promo[pass[p].m].token = pass[p].token

\* The pass takes up one candidate of its listing.
PickCandidate(p, m) ==
    /\ pass[p].pc = "idle" /\ Listed(m)
    /\ pass' = [pass EXCEPT ![p] = [pc |-> Branch(promo[m]), m |-> m,
                                    token |-> promo[m].token, digest |-> promo[m].digest]]
    /\ UNCHANGED <<eventVars, row, promo, suppressed, object, inflight, receipt,
                   job, purge, req, sweep, purger>>

Claimable(m) ==
    /\ row[m].expired
    /\ \/ promo[m].state = "pending"
       \/ promo[m].state = "copying" /\ ~promo[m].lease /\ promo[m].kind # "buffer"

\* claimPromotion: keep what an earlier claim recorded of the source.
ClaimPromotion(p) ==
    LET m == pass[p].m IN
    /\ pass[p].pc = "claim" /\ Claimable(m) /\ LegacyActive(m)
    /\ promo' = [promo EXCEPT ![m].state = "copying", ![m].token = p,
                              ![m].lease = TRUE, ![m].committed = FALSE]
    /\ pass' = [pass EXCEPT ![p].pc = IF promo[m].digest = NoBytes THEN "copy" ELSE "recover",
                            ![p].token = p, ![p].digest = promo[m].digest]
    /\ UNCHANGED <<eventVars, row, suppressed, object, inflight, receipt, job,
                   purge, req, sweep, purger>>

\* claimInactivePromotion: nobody active points at the source; forget it.
ClaimInactive(p) ==
    LET m == pass[p].m IN
    /\ pass[p].pc = "claim" /\ Claimable(m) /\ ~LegacyActive(m)
    /\ promo' = [promo EXCEPT ![m] = [PendingPromotion EXCEPT
                   !.state = "copying", !.token = p, !.lease = TRUE]]
    /\ pass' = [pass EXCEPT ![p].pc = "inactive", ![p].token = p]
    /\ UNCHANGED <<eventVars, row, suppressed, object, inflight, receipt, job,
                   purge, req, sweep, purger>>

\* recordPromotionSource: the digest of the source, recorded before any PUT.
RecordSource(p) ==
    LET m == pass[p].m IN
    /\ pass[p].pc = "copy" /\ object[m]["source"] # NoBytes
    /\ promo[m].state = "copying" /\ HasToken(p) /\ LegacyActive(m)
    /\ promo' = [promo EXCEPT ![m].kind = "copy", ![m].digest = object[m]["source"]]
    /\ pass' = [pass EXCEPT ![p].pc = "write", ![p].digest = object[m]["source"]]
    /\ UNCHANGED <<eventVars, row, suppressed, object, inflight, receipt, job,
                   purge, req, sweep, purger>>

\* releasePromotionClaim: the source is missing, changed between head and get,
\* or does not inspect as the image its row describes.
ReleaseClaim(p) ==
    LET m == pass[p].m IN
    /\ pass[p].pc = "copy"
    /\ promo[m].state = "copying" /\ HasToken(p)
    /\ promo' = [promo EXCEPT ![m] = PendingPromotion]
    /\ Settled(p)
    /\ UNCHANGED <<eventVars, row, suppressed, object, inflight, receipt, job,
                   purge, req, sweep, purger>>

\* hasPromotionWritePermit and the tombstone check, then the PUT.  Suppression
\* is permanent, so reading both at once loses no interleaving.
PutCopy(p) ==
    LET m == pass[p].m IN
    /\ \/ /\ pass[p].pc = "write"
          /\ promo[m].state = "copying" /\ HasToken(p) /\ promo[m].digest # NoBytes
       \/ /\ pass[p].pc = "recover" /\ object[m]["final"] # pass[p].digest
          /\ object[m]["source"] = pass[p].digest
    /\ row[m].state # "absent" /\ "final" \notin suppressed[m]
    /\ inflight' = inflight \cup {<<p, m, pass[p].digest>>}
    /\ Goes(p, "wrote")
    /\ UNCHANGED <<eventVars, row, promo, suppressed, object, receipt, job, purge,
                   req, sweep, purger>>

\* verifiedFinalObject, after the PUT or, recovering, before it.
VerifyCopy(p) ==
    /\ pass[p].pc \in {"wrote", "recover"}
    /\ object[pass[p].m]["final"] = pass[p].digest
    /\ Goes(p, "mark")
    /\ UNCHANGED <<eventVars, row, promo, suppressed, object, inflight, receipt,
                   job, purge, req, sweep, purger>>

\* markPromotionTargetVerified; the pass goes straight on to the cutover.
MarkVerified(p) ==
    LET m == pass[p].m IN
    /\ pass[p].pc = "mark"
    /\ promo[m].state = "copying" /\ HasToken(p) /\ promo[m].digest # NoBytes
    /\ LegacyActive(m) /\ "final" \notin suppressed[m]
    /\ promo' = [promo EXCEPT ![m].state = "target_verified", ![m].lease = FALSE]
    /\ Goes(p, "cutover")
    /\ UNCHANGED <<eventVars, row, suppressed, object, inflight, receipt, job,
                   purge, req, sweep, purger>>

\* commitPromotionPointer: row and promotion in one batch.
CommitPointer(p) ==
    LET m == pass[p].m IN
    /\ pass[p].pc \in {"verified", "cutover"}
    /\ promo[m].state = "target_verified" /\ HasToken(p)
    /\ LegacyActive(m) /\ Unsuppressed(m)
    /\ row' = [row EXCEPT ![m].ptr = "final"]
    /\ promo' = [promo EXCEPT ![m].state = "cleanup_pending", ![m].committed = TRUE]
    /\ Goes(p, "handoff")
    /\ UNCHANGED <<eventVars, suppressed, object, inflight, receipt, job, purge,
                   req, sweep, purger>>

\* parkInactiveVerifiedPromotionCleanup, on a candidate listed as verified: the
\* photo left before its cutover.
ParkVerified(p) ==
    LET m == pass[p].m IN
    /\ pass[p].pc = "verified"
    /\ promo[m].state = "target_verified" /\ HasToken(p) /\ ~LegacyActive(m)
    /\ promo' = [promo EXCEPT ![m].state = "cleanup_pending", ![m].lease = FALSE]
    /\ Goes(p, "handoff")
    /\ UNCHANGED <<eventVars, row, suppressed, object, inflight, receipt, job,
                   purge, req, sweep, purger>>

\* parkInactivePromotionCleanup: no live row can still adopt the target.  A
\* promotion with no recorded source (claimInactivePromotion) protects no row.
StillAdoptable(m) ==
    /\ eventLive /\ row[m].ptr = "source"
    /\ \/ promo[m].kind = "buffer" /\ row[m].state = "reserved"
       \/ promo[m].kind = "copy" /\ Active(m)

ParkInactive(p) ==
    LET m == pass[p].m IN
    /\ pass[p].pc \in {"ingress", "inactive"}
    /\ promo[m].state = "copying" /\ ~promo[m].committed /\ HasToken(p)
    /\ row[m].expired /\ ~StillAdoptable(m)
    /\ promo' = [promo EXCEPT ![m] = [PendingPromotion EXCEPT
                   !.state = "cleanup_pending", !.token = pass[p].token]]
    /\ Goes(p, "handoff")
    /\ UNCHANGED <<eventVars, row, suppressed, object, inflight, receipt, job,
                   purge, req, sweep, purger>>

\* Mutant of InspectIngress: the object is not read before it is adopted.
AdoptsUnseen(p) ==
    LET m == pass[p].m IN
    /\ pass[p].pc = "ingress"
    /\ promo[m].state = "copying" /\ promo[m].kind = "buffer"
    /\ eventLive /\ row[m].state = "reserved"
    /\ Goes(p, "adopt")
    /\ UNCHANGED <<eventVars, row, promo, suppressed, object, inflight, receipt,
                   job, purge, req, sweep, purger>>

\* An interrupted upload: its bytes are in place under the claimed digest ...
InspectIngress(p) ==
    LET m == pass[p].m IN
    /\ pass[p].pc = "ingress"
    /\ promo[m].state = "copying" /\ promo[m].kind = "buffer"
    /\ eventLive /\ row[m].state = "reserved"
    /\ object[m]["final"] = pass[p].digest
    /\ Goes(p, "adopt")
    /\ UNCHANGED <<eventVars, row, promo, suppressed, object, inflight, receipt,
                   job, purge, req, sweep, purger>>

\* Mutant of AdoptFinal: the row's state, read before the await, is not compared.
AdoptsStale(p) ==
    LET m == pass[p].m IN
    /\ pass[p].pc = "adopt" /\ eventLive
    /\ promo[m].state = "copying" /\ promo[m].kind = "buffer"
    /\ promo[m].digest = pass[p].digest
    /\ Unsuppressed(m)
    /\ row' = [row EXCEPT ![m].state = "stored", ![m].ptr = "final"]
    /\ Recount(m, "stored")
    /\ promo' = [promo EXCEPT ![m].state = "cleanup_pending", ![m].committed = TRUE,
                              ![m].lease = FALSE]
    /\ receipt' = [receipt EXCEPT ![m] = pass[p].digest]
    /\ Settled(p)
    /\ UNCHANGED <<eventLive, intakeOpen, suppressed, object, inflight, job, purge,
                   req, sweep, purger>>

\* ... adoptPresentIngressFinal: deliver it, whatever its deadline or intake.
AdoptFinal(p) ==
    LET m == pass[p].m IN
    /\ pass[p].pc = "adopt"
    /\ eventLive /\ row[m].state = "reserved"
    /\ promo[m].state = "copying" /\ promo[m].kind = "buffer"
    /\ promo[m].digest = pass[p].digest
    /\ Unsuppressed(m)
    /\ row' = [row EXCEPT ![m].state = "stored", ![m].ptr = "final"]
    /\ Recount(m, "stored")
    /\ promo' = [promo EXCEPT ![m].state = "cleanup_pending", ![m].committed = TRUE,
                              ![m].lease = FALSE]
    /\ receipt' = [receipt EXCEPT ![m] = pass[p].digest]
    /\ Settled(p)
    /\ UNCHANGED <<eventLive, intakeOpen, suppressed, object, inflight, job, purge,
                   req, sweep, purger>>

\* activePointerSql: the row, active or recoverable, still points where this
\* promotion left it, in a live event.
OwnsPointer(m) ==
    /\ eventLive /\ row[m].state = "stored"
    /\ row[m].ptr = IF promo[m].committed THEN "final" ELSE "source"

RetiredKeys(m) ==
    CASE OwnsPointer(m) /\ promo[m].committed -> {"source"}
      [] OwnsPointer(m) /\ ~promo[m].committed -> {"final"}
      [] OTHER -> Keys

\* handoffPromotionToPermanentSuppression: suppress the retired aliases and,
\* if exactly those are now suppressed, drop the promotion row.
Handoff(p) ==
    LET m == pass[p].m  ks == RetiredKeys(m) IN
    /\ pass[p].pc = "handoff"
    /\ promo[m].state = "cleanup_pending" /\ HasToken(p)
    /\ MaySuppress(m, ks)
    /\ suppressed' = [suppressed EXCEPT ![m] = @ \cup ks]
    /\ promo' = [promo EXCEPT ![m] = IF suppressed'[m] = ks THEN NoPromotion ELSE @]
    /\ Settled(p)
    /\ UNCHANGED <<eventVars, row, object, inflight, receipt, job, purge, req,
                   sweep, purger>>

\* Nothing more to do for this candidate, an error, or the invocation dies.
PassEnds(p) ==
    /\ pass[p].pc # "idle" /\ Settled(p)
    /\ UNCHANGED <<eventVars, row, promo, suppressed, object, inflight, receipt,
                   job, purge, req, sweep, purger>>

PassAdvances(p) ==
    \/ ClaimPromotion(p) \/ ClaimInactive(p) \/ RecordSource(p) \/ ReleaseClaim(p)
    \/ PutCopy(p) \/ VerifyCopy(p) \/ MarkVerified(p) \/ CommitPointer(p)
    \/ ParkVerified(p) \/ ParkInactive(p) \/ InspectIngress(p) \/ AdoptFinal(p)
    \/ Handoff(p)

PromotionStep ==
    \E p \in Passes :
        \/ \E m \in Media : PickCandidate(p, m)
        \/ PassAdvances(p) \/ PassEnds(p)
=============================================================================
