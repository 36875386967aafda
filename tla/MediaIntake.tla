----------------------------- MODULE MediaIntake -----------------------------
(***************************************************************************)
(* How a photo enters the event.  Its place is reserved before its bytes   *)
(* arrive, refreshed by an idempotent retry, failed by the expiry sweep,   *)
(* cancelled by its uploader or the host.  Its bytes are taken by a Worker *)
(* request that claims the right to write its final key, PUTs create-only, *)
(* verifies the digest it finds there and commits the row.  Handlers of a  *)
(* retried upload overlap; each may die between any two awaits.            *)
(***************************************************************************)
EXTENDS MediaState

\* reserve / one item of reserveBatch: the capacity guard counts recoverable
\* photos; the insert triggers add the promotion row and the tombstones.
Reserve(m) ==
    /\ eventLive /\ intakeOpen
    /\ row[m].state = "absent" /\ Unsuppressed(m)
    /\ Total(counts) < MaxCount /\ Total(bytes) + Size(m) <= MaxBytes
    /\ row' = [row EXCEPT ![m] = [NoRow EXCEPT !.state = "reserved"]]
    /\ promo' = [promo EXCEPT ![m] = PendingPromotion]
    /\ Recount(m, "reserved")
    /\ UNCHANGED <<eventLive, intakeOpen, suppressed, object, inflight, receipt,
                   job, purge, processVars>>

\* Mutant of RefreshReserved: a claimed or retired promotion does not stop it.
RefreshesClaimed(m) ==
    /\ eventLive /\ intakeOpen
    /\ row[m].state = "reserved" /\ Unsuppressed(m)
    /\ row' = [row EXCEPT ![m].expired = FALSE]
    /\ UNCHANGED <<eventVars, promo, suppressed, object, inflight, receipt, job,
                   purge, processVars>>

\* refreshIdempotent on a reserved row: only a promotion nobody claimed yet
\* lets the deadline move.
RefreshReserved(m) ==
    /\ eventLive /\ intakeOpen
    /\ row[m].state = "reserved" /\ promo[m].state = "pending" /\ Unsuppressed(m)
    /\ row' = [row EXCEPT ![m].expired = FALSE]
    /\ UNCHANGED <<eventVars, promo, suppressed, object, inflight, receipt, job,
                   purge, processVars>>

\* Mutant of RefreshFailed: the capacity trigger is missing.
RefreshesPastCapacity(m) ==
    /\ eventLive /\ intakeOpen
    /\ row[m].state = "failed" /\ promo[m].state = "pending" /\ Unsuppressed(m)
    /\ counts["reserved"] + counts["stored"] < MaxCount
    /\ bytes["reserved"] + bytes["stored"] + Size(m) <= MaxBytes
    /\ Recount(m, "reserved")
    /\ row' = [row EXCEPT ![m].state = "reserved", ![m].expired = FALSE]
    /\ UNCHANGED <<eventLive, intakeOpen, promo, suppressed, object, inflight,
                   receipt, job, purge, processVars>>

\* refreshIdempotent on a failed row.  The statement's own guard forgets the
\* recoverable photos; the capacity trigger aborts what it would let through.
RefreshFailed(m) ==
    /\ eventLive /\ intakeOpen
    /\ row[m].state = "failed" /\ promo[m].state = "pending" /\ Unsuppressed(m)
    /\ counts["reserved"] + counts["stored"] < MaxCount
    /\ bytes["reserved"] + bytes["stored"] + Size(m) <= MaxBytes
    /\ Recount(m, "reserved")
    /\ WithinLimits(counts', bytes')
    /\ row' = [row EXCEPT ![m].state = "reserved", ![m].expired = FALSE]
    /\ UNCHANGED <<eventLive, intakeOpen, promo, suppressed, object, inflight,
                   receipt, job, purge, processVars>>

\* listExpiredReservations: the sweep's page, read before any row is failed.
ListExpired(m) ==
    /\ row[m].state = "reserved" /\ row[m].expired /\ m \notin sweep
    /\ sweep' = sweep \cup {m}
    /\ UNCHANGED <<eventVars, row, promo, suppressed, object, inflight, receipt,
                   job, purge, req, pass, purger>>

\* failReservation on a listed photo: the state is re-read, the deadline not.
FailReservation(m) ==
    /\ m \in sweep
    /\ sweep' = sweep \ {m}
    /\ IF row[m].state = "reserved"
       THEN row' = [row EXCEPT ![m].state = "failed"] /\ Recount(m, "none")
       ELSE UNCHANGED <<row, counts, bytes>>
    /\ UNCHANGED <<eventLive, intakeOpen, promo, suppressed, object, inflight,
                   receipt, job, purge, req, pass, purger>>

\* cancelReservation, cancelGuestReservationFromManager: one batch deletes the
\* row and its promotion and suppresses every alias no export holds.
CancelReservation(m) ==
    /\ row[m].state \in {"reserved", "failed"}
    /\ row' = [row EXCEPT ![m].state = "deleted"]
    /\ Recount(m, "none")
    /\ promo' = [promo EXCEPT ![m] = NoPromotion]
    /\ suppressed' = [suppressed EXCEPT ![m] = @ \cup {k \in Keys : ~Held(m, k)}]
    /\ UNCHANGED <<eventLive, intakeOpen, object, inflight, receipt, job, purge,
                   processVars>>

\* reservation_expires_at (and with it source_writable_until) passes.
ReservationDeadline(m) ==
    /\ row[m].state # "absent" /\ ~row[m].expired
    /\ row' = [row EXCEPT ![m].expired = TRUE]
    /\ UNCHANGED <<eventVars, promo, suppressed, object, inflight, receipt, job,
                   purge, processVars>>

\* The host opens or pauses photo intake, or the uploader's authority ends.
ToggleIntake ==
    /\ eventLive /\ intakeOpen' = ~intakeOpen
    /\ UNCHANGED <<eventLive, counts, bytes, row, promo, suppressed, object,
                   inflight, receipt, job, purge, processVars>>

ReservationStep ==
    \/ ToggleIntake
    \/ \E m \in Media :
        \/ Reserve(m) \/ RefreshReserved(m) \/ RefreshFailed(m)
        \/ ListExpired(m) \/ FailReservation(m) \/ CancelReservation(m)
        \/ ReservationDeadline(m)
-----------------------------------------------------------------------------
(* receiveMediaUpload.                                                     *)

\* The request's instant is taken here; claimReservationIngress compares the
\* deadline with it, so a deadline that passes later does not stop the claim.
StartIngress(w, m, d) ==
    /\ req[w].pc = "idle"
    /\ row[m].state = "reserved" /\ ~row[m].expired
    /\ req' = [req EXCEPT ![w] = [pc |-> "claim", m |-> m, d |-> d]]
    /\ UNCHANGED <<eventVars, row, promo, suppressed, object, inflight, receipt,
                   job, purge, pass, sweep, purger>>

\* The promotion is unclaimed, or another handler claimed it for these bytes.
ClaimIngress(w) ==
    LET m == req[w].m  d == req[w].d IN
    /\ req[w].pc = "claim"
    /\ eventLive /\ intakeOpen /\ row[m].state = "reserved"
    /\ \/ promo[m].state = "pending"
       \/ promo[m].state = "copying" /\ promo[m].kind = "buffer" /\ promo[m].digest = d
    /\ promo' = [promo EXCEPT ![m] =
                   [state |-> "copying", kind |-> "buffer", digest |-> d,
                    token |-> w, lease |-> TRUE, committed |-> FALSE]]
    /\ req' = [req EXCEPT ![w].pc = "ensure"]
    /\ UNCHANGED <<eventVars, row, suppressed, object, inflight, receipt, job,
                   purge, pass, sweep, purger>>

\* ensureFinalObjectWriteTombstone refuses a suppressed key; then the PUT is
\* on its way and nothing can call it back.
PutFinal(w) ==
    LET m == req[w].m IN
    /\ req[w].pc = "ensure"
    /\ row[m].state # "absent" /\ "final" \notin suppressed[m]
    /\ inflight' = inflight \cup {<<w, m, req[w].d>>}
    /\ req' = [req EXCEPT ![w].pc = "putting"]
    /\ UNCHANGED <<eventVars, row, promo, suppressed, object, receipt, job, purge,
                   pass, sweep, purger>>

\* Mutant of VerifyFinal: the answer to the PUT is trusted, the digest not read.
TrustsPut(w) ==
    /\ req[w].pc = "putting"
    /\ req' = [req EXCEPT ![w].pc = "commit"]
    /\ UNCHANGED <<eventVars, row, promo, suppressed, object, inflight, receipt,
                   job, purge, pass, sweep, purger>>

\* verifiedFinalObject: whatever the PUT answered, the stored digest decides.
VerifyFinal(w) ==
    /\ req[w].pc = "putting"
    /\ object[req[w].m]["final"] = req[w].d
    /\ req' = [req EXCEPT ![w].pc = "commit"]
    /\ UNCHANGED <<eventVars, row, promo, suppressed, object, inflight, receipt,
                   job, purge, pass, sweep, purger>>

\* commitReservationIngress: row, counters and promotion in one batch, under
\* the authority, the deadline, the claim and its lease as they are now.
CommitIngress(w) ==
    LET m == req[w].m IN
    /\ req[w].pc = "commit"
    /\ eventLive /\ intakeOpen
    /\ row[m].state = "reserved" /\ ~row[m].expired
    /\ promo[m].state = "copying" /\ promo[m].kind = "buffer"
    /\ promo[m].token = w /\ promo[m].lease
    /\ Unsuppressed(m)
    /\ row' = [row EXCEPT ![m].state = "stored", ![m].ptr = "final"]
    /\ Recount(m, "stored")
    /\ promo' = [promo EXCEPT ![m].state = "cleanup_pending", ![m].committed = TRUE,
                              ![m].lease = FALSE]
    /\ receipt' = [receipt EXCEPT ![m] = req[w].d]
    /\ req' = [req EXCEPT ![w] = IdleRequest]
    /\ UNCHANGED <<eventLive, intakeOpen, suppressed, object, inflight, job, purge,
                   pass, sweep, purger>>

\* The handler returns, throws or is killed; its claim and its PUT outlive it.
RequestEnds(w) ==
    /\ req[w].pc # "idle"
    /\ req' = [req EXCEPT ![w] = IdleRequest]
    /\ UNCHANGED <<eventVars, row, promo, suppressed, object, inflight, receipt,
                   job, purge, pass, sweep, purger>>

\* R2 applies a PUT sooner or later, creating the object only if it is absent.
PutLands(put) ==
    /\ put \in inflight
    /\ inflight' = inflight \ {put}
    /\ object' = [object EXCEPT ![put[2]]["final"] = IF @ = NoBytes THEN put[3] ELSE @]
    /\ UNCHANGED <<eventVars, row, promo, suppressed, receipt, job, purge, processVars>>

PutFails(put) ==
    /\ put \in inflight
    /\ inflight' = inflight \ {put}
    /\ UNCHANGED <<eventVars, row, promo, suppressed, object, receipt, job, purge,
                   processVars>>

\* lease_expires_at of a claim passes.
LeaseDeadline(m) ==
    /\ promo[m].lease
    /\ promo' = [promo EXCEPT ![m].lease = FALSE]
    /\ UNCHANGED <<eventVars, row, suppressed, object, inflight, receipt, job, purge,
                   processVars>>

IngressStep ==
    \/ \E w \in Requests :
        \/ \E m \in Media, d \in Digests : StartIngress(w, m, d)
        \/ ClaimIngress(w) \/ PutFinal(w) \/ VerifyFinal(w) \/ CommitIngress(w)
        \/ RequestEnds(w)
    \/ \E put \in inflight : PutLands(put) \/ PutFails(put)
    \/ \E m \in Media : LeaseDeadline(m)
=============================================================================
