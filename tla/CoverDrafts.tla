------------------------------ MODULE CoverDrafts ------------------------------
(***************************************************************************)
(* The drafts of one event's cover: reservation under the event's caps,    *)
(* the raw upload, its inspection into a normalized master, composition,   *)
(* discard, expiry, and the sweep of raw objects and masters.              *)
(*                                                                         *)
(* What publication does is reduced here to what it does to a draft and to *)
(* the active cover; CoverPublication has the rest.  A draft's revision is *)
(* kept as what a request knows: whether the one it read is still current. *)
(***************************************************************************)
EXTENDS Integers, FiniteSets

CONSTANTS Drafts, Puts, Inspectors,
          Masters,  \* bound: masters ever normalized
          MaxLive,  \* MAX_LIVE_COVER_DRAFTS_PER_EVENT
          RawCap,   \* MAX_LIVE_COVER_RAW_BYTES_PER_EVENT, in uploads of the largest size
          NoOne

CoverSizes ==
    /\ MaxLive \in Nat /\ RawCap \in Nat /\ NoOne \notin Drafts \cup Masters
    /\ IsFiniteSet(Drafts)

VARIABLES draft, raw, masterRow, masterObject, active, put, inspector, sweep

vars == <<draft, raw, masterRow, masterObject, active, put, inspector, sweep>>

Live == {"reserved", "transferred", "inspected", "ready", "publishing"}
Terminal == {"failed", "expired", "published"}
Expirable == {"reserved", "transferred", "inspected", "ready", "failed"}
NoDraft == [state |-> "none", source |-> "new_upload", key |-> FALSE, master |-> NoOne]
IdlePut == [pc |-> "idle", draft |-> NoOne, fresh |-> FALSE]
IdleInspector == [pc |-> "idle", draft |-> NoOne, fresh |-> FALSE, master |-> NoOne]
IdleSweep == [pc |-> "idle", of |-> NoOne]

TypeOK ==
    /\ draft \in [Drafts -> [state: {"none"} \cup Live \cup Terminal, source: {"new_upload", "existing_upload"},
                             key: BOOLEAN, master: Masters \cup {NoOne}]]
    /\ raw \subseteq Drafts /\ masterObject \subseteq Masters
    /\ masterRow \in [Masters -> {"none", "kept", "scheduled", "deleted"}]
    /\ active \in Masters \cup {NoOne}
    /\ put \in [Puts -> [pc: {"idle", "read", "claimed", "sending", "landed", "verified",
                              "partial", "deleted", "absent", "unproven"},
                         draft: Drafts \cup {NoOne}, fresh: BOOLEAN]]
    /\ inspector \in [Inspectors -> [pc: {"idle", "read", "rejected", "fail", "written", "inserted", "adopted",
                                          "preview", "gone", "exhausted", "release", "schedule"},
                                     draft: Drafts \cup {NoOne}, fresh: BOOLEAN, master: Masters \cup {NoOne}]]
    /\ sweep \in [pc: {"idle", "release", "master", "row"}, of: Drafts \cup Masters \cup {NoOne}]
    \* The foreign key of a draft's master.
    /\ \A d \in Drafts : draft[d].master # NoOne => masterRow[draft[d].master] \in {"kept", "scheduled"}

Init ==
    /\ draft = [d \in Drafts |-> NoDraft] /\ raw = {}
    /\ masterRow = [m \in Masters |-> "none"] /\ masterObject = {} /\ active = NoOne
    /\ put = [p \in Puts |-> IdlePut] /\ inspector = [i \in Inspectors |-> IdleInspector]
    /\ sweep = IdleSweep

\* liveCoverRawBytesSql: by inventory, and before there is any by the reservation.
Charged(d) ==
    draft[d].key \/ (draft[d].source = "new_upload" /\ draft[d].state \in {"reserved", "transferred"})
ChargedDrafts == {d \in Drafts : Charged(d)}
LiveDrafts == {d \in Drafts : draft[d].state \in Live}

\* A new revision of d: whoever read the old one holds a stale one.
Bumped(d) ==
    /\ put' = [p \in Puts |-> IF put[p].draft = d THEN [put[p] EXCEPT !.fresh = FALSE] ELSE put[p]]
    /\ inspector' = [i \in Inspectors |->
         IF inspector[i].draft = d THEN [inspector[i] EXCEPT !.fresh = FALSE] ELSE inspector[i]]

\* A master some set of the event still needs: the active one, or one being prepared.
InSet(m) == m = active \/ \E d \in Drafts : draft[d].state = "publishing" /\ draft[d].master = m

-----------------------------------------------------------------------------
(* Reservation and the raw upload.                                         *)

Room(source) ==
    /\ Cardinality(LiveDrafts) < MaxLive
    /\ Cardinality(ChargedDrafts) + (IF source = "new_upload" THEN 1 ELSE 0) <= RawCap

\* createCoverDraft; an edit of the active cover needs no upload.
Create(d, source) ==
    /\ draft[d].state = "none" /\ Room(source)
    /\ source = "existing_upload" => active # NoOne
    /\ draft' = [draft EXCEPT ![d] =
         IF source = "new_upload" THEN [NoDraft EXCEPT !.state = "reserved"]
         ELSE [state |-> "ready", source |-> source, key |-> FALSE, master |-> active]]
    /\ UNCHANGED <<raw, masterRow, masterObject, active, put, inspector, sweep>>

PutReads(p, d) ==
    /\ put[p].pc = "idle" /\ draft[d].state = "reserved"
    /\ put' = [put EXCEPT ![p] = [pc |-> "read", draft |-> d, fresh |-> TRUE]]
    /\ UNCHANGED <<draft, raw, masterRow, masterObject, active, inspector, sweep>>

\* claimCoverRawIngress: a request that still holds the current revision
\* enters an occupied slot again.
Claim(p) ==
    LET d == put[p].draft IN
    /\ put[p].pc = "read"
    /\ IF draft[d].state = "reserved" /\ put[p].fresh
       THEN /\ draft' = [draft EXCEPT ![d].key = TRUE]
            /\ put' = [q \in Puts |->
                 IF q = p THEN [put[p] EXCEPT !.pc = "claimed"]
                 ELSE IF put[q].draft = d /\ ~draft[d].key THEN [put[q] EXCEPT !.fresh = FALSE] ELSE put[q]]
       ELSE put' = [put EXCEPT ![p] = IdlePut] /\ UNCHANGED draft
    /\ UNCHANGED <<raw, masterRow, masterObject, active, inspector, sweep>>

\* loadCoverDraft, of whatever the revision is by now; then the bytes are sent.
Send(p) ==
    /\ put[p].pc = "claimed"
    /\ put' = [put EXCEPT ![p].pc = "sending", ![p].fresh = TRUE]
    /\ UNCHANGED <<draft, raw, masterRow, masterObject, active, inspector, sweep>>

Lands(p) ==
    /\ put[p].pc = "sending"
    /\ raw' = raw \cup {put[p].draft} /\ put' = [put EXCEPT ![p].pc = "landed"]
    /\ UNCHANGED <<draft, masterRow, masterObject, active, inspector, sweep>>

\* The stream stopped short, ran long or broke.
Breaks(p) ==
    /\ put[p].pc = "sending" /\ put' = [put EXCEPT ![p].pc = "partial"]
    /\ UNCHANGED <<draft, raw, masterRow, masterObject, active, inspector, sweep>>

Verify(p) ==
    /\ put[p].pc = "landed"
    /\ put' = [put EXCEPT ![p].pc = IF put[p].draft \in raw THEN "verified" ELSE "partial"]
    /\ UNCHANGED <<draft, raw, masterRow, masterObject, active, inspector, sweep>>

\* recordVerifiedCoverRaw, or its refusal.
Record(p) ==
    LET d == put[p].draft  ok == put[p].fresh /\ draft[d].state = "reserved" /\ draft[d].key IN
    /\ put[p].pc = "verified"
    /\ draft' = IF ok THEN [draft EXCEPT ![d].state = "transferred"] ELSE draft
    /\ put' = [q \in Puts |-> IF q = p THEN IdlePut
                              ELSE IF ok /\ put[q].draft = d THEN [put[q] EXCEPT !.fresh = FALSE] ELSE put[q]]
    /\ UNCHANGED <<raw, masterRow, masterObject, active, inspector, sweep>>

\* discardPartialRaw: delete, look, and clear the pointer only if it is gone.
DeletePartial(p) ==
    /\ put[p].pc = "partial"
    /\ \/ raw' = raw \ {put[p].draft} /\ put' = [put EXCEPT ![p].pc = "deleted"]
       \/ UNCHANGED raw /\ put' = [put EXCEPT ![p].pc = "unproven"]
    /\ UNCHANGED <<draft, masterRow, masterObject, active, inspector, sweep>>

ProvePartial(p) ==
    /\ put[p].pc = "deleted"
    /\ put' = [put EXCEPT ![p].pc = IF put[p].draft \in raw THEN "unproven" ELSE "absent"]
    /\ UNCHANGED <<draft, raw, masterRow, masterObject, active, inspector, sweep>>

\* clearCoverRawPointer: no new revision.
Cleared(d, state) ==
    IF draft[d].state = state THEN [draft EXCEPT ![d].key = FALSE] ELSE draft

ClearPartial(p) ==
    /\ put[p].pc = "absent"
    /\ draft' = Cleared(put[p].draft, "reserved") /\ put' = [put EXCEPT ![p] = IdlePut]
    /\ UNCHANGED <<raw, masterRow, masterObject, active, inspector, sweep>>

\* failCoverDraft, whatever the revision, unless the draft is being published or was.
Fails(d) == draft[d].state \notin {"publishing", "published"}
Failed(d) == IF Fails(d) THEN [draft EXCEPT ![d].state = "failed"] ELSE draft

FailPartial(p) ==
    LET d == put[p].draft IN
    /\ put[p].pc = "unproven" /\ draft' = Failed(d)
    /\ put' = [q \in Puts |-> IF q = p THEN IdlePut
                 ELSE IF Fails(d) /\ put[q].draft = d THEN [put[q] EXCEPT !.fresh = FALSE] ELSE put[q]]
    /\ inspector' = [i \in Inspectors |->
         IF Fails(d) /\ inspector[i].draft = d THEN [inspector[i] EXCEPT !.fresh = FALSE] ELSE inspector[i]]
    /\ UNCHANGED <<raw, masterRow, masterObject, active, sweep>>

PutDies(p) ==
    /\ put[p].pc # "idle" /\ put' = [put EXCEPT ![p] = IdlePut]
    /\ UNCHANGED <<draft, raw, masterRow, masterObject, active, inspector, sweep>>

-----------------------------------------------------------------------------
(* Inspection.                                                             *)

InspectorReads(i, d) ==
    /\ inspector[i].pc = "idle" /\ draft[d].state = "transferred" /\ draft[d].key
    /\ inspector' = [inspector EXCEPT ![i] = [pc |-> "read", draft |-> d, fresh |-> TRUE, master |-> NoOne]]
    /\ UNCHANGED <<draft, raw, masterRow, masterObject, active, put, sweep>>

Unused(m) ==
    /\ masterRow[m] = "none" /\ m \notin masterObject
    /\ \A i \in Inspectors : inspector[i].master # m

\* normalizeCoverMaster, which writes the master's object.
Normalize(i, m) ==
    /\ inspector[i].pc = "read" /\ inspector[i].draft \in raw /\ Unused(m)
    /\ masterObject' = masterObject \cup {m}
    /\ inspector' = [inspector EXCEPT ![i].pc = "written", ![i].master = m]
    /\ UNCHANGED <<draft, raw, masterRow, active, put, sweep>>

\* A missing raw or one that is no photograph.
Reject(i) ==
    /\ inspector[i].pc = "read" /\ inspector' = [inspector EXCEPT ![i].pc = "rejected"]
    /\ UNCHANGED <<draft, raw, masterRow, masterObject, active, put, sweep>>

DropRejected(i) ==
    /\ inspector[i].pc = "rejected"
    /\ \/ raw' = raw \ {inspector[i].draft}
       \/ UNCHANGED raw
    /\ inspector' = [inspector EXCEPT ![i].pc = "fail"]
    /\ UNCHANGED <<draft, masterRow, masterObject, active, put, sweep>>

FailInspection(i) ==
    LET d == inspector[i].draft IN
    /\ inspector[i].pc = "fail" /\ draft' = Failed(d)
    /\ inspector' = [j \in Inspectors |-> IF j = i THEN IdleInspector
                 ELSE IF Fails(d) /\ inspector[j].draft = d THEN [inspector[j] EXCEPT !.fresh = FALSE]
                 ELSE inspector[j]]
    /\ put' = [p \in Puts |-> IF Fails(d) /\ put[p].draft = d THEN [put[p] EXCEPT !.fresh = FALSE] ELSE put[p]]
    /\ UNCHANGED <<raw, masterRow, masterObject, active, sweep>>

InsertMaster(i) ==
    /\ inspector[i].pc = "written"
    /\ masterRow' = [masterRow EXCEPT ![inspector[i].master] = "kept"]
    /\ inspector' = [inspector EXCEPT ![i].pc = "inserted"]
    /\ UNCHANGED <<draft, raw, masterObject, active, put, sweep>>

\* adoptCoverInspection: the draft as this request read it, or nothing.
Adopt(i) ==
    LET d == inspector[i].draft
        ok == inspector[i].fresh /\ draft[d].state = "transferred" /\ draft[d].master = NoOne
    IN
    /\ inspector[i].pc = "inserted"
    /\ draft' = IF ok THEN [draft EXCEPT ![d].state = "inspected", ![d].master = inspector[i].master] ELSE draft
    /\ inspector' = [j \in Inspectors |->
         IF j = i THEN (IF ok THEN [inspector[i] EXCEPT !.pc = "adopted"] ELSE IdleInspector)
         ELSE IF ok /\ inspector[j].draft = d THEN [inspector[j] EXCEPT !.fresh = FALSE] ELSE inspector[j]]
    /\ put' = [p \in Puts |-> IF ok /\ put[p].draft = d THEN [put[p] EXCEPT !.fresh = FALSE] ELSE put[p]]
    /\ UNCHANGED <<raw, masterRow, masterObject, active, sweep>>

\* The natural preview, and then the deletion of the raw, or the failure of both.
Preview(i, ok) ==
    /\ inspector[i].pc = "adopted"
    /\ inspector' = [inspector EXCEPT ![i].pc = IF ok THEN "preview" ELSE "exhausted"]
    /\ UNCHANGED <<draft, raw, masterRow, masterObject, active, put, sweep>>

DropRaw(i) ==
    LET d == inspector[i].draft  kept == inspector[i].pc = "preview" IN
    /\ inspector[i].pc \in {"preview", "exhausted"}
    /\ \/ /\ raw' = raw \ {d}
          /\ inspector' = [inspector EXCEPT ![i].pc = IF kept THEN "gone" ELSE "release"]
       \/ /\ UNCHANGED raw
          /\ inspector' = [inspector EXCEPT ![i] = IF kept THEN IdleInspector ELSE [@ EXCEPT !.pc = "schedule"]]
    /\ UNCHANGED <<draft, masterRow, masterObject, active, put, sweep>>

ClearRaw(i) ==
    LET d == inspector[i].draft  kept == inspector[i].pc = "gone" IN
    /\ inspector[i].pc \in {"gone", "release"}
    /\ draft' = IF d \notin raw THEN Cleared(d, "inspected") ELSE draft
    /\ inspector' = [inspector EXCEPT ![i] = IF kept THEN IdleInspector ELSE [@ EXCEPT !.pc = "schedule"]]
    /\ UNCHANGED <<raw, masterRow, masterObject, active, put, sweep>>

Scheduled(m) == IF masterRow[m] = "kept" THEN [masterRow EXCEPT ![m] = "scheduled"] ELSE masterRow

ScheduleMaster(i) ==
    /\ inspector[i].pc = "schedule" /\ masterRow' = Scheduled(inspector[i].master)
    /\ inspector' = [inspector EXCEPT ![i].pc = "fail"]
    /\ UNCHANGED <<draft, raw, masterObject, active, put, sweep>>

InspectorDies(i) ==
    /\ inspector[i].pc # "idle" /\ inspector' = [inspector EXCEPT ![i] = IdleInspector]
    /\ UNCHANGED <<draft, raw, masterRow, masterObject, active, put, sweep>>

-----------------------------------------------------------------------------
(* The host and the publication.                                           *)

\* writeCoverComposition.
Compose(d) ==
    /\ draft[d].state = "inspected"
    /\ draft' = [draft EXCEPT ![d].state = "ready"] /\ Bumped(d)
    /\ UNCHANGED <<raw, masterRow, masterObject, active, sweep>>

\* discardCoverDraft: its master too, unless something else still needs it.
Discard(d) ==
    LET m == draft[d].master IN
    /\ draft[d].state \in Expirable
    /\ draft' = [draft EXCEPT ![d].state = "expired"] /\ Bumped(d)
    /\ masterRow' = IF m = NoOne \/ InSet(m) \/ \E e \in LiveDrafts \ {d} : draft[e].master = m
                    THEN masterRow ELSE [masterRow EXCEPT ![m] = "scheduled"]
    /\ UNCHANGED <<raw, masterObject, active, sweep>>

\* acceptCoverPublication freezes the draft; one publication is prepared at a time.
Accept(d) ==
    /\ draft[d].state = "ready" /\ \A e \in Drafts : draft[e].state # "publishing"
    /\ draft' = [draft EXCEPT ![d].state = "publishing"] /\ Bumped(d)
    /\ UNCHANGED <<raw, masterRow, masterObject, active, sweep>>

\* coverRenderFinalize: the cover it displaces is retired with its master.
Publish(d) ==
    /\ draft[d].state = "publishing"
    /\ draft' = [draft EXCEPT ![d].state = "published"] /\ Bumped(d)
    /\ active' = draft[d].master
    /\ masterRow' = IF active = NoOne THEN masterRow ELSE [masterRow EXCEPT ![active] = "scheduled"]
    /\ UNCHANGED <<raw, masterObject, sweep>>

\* A conflict or a permanent failure gives the draft back; a draft whose receipt
\* was swept is released by the sweep.
Release(d, state) ==
    /\ draft[d].state = "publishing" /\ state \in {"ready", "failed"}
    /\ draft' = [draft EXCEPT ![d].state = state] /\ Bumped(d)
    /\ UNCHANGED <<raw, masterRow, masterObject, active, sweep>>

\* applySemanticCoverPublication: a preset, or no cover.
Displace ==
    /\ active # NoOne /\ active' = NoOne
    /\ masterRow' = [masterRow EXCEPT ![active] = "scheduled"]
    /\ UNCHANGED <<draft, raw, masterObject, put, inspector, sweep>>

-----------------------------------------------------------------------------
(* cleanupEventCovers.                                                     *)

Expire(d) ==
    /\ draft[d].state \in Expirable
    /\ draft' = [draft EXCEPT ![d].state = "expired"] /\ Bumped(d)
    /\ UNCHANGED <<raw, masterRow, masterObject, active, sweep>>

\* deleteObjectFirst, and then the pointer that was charged.
SweepRaw(d) ==
    /\ sweep.pc = "idle" /\ draft[d].key /\ draft[d].state \in Terminal
    /\ raw' = raw \ {d} /\ sweep' = [pc |-> "release", of |-> d]
    /\ UNCHANGED <<draft, masterRow, masterObject, active, put, inspector>>

\* releaseCoverRawBytes, once R2 was seen without the object.
ReleaseRaw ==
    LET d == sweep.of IN
    /\ sweep.pc = "release"
    /\ draft' = IF d \notin raw /\ draft[d].state \in Terminal THEN [draft EXCEPT ![d].key = FALSE] ELSE draft
    /\ sweep' = IdleSweep
    /\ UNCHANGED <<raw, masterRow, masterObject, active, put, inspector>>

\* Mutant of Collectable: the drafts and the sets are forgotten.
CollectableIfScheduled(m) == masterRow[m] = "scheduled" /\ m # active
Collectable(m) ==
    /\ masterRow[m] = "scheduled" /\ ~InSet(m)
    /\ \A d \in LiveDrafts : draft[d].master # m

SweepMaster(m) ==
    /\ sweep.pc = "idle" /\ Collectable(m) /\ sweep' = [pc |-> "master", of |-> m]
    /\ UNCHANGED <<draft, raw, masterRow, masterObject, active, put, inspector>>

DropMaster ==
    /\ sweep.pc = "master"
    /\ masterObject' = masterObject \ {sweep.of} /\ sweep' = [sweep EXCEPT !.pc = "row"]
    /\ UNCHANGED <<draft, raw, masterRow, active, put, inspector>>

\* The drafts that are over let go of a master.
Unpointed(m) ==
    [d \in Drafts |-> IF draft[d].master = m /\ draft[d].state \notin Live
                      THEN [draft[d] EXCEPT !.master = NoOne] ELSE draft[d]]

DropMasterRow ==
    /\ sweep.pc = "row"
    /\ draft' = Unpointed(sweep.of)
    /\ masterRow' = [masterRow EXCEPT ![sweep.of] = "deleted"] /\ sweep' = IdleSweep
    /\ UNCHANGED <<raw, masterObject, active, put, inspector>>

-----------------------------------------------------------------------------
PutStep(p) ==
    \/ \E d \in Drafts : PutReads(p, d)
    \/ Claim(p) \/ Send(p) \/ Lands(p) \/ Breaks(p) \/ Verify(p) \/ Record(p)
    \/ DeletePartial(p) \/ ProvePartial(p) \/ ClearPartial(p) \/ FailPartial(p) \/ PutDies(p)

InspectorStep(i) ==
    \/ \E d \in Drafts : InspectorReads(i, d)
    \/ \E m \in Masters : Normalize(i, m)
    \/ Reject(i) \/ DropRejected(i) \/ FailInspection(i) \/ InsertMaster(i) \/ Adopt(i)
    \/ \E ok \in BOOLEAN : Preview(i, ok)
    \/ DropRaw(i) \/ ClearRaw(i) \/ ScheduleMaster(i) \/ InspectorDies(i)

HostStep(d) ==
    \/ \E source \in {"new_upload", "existing_upload"} : Create(d, source)
    \/ Compose(d) \/ Discard(d) \/ Accept(d)

Outcome(d) == Publish(d) \/ Release(d, "ready")

SweepStep ==
    \/ \E d \in Drafts : Expire(d) \/ SweepRaw(d) \/ Release(d, "failed")
    \/ \E m \in Masters : SweepMaster(m)
    \/ ReleaseRaw \/ DropMaster \/ DropMasterRow

Next ==
    \/ \E p \in Puts : PutStep(p)
    \/ \E i \in Inspectors : InspectorStep(i)
    \/ \E d \in Drafts : HostStep(d) \/ Outcome(d)
    \/ Displace
    \/ SweepStep

Spec == Init /\ [][Next]_vars

-----------------------------------------------------------------------------
(* Properties.                                                             *)

\* A draft that can still be published, and the cover the event shows, keep
\* their master, row and object, through every expiry, discard, displacement,
\* late failure of a second inspection and sweep.
LiveMasterKept ==
    \A m \in Masters :
        (m = active \/ \E d \in Drafts : draft[d].state \in {"inspected", "ready", "publishing"} /\ draft[d].master = m)
            => m \in masterObject /\ masterRow[m] \in {"kept", "scheduled"}

\* However uploads, discards and failures follow each other, an event points at no
\* more raw bytes than its cap, those of ended drafts included.
StoredBounded == Cardinality({d \in Drafts : draft[d].key}) <= RawCap

=============================================================================
