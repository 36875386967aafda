-------------------------- MODULE UploadTransfers --------------------------
(***************************************************************************)
(* The resumable transfer of one reserved photo: its row                   *)
(* (media_upload_transfers), its parts, the multipart assembly in R2, and  *)
(* the request handlers that put parts (UploadTransferService.putPart).    *)
(*                                                                         *)
(* A photo has one transfer for life and a transfer one attempt.  Every    *)
(* mutation that ends a transfer increments its generation, and a trigger  *)
(* suppresses parts and assembly in the same statement: generations are    *)
(* modelled by the flag fenced.  Clocks are flags the environment turns.   *)
(***************************************************************************)
EXTENDS Naturals, FiniteSets

CONSTANTS
    Parts,          \* part indexes of the photo
    Contents,       \* bytes a client may send for a part
    NoBytes,        \* nothing stored
    Handlers,       \* requests putting a part
    Execs,          \* executions of processUploadCompletion, zombies included
    NoToken,        \* completion_token or claim_token IS NULL
    ClientToken     \* token of claimCompletion: no execution has it

ASSUME PartsAssumption == IsFiniteSet(Parts) /\ Parts # {}
ASSUME ContentsAssumption == Contents # {} /\ NoBytes \notin Contents
ASSUME TokensAssumption ==
    /\ Handlers \cap Execs = {} /\ NoToken # ClientToken
    /\ {NoToken, ClientToken} \cap (Handlers \cup Execs) = {}

VARIABLES
    media,          \* media.upload_state of the photo
    open,           \* authority, intake and event let this uploader write now
    expired,        \* the transfer's deadline has passed
    tr,             \* row of media_upload_transfers
    part,           \* table media_upload_parts
    asm,            \* row of media_upload_assemblies
    promo,          \* the photo's row of media_object_promotions
    lease,          \* lease of the completion claim (transfer, assembly, promotion)
    multipart,      \* R2: the multipart upload
    uploaded,       \* R2: bytes of each part it holds
    object,         \* R2: the assembled object and the final object
    calls,          \* R2 calls issued whose effect may still come
    handler,        \* request handlers
    exec,           \* completion executions
    instance,       \* the completion workflow's instance on the platform
    restarting,     \* a dispatcher decided to restart the instance
    cleaner         \* where the cleanup is between its awaits

rows == <<media, open, expired, tr, part, asm, promo, lease>>
storage == <<multipart, uploaded, object, calls>>
workers == <<handler, exec, instance, restarting, cleaner>>
vars == <<media, open, expired, tr, part, asm, promo, lease, multipart, uploaded,
          object, calls, handler, exec, instance, restarting, cleaner>>

Active == {"receiving", "processing", "retryable"}
Terminal == {"rejected", "aborted", "expired"}
Bytes == Contents \cup {NoBytes}
Photo == [Parts -> Bytes]
Nothing == [p \in Parts |-> NoBytes]
Tokens == Handlers \cup Execs \cup {NoToken, ClientToken}

Transfer == [state: Active \cup Terminal \cup {"none", "delivered"},
             fenced: BOOLEAN, token: Tokens]
Part == [state: {"none", "writing", "accepted", "suppressed"}, sha: Bytes,
         token: Tokens, lease: BOOLEAN, settled: BOOLEAN]
Assembly == [state: {"none", "creating", "receiving", "completing", "completed",
                     "suppressed", "absent"},
             token: Tokens, id: BOOLEAN, created: BOOLEAN, settled: BOOLEAN,
             etag: BOOLEAN, hash: Photo, closed: BOOLEAN]

NoTransfer == [state |-> "none", fenced |-> FALSE, token |-> NoToken]
NoPart == [state |-> "none", sha |-> NoBytes, token |-> NoToken, lease |-> FALSE,
           settled |-> TRUE]
NoAssembly == [state |-> "none", token |-> NoToken, id |-> FALSE, created |-> FALSE,
               settled |-> FALSE, etag |-> FALSE, hash |-> Nothing, closed |-> FALSE]
IdleHandler == [pc |-> "idle", p |-> CHOOSE p \in Parts : TRUE, c |-> NoBytes]

TypeOK ==
    /\ media \in {"reserved", "stored", "failed", "deleted"}
    /\ open \in BOOLEAN /\ expired \in BOOLEAN /\ lease \in BOOLEAN
    /\ tr \in Transfer /\ part \in [Parts -> Part] /\ asm \in Assembly
    /\ promo \in [state: {"pending", "copying", "committed"}, token: Tokens]
    /\ multipart \in {"none", "asked", "open", "gone"}
    /\ uploaded \in Photo /\ object \in [{"assembly", "final"} -> Photo]
    /\ calls \in [complete: BOOLEAN, put: Photo]
    /\ handler \in [Handlers -> [pc: {"idle", "create", "creating", "record", "unknown",
                                      "claim", "upload", "accept", "settle"},
                                 p: Parts, c: Bytes]]
    /\ exec \in [Execs -> {"idle", "look", "record", "hash", "inspect", "claim",
                           "put", "verify", "commit", "retry", "reject", "release",
                           "settle"}]
    /\ instance \in {"none", "active", "ended"} /\ restarting \in BOOLEAN
    /\ cleaner \in {"idle", "mark"}

Init ==
    /\ media = "reserved" /\ open = TRUE /\ expired = FALSE
    /\ tr = NoTransfer /\ part = [p \in Parts |-> NoPart] /\ asm = NoAssembly
    /\ promo = [state |-> "pending", token |-> NoToken] /\ lease = FALSE
    /\ multipart = "none" /\ uploaded = Nothing
    /\ object = [k \in {"assembly", "final"} |-> Nothing]
    /\ calls = [complete |-> FALSE, put |-> Nothing]
    /\ handler = [h \in Handlers |-> IdleHandler]
    /\ exec = [x \in Execs |-> "idle"]
    /\ instance = "none" /\ restarting = FALSE /\ cleaner = "idle"

-----------------------------------------------------------------------------
(* What every statement repeats, and the fence.                            *)

\* owner(identity, now, writable): authority, both deadlines, the reservation.
Writable == open /\ ~expired /\ media = "reserved" /\ tr.state # "none"

Receiving == Writable /\ tr.state = "receiving"

\* Triggers on a generation increase: nothing of the transfer may go on.
Suppressed(rowsOf) == [p \in Parts |-> IF rowsOf[p].state = "none" THEN rowsOf[p]
                                       ELSE [rowsOf[p] EXCEPT !.state = "suppressed"]]

Fence(state) ==
    /\ tr' = [state |-> IF tr.state \in Active THEN state ELSE tr.state,
              fenced |-> tr.state # "none", token |-> NoToken]
    /\ part' = Suppressed(part)
    /\ asm' = IF asm.state \in {"none", "absent"} THEN asm
              ELSE [asm EXCEPT !.state = "suppressed"]

-----------------------------------------------------------------------------
(* The transfer and its parts.                                             *)

Initiate ==
    /\ tr.state = "none" /\ media = "reserved" /\ open /\ ~expired
    /\ tr' = [NoTransfer EXCEPT !.state = "receiving"]
    /\ UNCHANGED <<media, open, expired, part, asm, promo, lease, storage, workers>>

\* putPart up to createAssemblyIntent: the intent is durable before R2 hears
\* of it, and the insert keeps an intent that is already there.
BeginPart(h, p, c) ==
    /\ handler[h].pc = "idle" /\ Receiving
    /\ asm' = IF asm.state = "none" THEN [asm EXCEPT !.state = "creating"] ELSE asm
    /\ handler' = [handler EXCEPT ![h] =
                     [pc |-> IF asm.id THEN "claim" ELSE "create", p |-> p, c |-> c]]
    /\ UNCHANGED <<media, open, expired, tr, part, promo, lease, storage, exec,
                   instance, restarting, cleaner>>

At(h, pc) == handler' = [handler EXCEPT ![h].pc = pc]
Leaves(h) == handler' = [handler EXCEPT ![h] = IdleHandler]

\* claimAssemblyCreate: one handler ever may ask R2 for the multipart upload;
\* the others, and every retry if its answer is lost, leave with 503.
ClaimCreate(h) ==
    /\ handler[h].pc = "create"
    /\ IF Receiving /\ asm.state = "creating" /\ asm.token = NoToken /\ ~asm.id
       THEN /\ asm' = [asm EXCEPT !.token = h]
            /\ multipart' = "asked" /\ At(h, "creating")
       ELSE UNCHANGED <<asm, multipart>> /\ Leaves(h)
    /\ UNCHANGED <<media, open, expired, tr, part, promo, lease, uploaded, object, calls,
                   exec, instance, restarting, cleaner>>

\* The answer of createMultipartUpload: the upload id, or an error that says
\* nothing about what R2 did.
CreateAnswered(h) ==
    /\ handler[h].pc = "creating"
    /\ \/ multipart = "open" /\ At(h, "record")
       \/ At(h, "unknown")
    /\ UNCHANGED <<rows, storage, exec, instance, restarting, cleaner>>

\* recordAssemblyCreated keeps a late id even behind a fence.
RecordCreated(h) ==
    /\ handler[h].pc = "record"
    /\ asm' = [asm EXCEPT !.id = TRUE, !.created = TRUE,
                          !.settled = IF asm.created THEN @ ELSE TRUE,
                          !.state = IF @ = "creating" THEN "receiving" ELSE @]
    /\ At(h, "claim")
    /\ UNCHANGED <<media, open, expired, tr, part, promo, lease, storage, exec,
                   instance, restarting, cleaner>>

SettleUnknownCreate(h) ==
    /\ handler[h].pc = "unknown"
    /\ asm' = IF asm.id THEN asm ELSE [asm EXCEPT !.created = TRUE, !.settled = TRUE]
    /\ Leaves(h)
    /\ UNCHANGED <<media, open, expired, tr, part, promo, lease, storage, exec,
                   instance, restarting, cleaner>>

\* Mutant of Claimable: a lapsed lease stands for a writer that has settled.
ClaimableByAge(p, c) ==
    part[p].state = "none" \/ (part[p].state = "writing" /\ ~part[p].lease)

\* The part's digest is pinned by its first claim; a writer that settled and
\* whose lease lapsed may be replaced, one that vanished may not.
Claimable(p, c) ==
    \/ part[p].state = "none"
    \/ part[p].state = "writing" /\ part[p].sha = c /\ part[p].settled /\ ~part[p].lease

ClaimPart(h) ==
    LET p == handler[h].p  c == handler[h].c IN
    /\ handler[h].pc = "claim"
    /\ IF Receiving /\ Claimable(p, c)
       THEN /\ part' = [part EXCEPT ![p] = [state |-> "writing", sha |-> c, token |-> h,
                                            lease |-> TRUE, settled |-> FALSE]]
            /\ At(h, "upload")
       ELSE UNCHANGED part /\ Leaves(h)
    /\ UNCHANGED <<media, open, expired, tr, asm, promo, lease, storage, exec,
                   instance, restarting, cleaner>>

\* uploadPart: answered, applied with its answer lost, or refused.
UploadPart(h) ==
    /\ handler[h].pc = "upload"
    /\ \/ /\ multipart = "open"
          /\ uploaded' = [uploaded EXCEPT ![handler[h].p] = handler[h].c]
          /\ At(h, "accept") \/ At(h, "settle")
       \/ UNCHANGED uploaded /\ At(h, "settle")
    /\ UNCHANGED <<rows, multipart, object, calls, exec, instance, restarting, cleaner>>

\* acceptPart; its extension of expires_at is the clock flag not turned yet.
AcceptPart(h) ==
    LET p == handler[h].p IN
    /\ handler[h].pc = "accept"
    /\ part' = IF /\ Receiving /\ part[p].token = h /\ part[p].lease
                  /\ part[p].state \in {"writing", "accepted"}
               THEN [part EXCEPT ![p].state = "accepted", ![p].settled = TRUE]
               ELSE part
    /\ At(h, "settle")
    /\ UNCHANGED <<media, open, expired, tr, asm, promo, lease, storage, exec,
                   instance, restarting, cleaner>>

SettlePart(h) ==
    LET p == handler[h].p IN
    /\ handler[h].pc = "settle"
    /\ part' = IF part[p].token = h
               THEN [part EXCEPT ![p].settled = TRUE, ![p].lease = FALSE] ELSE part
    /\ Leaves(h)
    /\ UNCHANGED <<media, open, expired, tr, asm, promo, lease, storage, exec,
                   instance, restarting, cleaner>>

HandlerDies(h) ==
    /\ handler[h].pc # "idle" /\ Leaves(h)
    /\ UNCHANGED <<rows, storage, exec, instance, restarting, cleaner>>

\* claimCompletion: all parts accepted; the assembly closes to further parts.
ClaimCompletion ==
    /\ Receiving /\ \A p \in Parts : part[p].state = "accepted"
    /\ asm.state = "receiving" /\ asm.id /\ asm.created
    /\ tr' = [tr EXCEPT !.state = "processing", !.token = ClientToken]
    /\ asm' = [asm EXCEPT !.state = "completing", !.token = ClientToken, !.settled = TRUE]
    /\ lease' = TRUE
    /\ UNCHANGED <<media, open, expired, part, promo, storage, workers>>

-----------------------------------------------------------------------------
(* Endings that do not wait for the workflow.                              *)

\* fenceOwned: the uploader gives up; failReservation follows as FailTerminal.
Abort ==
    /\ open /\ ~expired /\ tr.state \in Active /\ Fence("aborted")
    /\ UNCHANGED <<media, open, expired, promo, lease, storage, workers>>

\* fenceIfUnwritable, run by every cleanup.
FenceIfUnwritable ==
    /\ tr.state \in Active /\ ~Writable
    /\ Fence(IF expired THEN "expired" ELSE "aborted")
    /\ UNCHANGED <<media, open, expired, promo, lease, storage, workers>>

\* The reservation of a transfer that ended without delivery is released, by
\* the request that ended it or by a later cleanup; the media trigger fences.
FailTerminal ==
    /\ tr.state \in Terminal /\ media = "reserved"
    /\ media' = "failed" /\ Fence("aborted")
    /\ UNCHANGED <<open, expired, promo, lease, storage, workers>>

\* Cancelled, swept or deleted elsewhere: mobile_image_media_fence fences.
MediaGone ==
    /\ \/ media = "reserved" /\ media' = "failed"
       \/ media = "stored" /\ media' = "deleted"
    /\ Fence("aborted")
    /\ UNCHANGED <<open, expired, promo, lease, storage, workers>>

\* mobile_image_event_fence: the event is deleted, its transfers with it.
EventGone ==
    /\ open /\ open' = FALSE /\ Fence("aborted")
    /\ UNCHANGED <<media, expired, promo, lease, storage, workers>>

-----------------------------------------------------------------------------
(* The environment.  A flag turns only while a statement still reads it.    *)

Toggle ==
    /\ tr.state \in Active /\ open' = ~open
    /\ UNCHANGED <<media, expired, tr, part, asm, promo, lease, storage, workers>>

DeadlinePasses ==
    /\ tr.state \in Active /\ ~expired /\ expired' = TRUE
    /\ UNCHANGED <<media, open, tr, part, asm, promo, lease, storage, workers>>

PartLeaseLapses(p) ==
    /\ tr.state = "receiving" /\ part[p].lease
    /\ part' = [part EXCEPT ![p].lease = FALSE]
    /\ UNCHANGED <<media, open, expired, tr, asm, promo, lease, storage, workers>>

\* R2 acts on a createMultipartUpload sooner or later, or not at all.
CreateLands ==
    /\ multipart = "asked" /\ multipart' \in {"open", "none"}
    /\ UNCHANGED <<rows, uploaded, object, calls, workers>>

TransferStep ==
    \/ Initiate \/ ClaimCompletion \/ Abort \/ MediaGone \/ EventGone
    \/ \E h \in Handlers :
        \/ \E p \in Parts, c \in Contents : BeginPart(h, p, c)
        \/ ClaimCreate(h) \/ CreateAnswered(h) \/ RecordCreated(h)
        \/ SettleUnknownCreate(h) \/ ClaimPart(h) \/ UploadPart(h) \/ AcceptPart(h)
        \/ SettlePart(h) \/ HandlerDies(h)
    \/ Toggle \/ DeadlinePasses \/ CreateLands
    \/ \E p \in Parts : PartLeaseLapses(p)
=============================================================================
