----------------------------- MODULE MediaState -----------------------------
(***************************************************************************)
(* The durable state behind the photographs of one event, and the facts    *)
(* every statement on it consults.                                         *)
(*                                                                         *)
(* D1 holds the event's counters (table events), one row per photo         *)
(* (media), the promoter's work list (media_object_promotions), the        *)
(* permanent write tombstones (media_object_write_tombstones) and the      *)
(* export jobs with their frozen entries.  R2 holds the bytes, under two   *)
(* keys per photo: the legacy bucket's "source" and the canonical bucket's *)
(* "final" key.  Every D1 statement or batch is one atomic step; an await  *)
(* between two of them is a step boundary.                                 *)
(*                                                                         *)
(* Clocks are not modelled: every deadline is a flag that the environment  *)
(* turns, in any order.                                                    *)
(***************************************************************************)
EXTENDS Integers, FiniteSets

CONSTANTS
    Media,          \* photo ids of the event
    LegacyMedia,    \* those that may have been stored before the canonical bucket existed
    Weight,         \* declared bytes of each set of photos: SQL's sum(byte_size)
    MaxCount,       \* MAX_EVENT_MEDIA
    MaxBytes,       \* MAX_EVENT_BYTES
    Digests,        \* contents a client may send
    LegacyDigest,   \* content of a legacy photo's source object
    NoBytes,        \* no content: an absent object, an unknown digest
    Requests,       \* handlers receiving an upload's bytes
    Passes,         \* overlapping invocations of the promoter
    NoToken,        \* claim_token IS NULL
    MaxJobs,        \* bound: export jobs ever created
    MaxAttempts     \* bound: attempts of one export job

ASSUME MediaAssumption ==
    IsFiniteSet(Media) /\ Media # {} /\ LegacyMedia \subseteq Media
ASSUME WeightAssumption ==
    /\ Weight \in [SUBSET Media -> Nat]
    /\ \A S, T \in SUBSET Media : S \cap T = {} => Weight[S \cup T] = Weight[S] + Weight[T]
ASSUME CapacityAssumption == MaxCount \in Nat /\ MaxBytes \in Nat
ASSUME BytesAssumption == LegacyDigest \in Digests /\ NoBytes \notin Digests
ASSUME TokenAssumption ==
    /\ NoToken \notin Requests \cup Passes
    /\ Requests \cap Passes = {}
ASSUME JobAssumption == MaxJobs \in Nat /\ MaxAttempts \in Nat \ {0}
\* The legacy photos were admitted under the same limits.
ASSUME LegacyFits ==
    \A old \in SUBSET LegacyMedia :
        Cardinality(old) <= MaxCount /\ Weight[old] <= MaxBytes

VARIABLES
    eventLive,      \* events.deleted_at IS NULL
    intakeOpen,     \* the authority may still add photos to this event
    counts,         \* events.{reserved,stored,recoverable}_media_count
    bytes,          \* events.{reserved,stored,recoverable}_bytes
    row,            \* table media
    promo,          \* table media_object_promotions
    suppressed,     \* keys whose tombstone has suppression_started_at set
    object,         \* R2: content under each key
    inflight,       \* final-key PUTs issued by a Worker, not yet applied
    receipt,        \* content a photo was delivered with (history, read by properties)
    req,            \* upload handlers
    pass,           \* promoter invocations
    sweep,          \* photos a reservation sweep listed as expired
    job,            \* table export_jobs with export_media_entries
    purge,          \* event_cover_purge_progress.phase
    purger          \* where the purge pass is between its awaits

eventVars == <<eventLive, intakeOpen, counts, bytes>>
processVars == <<req, pass, sweep, purger>>
vars == <<eventLive, intakeOpen, counts, bytes, row, promo, suppressed, object,
          inflight, receipt, req, pass, sweep, job, purge, purger>>

Keys == {"source", "final"}
Bytes == Digests \cup {NoBytes}
Tokens == Requests \cup Passes \cup {NoToken}
JobIds == 1..MaxJobs
Buckets == {"reserved", "stored", "recoverable"}
RowStates == {"absent", "reserved", "failed", "stored", "deleted"}

Row == [state: RowStates, ptr: Keys, expired: BOOLEAN,
        trash: {"no", "restorable", "lapsed"}]
Promotion == [state: {"none", "pending", "copying", "target_verified", "cleanup_pending"},
              kind: {"none", "buffer", "copy"}, digest: Bytes, token: Tokens,
              lease: BOOLEAN, committed: BOOLEAN]
Request == [pc: {"idle", "claim", "ensure", "putting", "commit"},
            m: Media, d: Digests]
PassStates == {"idle", "verified", "ingress", "adopt", "claim", "copy", "recover",
               "write", "wrote", "mark", "cutover", "inactive", "handoff"}
Pass == [pc: PassStates, m: Media, token: Tokens, digest: Bytes]
Job == [state: {"none", "queued", "running", "ready", "failed", "expired"},
        entries: SUBSET Media, attempt: 0..MaxAttempts]

NoRow == [state |-> "absent", ptr |-> "source", expired |-> FALSE, trash |-> "no"]
NoPromotion == [state |-> "none", kind |-> "none", digest |-> NoBytes,
                token |-> NoToken, lease |-> FALSE, committed |-> FALSE]
PendingPromotion == [NoPromotion EXCEPT !.state = "pending"]
IdleRequest == [pc |-> "idle", m |-> CHOOSE m \in Media : TRUE,
                d |-> CHOOSE d \in Digests : TRUE]
IdlePass == [pc |-> "idle", m |-> CHOOSE m \in Media : TRUE,
             token |-> NoToken, digest |-> NoBytes]
NoJob == [state |-> "none", entries |-> {}, attempt |-> 0]

TypeOK ==
    /\ eventLive \in BOOLEAN /\ intakeOpen \in BOOLEAN
    /\ counts \in [Buckets -> Int] /\ bytes \in [Buckets -> Int]
    /\ row \in [Media -> Row]
    /\ promo \in [Media -> Promotion]
    /\ suppressed \in [Media -> SUBSET Keys]
    /\ object \in [Media -> [Keys -> Bytes]]
    /\ inflight \subseteq (Requests \cup Passes) \X Media \X Bytes
    /\ receipt \in [Media -> Bytes]
    /\ req \in [Requests -> Request]
    /\ pass \in [Passes -> Pass]
    /\ sweep \subseteq Media
    /\ job \in [JobIds -> Job]
    /\ purge \in {"none", "fences", "r2", "relational", "complete"}
    /\ purger \in {"idle", "guard", "sweep", "check", "rows"}

-----------------------------------------------------------------------------
(* What the statements read.                                               *)

\* Stored, and none of the deletion markers: upload_state, deleted_at, trashed_at.
Active(m) == row[m].state = "stored" /\ row[m].trash = "no"

\* RECOVERABLE_ROW_SQL: trashed_at IS NOT NULL AND deleted_at = trashed_at.
Recoverable(m) == row[m].state = "stored" /\ row[m].trash # "no"

\* An active legacy photo of a live event: the only row the promoter serves.
LegacyActive(m) == eventLive /\ Active(m) /\ row[m].ptr = "source"

\* An accepted export still reads this exact object; entries are canonical.
Held(m, k) ==
    k = "final" /\ \E j \in JobIds : job[j].state \in {"queued", "running"}
                                     /\ m \in job[j].entries

\* Mutant of MaySuppress: the trigger of the exports' holds is missing.
MaySuppressHeld(m, ks) == \A k \in ks \ suppressed[m] : ~(Recoverable(m) /\ row[m].ptr = k)

\* The triggers on suppression_started_at: an export hold, or a recoverable
\* photo that owns the key, aborts the whole batch.
MaySuppress(m, ks) ==
    \A k \in ks \ suppressed[m] : ~Held(m, k) /\ ~(Recoverable(m) /\ row[m].ptr = k)

\* media_object_write_tombstone_guard_update: no alias of a row may be
\* suppressed when a statement makes the row reserved or stored.
Unsuppressed(m) == suppressed[m] = {}

\* Which counter bucket a row is charged to.
Bucket(r) == CASE r.state = "reserved" -> "reserved"
               [] r.state = "stored" /\ r.trash = "no" -> "stored"
               [] r.state = "stored" /\ r.trash # "no" -> "recoverable"
               [] OTHER -> "none"

Charged(b) == {m \in Media : Bucket(row[m]) = b}

\* The counter updates of the batches: take the photo out of one bucket, put
\* it into another ("none" stands for neither).
Moved(tally, from, to, amount) ==
    [b \in Buckets |-> tally[b] - (IF b = from THEN amount ELSE 0)
                                + (IF b = to THEN amount ELSE 0)]

Size(m) == Weight[{m}]

Recount(m, to) ==
    /\ counts' = Moved(counts, Bucket(row[m]), to, 1)
    /\ bytes' = Moved(bytes, Bucket(row[m]), to, Size(m))

Total(tally) == tally["reserved"] + tally["stored"] + tally["recoverable"]

\* events_media_capacity_guard_update.
WithinLimits(c, b) == Total(c) <= MaxCount /\ Total(b) <= MaxBytes

-----------------------------------------------------------------------------
\* An event opened before the canonical bucket existed has photos from then.
InitWith(old) ==
    /\ eventLive = TRUE /\ intakeOpen = TRUE
    /\ counts = [b \in Buckets |-> IF b = "stored" THEN Cardinality(old) ELSE 0]
    /\ bytes = [b \in Buckets |-> IF b = "stored" THEN Weight[old] ELSE 0]
    /\ row = [m \in Media |-> IF m \in old
                THEN [NoRow EXCEPT !.state = "stored", !.expired = TRUE] ELSE NoRow]
    /\ promo = [m \in Media |-> IF m \in old THEN PendingPromotion ELSE NoPromotion]
    /\ suppressed = [m \in Media |-> {}]
    /\ object = [m \in Media |-> [k \in Keys |->
                   IF m \in old /\ k = "source" THEN LegacyDigest ELSE NoBytes]]
    /\ inflight = {}
    /\ receipt = [m \in Media |-> IF m \in old THEN LegacyDigest ELSE NoBytes]
    /\ req = [w \in Requests |-> IdleRequest]
    /\ pass = [p \in Passes |-> IdlePass]
    /\ sweep = {}
    /\ job = [j \in JobIds |-> NoJob]
    /\ purge = "none" /\ purger = "idle"

Init == \E old \in SUBSET LegacyMedia : InitWith(old)
=============================================================================
