-------------------------- MODULE SelectionExports --------------------------
(***************************************************************************)
(* Exports of a selection of photographs: to the host's device, photograph *)
(* by photograph under read leases, or as an archive; the archive that     *)
(* takes over from a device export; their deadlines and their expiry.      *)
(*                                                                         *)
(* The archive's own attempts are the matter of ExportAttempts: here its   *)
(* Workflow claims the row, then settles it.                               *)
(***************************************************************************)
EXTENDS Integers, FiniteSets

CONSTANTS Device,       \* bound: device exports of one event and one principal
          Archive,      \* bound: their archives, asked for or fallen back to
          Media,        \* the photographs of the selection
          Readers,      \* requests that stream an original
          Handlers,     \* requests that ask for the archive instead
          MaxReads,     \* live read leases of a job (2 in claimRead)
          MaxAttempts,  \* bound: attempts of an archive
          NoOne

ASSUME SelectionSizes ==
    /\ MaxReads \in Nat \ {0} /\ MaxAttempts \in Nat \ {0}
    /\ NoOne \notin Readers \cup Device \cup Archive \cup Media
    /\ Device \cap Archive = {}

VARIABLES job, deliveries, reader, handler, authorized

vars == <<job, deliveries, reader, handler, authorized>>

Jobs == Device \cup Archive
Terminal == {"ready", "handed-off", "failed", "cancelled", "expired"}
Active(j) == job[j].state \in {"queued", "running"}
IdleReader == [pc |-> "idle", job |-> NoOne, media |-> NoOne]
IdleHandler == [pc |-> "idle", job |-> NoOne]
NoJob == [state |-> "none", confirmed |-> FALSE, cancelled |-> FALSE,
          code |-> "none", attempt |-> 1, time |-> "live", from |-> {}]
Pending == [state |-> "pending", lease |-> NoOne, live |-> FALSE]

Row == [state: {"none", "queued", "running"} \cup Terminal,
        confirmed: BOOLEAN, cancelled: BOOLEAN, code: {"none", "fallback", "expiring"},
        attempt: 1..MaxAttempts, time: {"live", "hold", "absolute"}, from: SUBSET Jobs]
Delivery == [state: {"pending", "prepared", "acknowledged", "failed"},
             lease: Readers \cup {NoOne}, live: BOOLEAN]
Reading == [pc: {"idle", "reading", "eof"}, job: Jobs \cup {NoOne}, media: Media \cup {NoOne}]
Asking == [pc: {"idle", "intend", "clone"}, job: Jobs \cup {NoOne}]

\* photo_export_execution_update
Executable(row) ==
    /\ row.state = "running" => row.confirmed
    /\ row.state \in {"ready", "handed-off"} => ~row.cancelled
    /\ row.state = "cancelled" => row.cancelled

TypeOK ==
    /\ job \in [Jobs -> Row]
    /\ deliveries \in [Device -> [Media -> Delivery]]
    /\ reader \in [Readers -> Reading]
    /\ handler \in [Handlers -> Asking]
    /\ authorized \in BOOLEAN
    /\ \A j \in Jobs : Executable(job[j])
    /\ \A j \in Device, m \in Media : deliveries[j][m].live => deliveries[j][m].lease # NoOne

Init ==
    /\ job = [j \in Jobs |-> NoJob]
    /\ deliveries = [j \in Device |-> [m \in Media |-> Pending]]
    /\ reader = [r \in Readers |-> IdleReader] /\ handler = [h \in Handlers |-> IdleHandler]
    /\ authorized = TRUE

LiveReads(j) == {m \in Media : j \in Device /\ deliveries[j][m].live}
NoReads(j) == LiveReads(j) = {}
ActiveDevice(j) ==
    /\ authorized /\ j \in Device /\ job[j].state = "running"
    /\ ~job[j].cancelled /\ job[j].time = "live"
NoneActive == \A j \in Jobs : ~Active(j)

\* finalize: a cancelled job ends once no original of it is being read; one that
\* waits for its archive does not end here.
Finalized(row, quiet) ==
    IF row.state \in {"queued", "running"} /\ row.cancelled /\ row.code # "fallback" /\ quiet
    THEN [row EXCEPT !.state = IF row.code = "expiring" THEN "expired" ELSE "cancelled", !.code = "none"]
    ELSE row

-----------------------------------------------------------------------------
(* Create, confirm, cancel and expire.                                     *)

Create(j) ==
    /\ job[j].state = "none" /\ authorized /\ NoneActive
    /\ job' = [job EXCEPT ![j] = [NoJob EXCEPT !.state = "queued"]]
    /\ UNCHANGED <<deliveries, reader, handler, authorized>>

Confirm(j) ==
    /\ authorized /\ job[j].state = "queued" /\ ~job[j].confirmed /\ ~job[j].cancelled
    /\ job[j].time = "live"
    /\ job' = [job EXCEPT ![j].confirmed = TRUE,
                          ![j].state = IF j \in Device THEN "running" ELSE @]
    /\ UNCHANGED <<deliveries, reader, handler, authorized>>

\* cancel, which withdraws the wish for an archive too.
Cancel(j) ==
    /\ authorized /\ Active(j)
    /\ job' = [job EXCEPT ![j] = Finalized([@ EXCEPT !.cancelled = TRUE, !.code = "none"], NoReads(j))]
    /\ UNCHANGED <<deliveries, reader, handler, authorized>>

Overdue(j) == job[j].time # "live" \/ ~authorized

\* Mutant of Expiring: an export that waits for its archive goes on waiting.
ExpiringUnlessFallback(row) ==
    [row EXCEPT !.cancelled = TRUE, !.code = IF @ = "fallback" THEN @ ELSE "expiring"]
Expiring(row) == [row EXCEPT !.cancelled = TRUE, !.code = "expiring"]

\* expireOne, from expireActive (the cron, the archive's callback) or a reading of the job.
Expire(j) ==
    /\ Active(j) /\ (Overdue(j) \/ job[j].cancelled)
    /\ job' = [job EXCEPT ![j] =
                 Finalized(IF Overdue(j) THEN Expiring(@) ELSE @,
                           NoReads(j))]
    /\ UNCHANGED <<deliveries, reader, handler, authorized>>

-----------------------------------------------------------------------------
(* Device delivery.                                                        *)

\* claimRead: no live lease on the photograph, fewer than two on the job.
Claimable(j, m) ==
    /\ deliveries[j][m].state # "acknowledged"
    /\ ~deliveries[j][m].live
    /\ Cardinality(LiveReads(j)) < MaxReads

ClaimRead(r, j, m) ==
    /\ reader[r].pc = "idle" /\ ActiveDevice(j) /\ Claimable(j, m)
    /\ deliveries' = [deliveries EXCEPT ![j][m].lease = r, ![j][m].live = TRUE]
    /\ reader' = [reader EXCEPT ![r] = [pc |-> "reading", job |-> j, media |-> m]]
    /\ UNCHANGED <<job, handler, authorized>>

\* The last chunk, after an assertion that the lease is still this request's.
EndOfFile(r) ==
    LET j == reader[r].job  d == deliveries[j][reader[r].media] IN
    /\ reader[r].pc = "reading" /\ ActiveDevice(j) /\ d.lease = r /\ d.live
    /\ reader' = [reader EXCEPT ![r].pc = "eof"]
    /\ UNCHANGED <<job, deliveries, handler, authorized>>

\* Mutant of Settled: the outcome counts whoever holds the lease by now.
SettledUnchecked(j, d, outcome) == [d EXCEPT !.lease = NoOne, !.live = FALSE, !.state = outcome]
\* releaseRead's update of the delivery.
Settled(j, d, outcome) ==
    [d EXCEPT !.lease = NoOne, !.live = FALSE,
              !.state = IF d.live /\ ActiveDevice(j) THEN outcome ELSE @]

\* releaseRead, prepared at the end of the file and failed at any other end.
ReleaseRead(r, outcome) ==
    LET j == reader[r].job  m == reader[r].media  d == deliveries[j][m]
        mine == d.lease = r /\ Active(j)
    IN
    /\ \/ reader[r].pc = "eof" /\ outcome = "prepared"
       \/ reader[r].pc = "reading" /\ outcome = "failed"
    /\ deliveries' = IF mine THEN [deliveries EXCEPT ![j][m] = Settled(j, d, outcome)] ELSE deliveries
    /\ job' = [job EXCEPT ![j] = Finalized(@, LiveReads(j) \ (IF mine THEN {m} ELSE {}) = {})]
    /\ reader' = [reader EXCEPT ![r] = IdleReader]
    /\ UNCHANGED <<handler, authorized>>

ReaderDies(r) ==
    /\ reader[r].pc # "idle" /\ reader' = [reader EXCEPT ![r] = IdleReader]
    /\ UNCHANGED <<job, deliveries, handler, authorized>>

\* Mutant of Eligible: a photograph being read again counts by its earlier read.
EligibleWhileRead(j, ms) == \A m \in ms : deliveries[j][m].state \in {"prepared", "acknowledged"}
Eligible(j, ms) ==
    \A m \in ms : deliveries[j][m].state \in {"prepared", "acknowledged"} /\ deliveries[j][m].lease = NoOne

\* recordHandoff: all the reported photographs or none; the last ones end the job.
RecordHandoff(j, ms) ==
    LET after == [m \in Media |-> IF m \in ms THEN [deliveries[j][m] EXCEPT !.state = "acknowledged"]
                                  ELSE deliveries[j][m]]
    IN
    /\ ms # {} /\ ActiveDevice(j) /\ Eligible(j, ms)
    /\ deliveries' = [deliveries EXCEPT ![j] = after]
    /\ job' = IF (\A m \in Media : after[m].state = "acknowledged") /\ NoReads(j)
              THEN [job EXCEPT ![j].state = "handed-off"] ELSE job
    /\ UNCHANGED <<reader, handler, authorized>>

-----------------------------------------------------------------------------
(* The archive: its Workflow, its retry, and the fallback from the device.  *)

ActiveArchive(j) ==
    /\ authorized /\ j \in Archive /\ job[j].confirmed
    /\ ~job[j].cancelled /\ job[j].time = "live"

ClaimRunning(j) ==
    /\ job[j].state = "queued" /\ ActiveArchive(j)
    /\ job' = [job EXCEPT ![j].state = "running"]
    /\ UNCHANGED <<deliveries, reader, handler, authorized>>

\* markReady, markOwnedFailed; markSelectionDispatchFailed of a queued one.
SettleArchive(j) ==
    /\ j \in Archive
    /\ \/ job[j].state = "running" /\ ActiveArchive(j) /\ job' = [job EXCEPT ![j].state = "ready"]
       \/ job[j].state = "running" /\ ~job[j].cancelled /\ job' = [job EXCEPT ![j].state = "failed"]
       \/ job[j].state = "queued" /\ ActiveArchive(j) /\ job' = [job EXCEPT ![j].state = "failed"]
    /\ UNCHANGED <<deliveries, reader, handler, authorized>>

\* markExpired, and the retry of the links' end.
LinksEnd(j) ==
    /\ job[j].state = "ready" /\ job' = [job EXCEPT ![j].state = "expired"]
    /\ UNCHANGED <<deliveries, reader, handler, authorized>>

Vacant == NoneActive
RetryArchive(j) ==
    /\ authorized /\ Vacant
    /\ j \in Archive /\ job[j].state \in {"failed", "expired"}
    /\ job[j].time # "absolute" /\ job[j].attempt < MaxAttempts
    /\ job' = [job EXCEPT ![j] = [@ EXCEPT !.state = "queued", !.attempt = job[j].attempt + 1, !.confirmed = FALSE,
                                           !.cancelled = FALSE, !.code = "none", !.time = "live"]]
    /\ UNCHANGED <<deliveries, reader, handler, authorized>>

\* prepareArchiveFallback reads the device export ...
AskArchive(h, j) ==
    /\ handler[h].pc = "idle" /\ authorized
    /\ j \in Device /\ Active(j) /\ job[j].time = "live"
    /\ handler' = [handler EXCEPT ![h] = [pc |-> "intend", job |-> j]]
    /\ UNCHANGED <<job, deliveries, reader, authorized>>

\* Mutant of Intendable: the states are those of the request's first reading.
IntendableAsRead(j) == authorized /\ (~job[j].cancelled \/ job[j].code = "fallback")
Intendable(j) ==
    /\ authorized /\ Active(j) /\ job[j].time = "live"
    /\ ~job[j].cancelled \/ job[j].code = "fallback"

\* ... persists its intent, which keeps the hold while originals are being read ...
IntendArchive(h) ==
    LET j == handler[h].job IN
    /\ handler[h].pc = "intend"
    /\ job' = IF Intendable(j)
              THEN [job EXCEPT ![j].cancelled = TRUE, ![j].code = "fallback"] ELSE job
    /\ handler' = [handler EXCEPT ![h].pc = "clone"]
    /\ UNCHANGED <<deliveries, reader, authorized>>

CanClone(j) ==
    /\ authorized /\ Active(j) /\ job[j].code = "fallback" /\ job[j].time = "live"
    /\ NoReads(j)

\* ... then ends it and queues its archive, in one batch, once nobody reads.
CloneArchive(h) ==
    LET j == handler[h].job IN
    /\ handler[h].pc = "clone"
    /\ IF CanClone(j)
       THEN \E new \in Archive :
              /\ job[new].state = "none"
              /\ job' = [job EXCEPT ![j].state = "cancelled", ![j].cancelled = TRUE,
                                    ![new] = [NoJob EXCEPT !.state = "queued", !.from = {j}]]
       ELSE UNCHANGED job                          \* busy: the host asks again
    /\ handler' = [handler EXCEPT ![h] = IdleHandler]
    /\ UNCHANGED <<deliveries, reader, authorized>>

HandlerDies(h) ==
    /\ handler[h].pc # "idle" /\ handler' = [handler EXCEPT ![h] = IdleHandler]
    /\ UNCHANGED <<job, deliveries, reader, authorized>>

-----------------------------------------------------------------------------
(* Time and authority.                                                     *)

\* A lease never outlives the hold it was granted under, nor the deadline.
Lapsed(j) ==
    IF j \notin Device THEN deliveries ELSE [deliveries EXCEPT ![j] = [m \in Media |-> [@[m] EXCEPT !.live = FALSE]]]

HoldPasses(j) ==
    /\ Active(j) /\ job[j].time = "live"
    /\ job' = [job EXCEPT ![j].time = "hold"] /\ deliveries' = Lapsed(j)
    /\ UNCHANGED <<reader, handler, authorized>>

AbsolutePasses(j) ==
    /\ job[j].state # "none" /\ job[j].time # "absolute"
    /\ job' = [job EXCEPT ![j].time = "absolute"] /\ deliveries' = Lapsed(j)
    /\ UNCHANGED <<reader, handler, authorized>>

LeaseLapses(j, m) ==
    /\ deliveries[j][m].live /\ deliveries' = [deliveries EXCEPT ![j][m].live = FALSE]
    /\ UNCHANGED <<job, reader, handler, authorized>>

\* The event is deleted or its management ends, the host's session is revoked.
AuthorityEnds ==
    /\ authorized /\ authorized' = FALSE
    /\ UNCHANGED <<job, deliveries, reader, handler>>

-----------------------------------------------------------------------------
DeviceStep ==
    \/ \E r \in Readers :
        \/ \E j \in Device, m \in Media : ClaimRead(r, j, m)
        \/ EndOfFile(r) \/ ReaderDies(r)
        \/ \E outcome \in {"prepared", "failed"} : ReleaseRead(r, outcome)
    \/ \E j \in Device, ms \in SUBSET Media : RecordHandoff(j, ms)
ArchiveStep ==
    \/ \E j \in Archive : ClaimRunning(j) \/ SettleArchive(j) \/ LinksEnd(j) \/ RetryArchive(j)
    \/ \E h \in Handlers :
        \/ \E j \in Device : AskArchive(h, j)
        \/ IntendArchive(h) \/ CloneArchive(h) \/ HandlerDies(h)
TimePasses ==
    \/ \E j \in Jobs : HoldPasses(j) \/ AbsolutePasses(j)
    \/ \E j \in Device, m \in Media : LeaseLapses(j, m)
    \/ AuthorityEnds

Next ==
    \/ \E j \in Jobs : Confirm(j) \/ Cancel(j) \/ Expire(j) \/ Create(j)
    \/ DeviceStep \/ ArchiveStep \/ TimePasses

Spec == Init /\ [][Next]_vars

-----------------------------------------------------------------------------
(* Properties.                                                             *)

\* While an original is read under a live lease its export is active, so that the
\* source hold keeps the photograph: cancelling, expiring and falling back wait.
HeldWhileRead == \A j \in Jobs : LiveReads(j) # {} => Active(j)

\* However many requests ask at once, a job never has more live reads than its bound.
ReadsBounded == \A j \in Device : Cardinality(LiveReads(j)) <= MaxReads

\* An event has one active export, whichever way it came to be.
OneActive == Cardinality({j \in Jobs : Active(j)}) <= 1

\* A selection is handed to the device or archived instead, never both, and the
\* archive that takes over starts only when the device export has ended.
DeviceOrArchive ==
    \A j \in Jobs :
        /\ job[j].state = "handed-off" =>
              /\ \A m \in Media : deliveries[j][m].state = "acknowledged" /\ deliveries[j][m].lease = NoOne
              /\ \A k \in Jobs : j \notin job[k].from
        /\ \A k \in job[j].from : job[k].state = "cancelled"

\* A selection is read, handed over or archived under one hold: reads keep their
\* export active, within their bound; an event has one active export; and nobody is
\* handed what an archive takes over.
SelectionsKept == HeldWhileRead /\ ReadsBounded /\ OneActive /\ DeviceOrArchive

\* A photograph is prepared, and may be acknowledged, only by the request that
\* read it to its end under its own lease.
PreparedUnderLease ==
    [][\A j \in Device, m \in Media :
          deliveries[j][m].state # "prepared" /\ deliveries'[j][m].state = "prepared" =>
             /\ deliveries[j][m].live /\ Active(j) /\ ~job[j].cancelled
             /\ reader[deliveries[j][m].lease].pc = "eof"]_vars

\* An export that is past its time, or whose event is gone, ends without anybody: it
\* waits neither for its host nor for the archive it asked for or a request that died.
EndsUnattended == \A j \in Jobs : Active(j) /\ Overdue(j) ~> ~Active(j)
=============================================================================
