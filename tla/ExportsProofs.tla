---------------------------- MODULE ExportsProofs ----------------------------
(***************************************************************************)
(* The exports of a selection are well typed and keep SelectionsKept, for  *)
(* any number of exports, photographs, readers and handlers, and a         *)
(* photograph is prepared only under its reader's lease.  The archives of  *)
(* a complete collection keep ArchivesSound, for any number of attempts    *)
(* and parts.                                                              *)
(*                                                                         *)
(* SelectionsKept is not inductive: an export handed over has every        *)
(* photograph acknowledged, and it stays without a lease only because no   *)
(* acknowledged photograph has one, which in turn holds because a request  *)
(* settles nothing but a lease it holds; and one export is active only if  *)
(* no two are, which is said without counting.                             *)
(***************************************************************************)
EXTENDS MCExports, FiniteSetTheorems, TLAPS

\* A request under way knows what it reads, or which export its archive replaces,
\* and only a device export is handed over.
Occupied ==
    /\ \A r \in Readers : reader[r].pc # "idle" => reader[r].job \in Device /\ reader[r].media \in Media
    /\ \A h \in Handlers : handler[h].pc # "idle" => handler[h].job \in Device

AcknowledgedFree ==
    \A j \in Device, m \in Media :
        deliveries[j][m].state = "acknowledged" => deliveries[j][m].lease = NoOne

FewReads == \A j \in Device : IsFiniteSet(LiveReads(j)) /\ Cardinality(LiveReads(j)) <= MaxReads
AtMostOneActive == \A j, k \in Jobs : Active(j) /\ Active(k) => j = k

HandedByDevice == \A j \in Jobs : job[j].state = "handed-off" => j \in Device

IInv ==
    /\ TypeOK /\ Occupied /\ HandedByDevice /\ AcknowledgedFree
    /\ HeldWhileRead /\ FewReads /\ AtMostOneActive /\ DeviceOrArchive

USE DEF Jobs

LEMMA InitIInv == Init => IInv
<1> SUFFICES ASSUME Init PROVE IInv
  OBVIOUS
<1> USE DEF Init, NoJob, Pending, IdleReader, IdleHandler
<1>1. TypeOK
  BY SelectionSizes DEF TypeOK, Row, Delivery, Reading, Asking, Executable
<1>2. Occupied /\ HandedByDevice /\ AcknowledgedFree
  BY DEF Occupied, AcknowledgedFree, HandedByDevice
<1>3. \A j \in Jobs : LiveReads(j) = {} /\ ~Active(j)
  BY DEF LiveReads, Active
<1>4. HeldWhileRead /\ AtMostOneActive
  BY <1>3 DEF HeldWhileRead, AtMostOneActive
<1>5. FewReads
  <2> SUFFICES ASSUME NEW j \in Device
               PROVE  IsFiniteSet(LiveReads(j)) /\ Cardinality(LiveReads(j)) <= MaxReads
    BY DEF FewReads
  <2>1. LiveReads(j) = {}
    BY <1>3
  <2>2. IsFiniteSet(LiveReads(j)) /\ Cardinality(LiveReads(j)) = 0
    BY <2>1, FS_EmptySet, Zenon
  <2> QED
    BY <2>2, SelectionSizes
<1>6. DeviceOrArchive
  BY DEF DeviceOrArchive
<1> QED
  BY <1>1, <1>2, <1>4, <1>5, <1>6 DEF IInv

-----------------------------------------------------------------------------
(* Steps that change one export and at most end leases.                    *)

LEMMA CalmStep ==
    ASSUME IInv,
           job' \in [Jobs -> Row], \A k \in Jobs : Executable(job'[k]),
           deliveries' \in [Device -> [Media -> Delivery]],
           \A d \in Device, m \in Media :
               /\ deliveries'[d][m].state = deliveries[d][m].state
               /\ deliveries'[d][m].lease = deliveries[d][m].lease
               /\ deliveries'[d][m].live => deliveries[d][m].live,
           reader' \in [Readers -> Reading], handler' \in [Handlers -> Asking],
           authorized' \in BOOLEAN, Occupied',
           \A k \in Jobs :
               /\ job'[k].from \subseteq job[k].from
               /\ job[k].state = "cancelled" => job'[k].state = "cancelled"
               /\ job'[k].state = "handed-off" => job[k].state = "handed-off",
           HeldWhileRead', AtMostOneActive'
    PROVE  IInv'
<1>1. TypeOK'
  <2>1. \A d \in Device, m \in Media : deliveries'[d][m].live => deliveries'[d][m].lease # NoOne
    BY SMTT(60) DEF IInv, TypeOK
  <2> QED
    BY <2>1 DEF TypeOK
<1>2. HandedByDevice' /\ AcknowledgedFree'
  BY DEF IInv, HandedByDevice, AcknowledgedFree
<1>3. FewReads'
  <2> SUFFICES ASSUME NEW d \in Device
               PROVE  IsFiniteSet(LiveReads(d)') /\ Cardinality(LiveReads(d)') <= MaxReads
    BY DEF FewReads
  <2>1. IsFiniteSet(LiveReads(d)) /\ Cardinality(LiveReads(d)) <= MaxReads
    BY DEF IInv, FewReads
  <2>2. LiveReads(d)' \in SUBSET LiveReads(d)
    BY DEF LiveReads
  <2>3. IsFiniteSet(LiveReads(d)') /\ Cardinality(LiveReads(d)') <= Cardinality(LiveReads(d))
    BY <2>1, <2>2, FS_Subset
  <2>4. Cardinality(LiveReads(d)) \in Nat /\ Cardinality(LiveReads(d)') \in Nat
    BY <2>1, <2>3, FS_CardinalityType
  <2> QED
    BY <2>1, <2>3, <2>4, SelectionSizes
<1>4. DeviceOrArchive'
  <2>1. \A k \in Jobs : job[k].from \subseteq Jobs
    BY DEF IInv, TypeOK, Row
  <2>2. \A k \in Jobs : job'[k].state = "handed-off" =>
            \A m \in Media : deliveries[k][m].state = "acknowledged" /\ deliveries[k][m].lease = NoOne
    BY DEF IInv, DeviceOrArchive
  <2>3. \A k, l \in Jobs : job'[k].state = "handed-off" => k \notin job'[l].from
    BY DEF IInv, DeviceOrArchive
  <2>4. \A k \in Jobs : \A l \in job'[k].from : job'[l].state = "cancelled"
    BY <2>1 DEF IInv, DeviceOrArchive
  <2>5. \A k \in Jobs : job'[k].state = "handed-off" =>
            \A m \in Media : deliveries'[k][m].state = "acknowledged" /\ deliveries'[k][m].lease = NoOne
    BY <2>2 DEF IInv, HandedByDevice
  <2> QED
    BY <2>3, <2>4, <2>5 DEF DeviceOrArchive
<1> QED
  BY <1>1, <1>2, <1>3, <1>4 DEF IInv

LEMMA RowStep ==
    ASSUME IInv, NEW j \in Jobs, NEW row \in Row, Executable(row),
           job' = [job EXCEPT ![j] = row],
           deliveries' \in [Device -> [Media -> Delivery]],
           \A d \in Device, m \in Media :
               /\ deliveries'[d][m].state = deliveries[d][m].state
               /\ deliveries'[d][m].lease = deliveries[d][m].lease
               /\ deliveries'[d][m].live => deliveries[d][m].live,
           reader' \in [Readers -> Reading], handler' \in [Handlers -> Asking],
           authorized' \in BOOLEAN, Occupied',
           row.from \subseteq job[j].from,
           LiveReads(j)' # {} => row.state \in {"queued", "running"},
           job[j].state = "cancelled" => row.state = "cancelled",
           row.state = "handed-off" => job[j].state = "handed-off",
           row.state \in {"queued", "running"} => Active(j) \/ NoneActive
    PROVE  IInv'
<1>1. \A k \in Jobs : job'[k] = IF k = j THEN row ELSE job[k]
  BY DEF IInv, TypeOK
<1>2. job' \in [Jobs -> Row] /\ \A k \in Jobs : Executable(job'[k])
  BY <1>1 DEF IInv, TypeOK
<1>3. \A k \in Jobs :
          /\ job'[k].from \subseteq job[k].from
          /\ job[k].state = "cancelled" => job'[k].state = "cancelled"
          /\ job'[k].state = "handed-off" => job[k].state = "handed-off"
  BY <1>1
<1>4. HeldWhileRead'
  <2>1. \A k \in Jobs : LiveReads(k)' \subseteq LiveReads(k)
    BY DEF LiveReads
  <2> QED
    BY <1>1, <2>1 DEF IInv, HeldWhileRead, Active
<1>5. AtMostOneActive'
  BY <1>1 DEF IInv, AtMostOneActive, Active, NoneActive
<1> QED
  BY <1>2, <1>3, <1>4, <1>5, CalmStep

\* No export changes, and at most leases end.
LEMMA QuietStep ==
    ASSUME IInv, UNCHANGED job,
           deliveries' \in [Device -> [Media -> Delivery]],
           \A d \in Device, m \in Media :
               /\ deliveries'[d][m].state = deliveries[d][m].state
               /\ deliveries'[d][m].lease = deliveries[d][m].lease
               /\ deliveries'[d][m].live => deliveries[d][m].live,
           reader' \in [Readers -> Reading], handler' \in [Handlers -> Asking],
           authorized' \in BOOLEAN, Occupied'
    PROVE  IInv'
<1>1. job' \in [Jobs -> Row] /\ \A k \in Jobs : Executable(job'[k])
  BY DEF IInv, TypeOK
<1>2. HeldWhileRead'
  <2>1. \A k \in Jobs : LiveReads(k)' \subseteq LiveReads(k)
    BY DEF LiveReads
  <2> QED
    BY <2>1 DEF IInv, HeldWhileRead, Active
<1>3. AtMostOneActive'
  BY DEF IInv, AtMostOneActive, Active
<1> QED
  BY <1>1, <1>2, <1>3, CalmStep

\* The row an action gives an export that was or becomes queued or running.
LEMMA Rows ==
    ASSUME NEW row \in Row, Executable(row), NEW quiet \in BOOLEAN
    PROVE  /\ Finalized(row, quiet) \in Row /\ Executable(Finalized(row, quiet))
           /\ Finalized(row, quiet).from = row.from
           /\ ~quiet => Finalized(row, quiet).state = row.state
           /\ Finalized(row, quiet).state \in {row.state, "cancelled", "expired"}
           /\ row.state \notin {"queued", "running"} => Finalized(row, quiet) = row
BY DEF Finalized, Row, Executable, Terminal

LEMMA CreateStep == ASSUME IInv, NEW j \in Jobs, Create(j) PROVE IInv'
<1> DEFINE row == [NoJob EXCEPT !.state = "queued"]
<1>1. NoJob \in Row /\ NoJob.from = {}
  BY SelectionSizes DEF NoJob, Row
<1>2. row \in Row /\ row.from = {} /\ row.state = "queued"
  BY <1>1 DEF Row
<1>3. job' = [job EXCEPT ![j] = row]
  BY DEF Create
<1> HIDE DEF row
<1>4. Executable(row)
  BY <1>2 DEF Executable
<1> QED
  BY <1>2, <1>3, <1>4, RowStep DEF Create, IInv, TypeOK, Occupied

LEMMA ConfirmStep == ASSUME IInv, NEW j \in Jobs, Confirm(j) PROVE IInv'
<1> DEFINE row == [job[j] EXCEPT !.confirmed = TRUE, !.state = IF j \in Device THEN "running" ELSE @]
<1>1. row \in Row /\ Executable(row) /\ row.from = job[j].from /\ row.state \in {"queued", "running"}
  BY ZenonT(60) DEF Confirm, IInv, TypeOK, Row, Executable
<1>2. job' = [job EXCEPT ![j] = row]
  BY DEF Confirm, IInv, TypeOK
<1>3. Active(j) /\ job[j].state = "queued"
  BY DEF Confirm, Active
<1> HIDE DEF row
<1> QED
  BY <1>1, <1>2, <1>3, RowStep DEF Confirm, IInv, TypeOK, Occupied

LEMMA CancelStep == ASSUME IInv, NEW j \in Jobs, Cancel(j) PROVE IInv'
<1> DEFINE wish == [job[j] EXCEPT !.cancelled = TRUE, !.code = "none"]
           row == Finalized(wish, NoReads(j))
<1>1. Active(j) /\ job[j] \in Row /\ Executable(job[j])
  BY DEF Cancel, IInv, TypeOK
<1>2. wish \in Row /\ Executable(wish) /\ wish.from = job[j].from /\ wish.state = job[j].state
  BY <1>1 DEF Row, Executable, Active
<1>3. job' = [job EXCEPT ![j] = row]
  BY DEF Cancel, IInv, TypeOK
<1> HIDE DEF wish
<1>4. /\ row \in Row /\ Executable(row) /\ row.from = job[j].from
      /\ ~NoReads(j) => row.state = job[j].state
      /\ row.state \in {job[j].state, "cancelled", "expired"}
  BY <1>2, Rows DEF NoReads
<1> HIDE DEF row
<1>5. LiveReads(j)' = LiveReads(j)
  BY DEF Cancel, LiveReads
<1> QED
  BY SMTT(60), <1>1, <1>3, <1>4, <1>5, RowStep DEF Cancel, IInv, TypeOK, Occupied, Active, NoReads

LEMMA ExpireStep == ASSUME IInv, NEW j \in Jobs, Expire(j) PROVE IInv'
<1> DEFINE late == IF Overdue(j) THEN Expiring(job[j]) ELSE job[j]
           row == Finalized(late, NoReads(j))
<1>1. Active(j) /\ job[j] \in Row /\ Executable(job[j])
  BY DEF Expire, IInv, TypeOK
<1>2. late \in Row /\ Executable(late) /\ late.from = job[j].from /\ late.state = job[j].state
  BY <1>1 DEF Row, Executable, Active, Expiring
<1>3. job' = [job EXCEPT ![j] = row]
  BY DEF Expire, IInv, TypeOK
<1> HIDE DEF late
<1>4. /\ row \in Row /\ Executable(row) /\ row.from = job[j].from
      /\ ~NoReads(j) => row.state = job[j].state
      /\ row.state \in {job[j].state, "cancelled", "expired"}
  BY <1>2, Rows DEF NoReads
<1> HIDE DEF row
<1>5. LiveReads(j)' = LiveReads(j)
  BY DEF Expire, LiveReads
<1> QED
  <2>1. UNCHANGED <<deliveries, reader, handler, authorized>> /\ Occupied'
    BY DEF Expire, IInv, Occupied
  <2>2. LiveReads(j)' # {} => row.state \in {"queued", "running"}
    BY <1>1, <1>4, <1>5 DEF Active, NoReads
  <2>3. row.state \notin {"handed-off"} /\ job[j].state # "cancelled"
    BY <1>1, <1>4 DEF Active
  <2> QED
    BY <1>1, <1>3, <1>4, <2>1, <2>2, <2>3, RowStep DEF IInv, TypeOK

LEMMA ArchiveSteps ==
    ASSUME IInv, NEW j \in Archive,
           ClaimRunning(j) \/ SettleArchive(j) \/ LinksEnd(j) \/ RetryArchive(j)
    PROVE  IInv'
<1>0. j \in Jobs /\ job[j] \in Row /\ Executable(job[j]) /\ LiveReads(j)' = {} /\ LiveReads(j) = {}
  BY SelectionSizes DEF IInv, TypeOK, LiveReads
<1>1. CASE ClaimRunning(j)
  <2> DEFINE row == [job[j] EXCEPT !.state = "running"]
  <2>1. row \in Row /\ Executable(row) /\ row.from = job[j].from /\ row.state = "running"
    BY <1>0, <1>1 DEF ClaimRunning, ActiveArchive, Row, Executable
  <2>2. job' = [job EXCEPT ![j] = row]
    BY <1>0, <1>1 DEF ClaimRunning, IInv, TypeOK
  <2> HIDE DEF row
  <2> QED
    BY <1>0, <1>1, <2>1, <2>2, RowStep DEF ClaimRunning, IInv, TypeOK, Occupied, Active
<1>2. CASE SettleArchive(j)
  <2>1. PICK s \in {"ready", "failed"} :
           /\ job' = [job EXCEPT ![j].state = s]
           /\ s = "ready" => ~job[j].cancelled
           /\ job[j].state \in {"queued", "running"}
    BY <1>2 DEF SettleArchive, ActiveArchive
  <2> DEFINE row == [job[j] EXCEPT !.state = s]
  <2>2. row \in Row /\ Executable(row) /\ row.from = job[j].from /\ row.state = s
    BY <1>0, <2>1 DEF Row, Executable, Terminal
  <2>3. job' = [job EXCEPT ![j] = row]
    BY <1>0, <2>1 DEF IInv, TypeOK
  <2> HIDE DEF row
  <2> QED
    BY ZenonT(60), <1>0, <1>2, <2>1, <2>2, <2>3, RowStep DEF SettleArchive, IInv, TypeOK, Occupied
<1>3. CASE LinksEnd(j)
  <2> DEFINE row == [job[j] EXCEPT !.state = "expired"]
  <2>1. row \in Row /\ Executable(row) /\ row.from = job[j].from /\ row.state = "expired"
    BY <1>0, <1>3 DEF LinksEnd, Row, Executable, Terminal
  <2>2. job' = [job EXCEPT ![j] = row]
    BY <1>0, <1>3 DEF LinksEnd, IInv, TypeOK
  <2> HIDE DEF row
  <2> QED
    BY <1>0, <1>3, <2>1, <2>2, RowStep DEF LinksEnd, IInv, TypeOK, Occupied
<1>4. CASE RetryArchive(j)
  <2> DEFINE row == [job[j] EXCEPT !.state = "queued", !.attempt = job[j].attempt + 1, !.confirmed = FALSE,
                                   !.cancelled = FALSE, !.code = "none", !.time = "live"]
  <2>1. job[j].attempt + 1 \in 1..MaxAttempts
    BY <1>0, <1>4, SelectionSizes DEF RetryArchive, Row
  <2>2. row \in Row /\ row.from = job[j].from /\ row.state = "queued"
    BY <1>0, <2>1 DEF Row
  <2>3. job' = [job EXCEPT ![j] = row]
    BY <1>4 DEF RetryArchive
  <2> HIDE DEF row
  <2>4. Executable(row)
    BY <2>2 DEF Executable
  <2> QED
    BY <1>0, <1>4, <2>2, <2>3, <2>4, RowStep DEF RetryArchive, Vacant, IInv, TypeOK, Occupied
<1> QED
  BY <1>1, <1>2, <1>3, <1>4

\* A lease that ends, and nothing else of a delivery.
LEMMA Lapses ==
    ASSUME NEW d \in Delivery
    PROVE  LET e == [d EXCEPT !.live = FALSE]
           IN  e \in Delivery /\ e.state = d.state /\ e.lease = d.lease /\ ~e.live
BY DEF Delivery

LEMMA TimeSteps ==
    ASSUME IInv, NEW j \in Jobs, HoldPasses(j) \/ AbsolutePasses(j)
    PROVE  IInv'
<1>1. PICK t \in {"hold", "absolute"} :
         job' = [job EXCEPT ![j].time = t] /\ (t = "hold" => Active(j))
  BY DEF HoldPasses, AbsolutePasses
<1> DEFINE row == [job[j] EXCEPT !.time = t]
<1>2. row \in Row /\ Executable(row) /\ row.from = job[j].from /\ row.state = job[j].state
  BY DEF IInv, TypeOK, Row, Executable
<1>3. job' = [job EXCEPT ![j] = row]
  BY <1>1 DEF IInv, TypeOK
<1>4. /\ deliveries' \in [Device -> [Media -> Delivery]]
      /\ \A d \in Device, m \in Media :
             /\ deliveries'[d][m].state = deliveries[d][m].state
             /\ deliveries'[d][m].lease = deliveries[d][m].lease
             /\ deliveries'[d][m].live => deliveries[d][m].live
             /\ d = j => ~deliveries'[d][m].live
  <2>1. deliveries' = Lapsed(j) /\ deliveries \in [Device -> [Media -> Delivery]]
    BY DEF HoldPasses, AbsolutePasses, IInv, TypeOK
  <2>2. CASE j \notin Device
    BY <2>1, <2>2 DEF Lapsed
  <2>3. CASE j \in Device
    <3>1. \A d \in Device : deliveries'[d] =
              IF d = j THEN [m \in Media |-> [deliveries[j][m] EXCEPT !.live = FALSE]] ELSE deliveries[d]
      BY <2>1, <2>3 DEF Lapsed
    <3>2. \A m \in Media : deliveries[j][m] \in Delivery
      BY <2>1, <2>3
    <3>3. \A m \in Media : [deliveries[j][m] EXCEPT !.live = FALSE] \in Delivery
      BY <3>2, Lapses
    <3>4. deliveries' \in [Device -> [Media -> Delivery]]
      BY <2>1, <2>3, <3>3 DEF Lapsed
    <3>5. ASSUME NEW d \in Device, NEW m \in Media
          PROVE  /\ deliveries'[d][m].state = deliveries[d][m].state
                 /\ deliveries'[d][m].lease = deliveries[d][m].lease
                 /\ deliveries'[d][m].live => deliveries[d][m].live
                 /\ d = j => ~deliveries'[d][m].live
      <4>1. CASE d # j
        BY <4>1, <3>1
      <4>2. CASE d = j
        <5>1. deliveries'[d][m] = [deliveries[j][m] EXCEPT !.live = FALSE]
          BY <4>2, <3>1
        <5> QED
          BY <5>1, <4>2, <3>2, Lapses
      <4> QED
        BY <4>1, <4>2
    <3> QED
      BY <3>4, <3>5
  <2> QED
    BY <2>2, <2>3
<1>5. LiveReads(j)' = {}
  BY <1>4 DEF LiveReads
<1> HIDE DEF row
<1>6. row.state \in {"queued", "running"} => Active(j)
  BY <1>2 DEF Active
<1> QED
  <2>1. UNCHANGED <<reader, handler, authorized>> /\ Occupied'
    BY DEF HoldPasses, AbsolutePasses, IInv, Occupied
  <2>2. \A d \in Device, m \in Media :
            /\ deliveries'[d][m].state = deliveries[d][m].state
            /\ deliveries'[d][m].lease = deliveries[d][m].lease
            /\ deliveries'[d][m].live => deliveries[d][m].live
    BY <1>4
  <2>3. /\ deliveries' \in [Device -> [Media -> Delivery]] /\ reader' \in [Readers -> Reading]
        /\ handler' \in [Handlers -> Asking] /\ authorized' \in BOOLEAN
    BY <1>4, <2>1 DEF IInv, TypeOK
  <2>4. /\ LiveReads(j)' # {} => row.state \in {"queued", "running"}
        /\ job[j].state = "cancelled" => row.state = "cancelled"
        /\ row.state = "handed-off" => job[j].state = "handed-off"
        /\ row.state \in {"queued", "running"} => Active(j) \/ NoneActive
        /\ row.from \subseteq job[j].from
    BY <1>2, <1>5, <1>6
  <2> QED
    BY <1>2, <1>3, <2>1, <2>2, <2>3, <2>4, RowStep

LEMMA IntendStep == ASSUME IInv, NEW h \in Handlers, IntendArchive(h) PROVE IInv'
<1>0. PICK j \in Device : j = handler[h].job
  BY DEF IntendArchive, IInv, Occupied
<1> DEFINE row == IF Intendable(j) THEN [job[j] EXCEPT !.cancelled = TRUE, !.code = "fallback"] ELSE job[j]
<1>1. j \in Jobs /\ job[j] \in Row /\ Executable(job[j])
  BY DEF IInv, TypeOK
<1>2. row \in Row /\ Executable(row) /\ row.from = job[j].from /\ row.state = job[j].state
  BY <1>1 DEF Intendable, Active, Row, Executable
<1>3. job' = [job EXCEPT ![j] = row]
  BY <1>0, <1>1 DEF IntendArchive, IInv, TypeOK
<1>4. /\ handler' \in [Handlers -> Asking] /\ Occupied' /\ UNCHANGED <<deliveries, reader, authorized>>
  BY <1>1 DEF IntendArchive, IInv, Occupied, TypeOK, Asking
<1>5. LiveReads(j)' = LiveReads(j)
  BY <1>4 DEF LiveReads
<1> HIDE DEF row
<1>6. LiveReads(j)' # {} => row.state \in {"queued", "running"}
  BY <1>1, <1>2, <1>5 DEF IInv, HeldWhileRead, Active
<1>7. row.state \in {"queued", "running"} => Active(j)
  BY <1>2 DEF Active
<1> QED
  BY <1>1, <1>2, <1>3, <1>4, <1>6, <1>7, RowStep DEF IInv, TypeOK

LEMMA QuietSteps ==
    ASSUME IInv,
           \/ \E r \in Readers : EndOfFile(r) \/ ReaderDies(r)
           \/ \E h \in Handlers : (\E j \in Device : AskArchive(h, j)) \/ HandlerDies(h)
           \/ \E j \in Device, m \in Media : LeaseLapses(j, m)
           \/ AuthorityEnds
           \/ UNCHANGED vars
    PROVE  IInv'
<1> USE DEF IInv, TypeOK, Occupied
<1>1. ASSUME NEW r \in Readers, EndOfFile(r) PROVE IInv'
  BY <1>1, QuietStep DEF EndOfFile, Reading
<1>2. ASSUME NEW r \in Readers, ReaderDies(r) PROVE IInv'
  <2>1. IdleReader \in Reading
    BY DEF IdleReader, Reading
  <2> QED
    BY <1>2, <2>1, QuietStep DEF ReaderDies, IdleReader
<1>3. ASSUME NEW h \in Handlers, NEW j \in Device, AskArchive(h, j) PROVE IInv'
  BY <1>3, QuietStep DEF AskArchive, Asking
<1>4. ASSUME NEW h \in Handlers, HandlerDies(h) PROVE IInv'
  <2>1. IdleHandler \in Asking
    BY DEF IdleHandler, Asking
  <2> QED
    BY <1>4, <2>1, QuietStep DEF HandlerDies, IdleHandler
<1>5. ASSUME NEW j \in Device, NEW m \in Media, LeaseLapses(j, m) PROVE IInv'
  <2>1. deliveries' = [deliveries EXCEPT ![j][m].live = FALSE] /\ UNCHANGED <<job, reader, handler, authorized>>
    BY <1>5 DEF LeaseLapses
  <2>2. deliveries[j][m] \in Delivery
    OBVIOUS
  <2>3. deliveries' \in [Device -> [Media -> Delivery]]
    BY <2>1, <2>2, Lapses
  <2>4. \A d \in Device, n \in Media :
            deliveries'[d][n] = IF d = j /\ n = m THEN [deliveries[j][m] EXCEPT !.live = FALSE] ELSE deliveries[d][n]
    BY <2>1
  <2>5. \A d \in Device, n \in Media :
            /\ deliveries'[d][n].state = deliveries[d][n].state
            /\ deliveries'[d][n].lease = deliveries[d][n].lease
            /\ deliveries'[d][n].live => deliveries[d][n].live
    BY ZenonT(60), <2>2, <2>4, Lapses
  <2> QED
    BY <2>1, <2>3, <2>5, QuietStep
<1>6. ASSUME AuthorityEnds PROVE IInv'
  BY <1>6, QuietStep DEF AuthorityEnds
<1>7. ASSUME UNCHANGED vars PROVE IInv'
  BY <1>7, QuietStep DEF vars
<1> QED
  BY <1>1, <1>2, <1>3, <1>4, <1>5, <1>6, <1>7

-----------------------------------------------------------------------------
(* Steps that give, settle or count leases.                                *)

LEMMA ClaimStep ==
    ASSUME IInv, NEW r \in Readers, NEW j \in Device, NEW m \in Media, ClaimRead(r, j, m)
    PROVE  IInv'
<1> DEFINE d == [deliveries[j][m] EXCEPT !.lease = r, !.live = TRUE]
<1>0. deliveries[j][m] \in Delivery
  BY DEF IInv, TypeOK
<1>1. /\ d \in Delivery
      /\ d.state = deliveries[j][m].state /\ d.lease = r /\ d.live
  BY <1>0 DEF Delivery
<1>2. /\ deliveries' = [deliveries EXCEPT ![j][m] = d]
      /\ UNCHANGED <<job, handler, authorized>>
      /\ job[j].state = "running" /\ deliveries[j][m].state # "acknowledged"
      /\ ~deliveries[j][m].live /\ Cardinality(LiveReads(j)) < MaxReads
  BY DEF ClaimRead, ActiveDevice, Claimable, IInv, TypeOK
<1> HIDE DEF d
<1>3. \A k \in Device, n \in Media :
          deliveries'[k][n] = IF k = j /\ n = m THEN d ELSE deliveries[k][n]
  BY <1>2 DEF IInv, TypeOK
<1>4. TypeOK'
  <2>1. deliveries' \in [Device -> [Media -> Delivery]]
    BY <1>1, <1>2 DEF IInv, TypeOK
  <2>2. reader' \in [Readers -> Reading]
    BY DEF ClaimRead, IInv, TypeOK, Reading
  <2>3. \A k \in Device, n \in Media : deliveries'[k][n].live => deliveries'[k][n].lease # NoOne
    BY <1>1, <1>3, SelectionSizes DEF IInv, TypeOK
  <2> QED
    BY <1>2, <2>1, <2>2, <2>3 DEF IInv, TypeOK
<1>5. Occupied'
  BY DEF ClaimRead, IInv, TypeOK, Occupied
<1>6. HandedByDevice' /\ AcknowledgedFree'
  BY <1>1, <1>2, <1>3 DEF IInv, HandedByDevice, AcknowledgedFree
<1>7. LiveReads(j)' = LiveReads(j) \cup {m} /\ \A k \in Jobs : k # j => LiveReads(k)' = LiveReads(k)
  BY <1>1, <1>3 DEF LiveReads
<1>8. HeldWhileRead'
  BY <1>2, <1>7 DEF IInv, HeldWhileRead, Active
<1>9. FewReads'
  <2>1. IsFiniteSet(LiveReads(j)) /\ m \notin LiveReads(j)
    BY <1>2 DEF IInv, FewReads, LiveReads
  <2>2. IsFiniteSet(LiveReads(j)') /\ Cardinality(LiveReads(j)') = Cardinality(LiveReads(j)) + 1
    BY <1>7, <2>1, FS_AddElement
  <2>3. Cardinality(LiveReads(j)') <= MaxReads
    BY <1>2, <2>1, <2>2, FS_CardinalityType, SelectionSizes
  <2> QED
    BY <1>7, <2>2, <2>3 DEF IInv, FewReads
<1>10. AtMostOneActive'
  BY <1>2 DEF IInv, AtMostOneActive, Active
<1>11. DeviceOrArchive'
  BY <1>2, <1>3 DEF IInv, HandedByDevice, DeviceOrArchive
<1> QED
  BY <1>4, <1>5, <1>6, <1>8, <1>9, <1>10, <1>11 DEF IInv

\* One row changes, as Finalized does, with the delivery of one photograph.
LEMMA ReleaseStep ==
    ASSUME IInv, NEW r \in Readers, NEW outcome \in {"prepared", "failed"}, ReleaseRead(r, outcome)
    PROVE  IInv'
<1>1. PICK j \in Device, m \in Media : j = reader[r].job /\ m = reader[r].media
  BY DEF ReleaseRead, IInv, Occupied
<1> DEFINE d == deliveries[j][m]
           mine == d.lease = r /\ Active(j)
           row == Finalized(job[j], LiveReads(j) \ (IF mine THEN {m} ELSE {}) = {})
<1>2. d \in Delivery /\ job[j] \in Row /\ Executable(job[j]) /\ j \in Jobs
  BY DEF IInv, TypeOK
<1>3. /\ job' = [job EXCEPT ![j] = row]
      /\ reader' = [reader EXCEPT ![r] = IdleReader]
      /\ UNCHANGED <<handler, authorized>>
      /\ deliveries' = IF mine THEN [deliveries EXCEPT ![j][m] = Settled(j, d, outcome)] ELSE deliveries
  BY <1>1 DEF ReleaseRead
<1>4. /\ row \in Row /\ Executable(row) /\ row.from = job[j].from
      /\ LiveReads(j) \ (IF mine THEN {m} ELSE {}) # {} => row.state = job[j].state
      /\ row.state \in {job[j].state, "cancelled", "expired"}
      /\ job[j].state \notin {"queued", "running"} => row = job[j]
  BY <1>2, Rows
<1>5. reader' \in [Readers -> Reading] /\ handler' \in [Handlers -> Asking] /\ authorized' \in BOOLEAN
  BY <1>3 DEF IInv, TypeOK, IdleReader, Reading
<1>6. Occupied'
  BY <1>3 DEF IInv, TypeOK, Occupied, IdleReader
<1>7. CASE ~mine
  <2>1. deliveries' = deliveries /\ LiveReads(j)' = LiveReads(j)
    BY <1>3, <1>7 DEF LiveReads
  <2>2. LiveReads(j)' # {} => row.state \in {"queued", "running"}
    BY <1>4, <1>7, <1>2, <2>1 DEF IInv, HeldWhileRead, Active
  <2>3. deliveries' \in [Device -> [Media -> Delivery]]
    BY <2>1 DEF IInv, TypeOK
  <2>4. row.state \in {"queued", "running"} => Active(j)
    BY <1>4 DEF Active
  <2> HIDE DEF d, mine, row
  <2> QED
    BY <1>2, <1>3, <1>4, <1>5, <1>6, <2>1, <2>2, <2>3, <2>4, RowStep
<1>8. CASE mine
  <2> DEFINE e == Settled(j, d, outcome)
  <2>1. /\ e \in Delivery /\ ~e.live /\ e.lease = NoOne
        /\ e.state \in {d.state, "prepared", "failed"}
    BY <1>2 DEF Settled, Delivery
  <2>2. deliveries' = [deliveries EXCEPT ![j][m] = e] /\ d.lease = r
    BY <1>3, <1>8
  <2>3. Active(j)
    BY <1>8
  <2> HIDE DEF e, d, mine
  <2>4. \A k \in Device, n \in Media :
            deliveries'[k][n] = IF k = j /\ n = m THEN e ELSE deliveries[k][n]
    BY <2>2 DEF IInv, TypeOK
  <2>5. \A k \in Jobs : job'[k] = IF k = j THEN row ELSE job[k]
    BY <1>3 DEF IInv, TypeOK
  <2>6. LiveReads(j)' = LiveReads(j) \ {m} /\ \A k \in Jobs : k # j => LiveReads(k)' = LiveReads(k)
    BY <2>1, <2>4 DEF LiveReads
  <2>7. LiveReads(j)' # {} => row.state = job[j].state
    BY <1>4, <1>8, <2>6
  <2> HIDE DEF row
  <2>8. TypeOK'
    <3>1. deliveries' \in [Device -> [Media -> Delivery]] /\ job' \in [Jobs -> Row]
      BY <1>3, <1>4, <2>1, <2>2 DEF IInv, TypeOK
    <3>2. \A k \in Device, n \in Media : deliveries'[k][n].live => deliveries'[k][n].lease # NoOne
      BY <2>1, <2>4 DEF IInv, TypeOK
    <3>3. \A k \in Jobs : Executable(job'[k])
      BY <1>4, <2>5 DEF IInv, TypeOK
    <3> QED
      BY <1>5, <3>1, <3>2, <3>3 DEF TypeOK
  <2>9. HandedByDevice'
    BY <1>4, <2>5 DEF IInv, HandedByDevice
  <2>10. AcknowledgedFree'
    BY <2>1, <2>4 DEF IInv, AcknowledgedFree
  <2>11. HeldWhileRead'
    BY <2>3, <2>5, <2>6, <2>7 DEF IInv, HeldWhileRead, Active
  <2>12. FewReads'
    <3>1. IsFiniteSet(LiveReads(j)) /\ Cardinality(LiveReads(j)) <= MaxReads
      BY DEF IInv, FewReads
    <3>2. /\ IsFiniteSet(LiveReads(j)') /\ Cardinality(LiveReads(j)') <= Cardinality(LiveReads(j))
          /\ Cardinality(LiveReads(j)) \in Nat /\ Cardinality(LiveReads(j)') \in Nat
      <4>1. LiveReads(j)' \in SUBSET LiveReads(j)
        BY <2>6
      <4>2. IsFiniteSet(LiveReads(j)') /\ Cardinality(LiveReads(j)') <= Cardinality(LiveReads(j))
        BY <3>1, <4>1, FS_Subset
      <4> QED
        BY <3>1, <4>2, FS_CardinalityType
    <3>3. Cardinality(LiveReads(j)') <= MaxReads
      BY <3>1, <3>2, SelectionSizes
    <3> QED
      BY <2>6, <3>2, <3>3 DEF IInv, FewReads
  <2>13. AtMostOneActive'
    BY <1>4, <2>3, <2>5 DEF IInv, AtMostOneActive, Active
  <2>14. DeviceOrArchive'
    <3>1. \A k \in Jobs : job'[k].from = job[k].from /\ job[k].from \subseteq Jobs
      BY <1>4, <2>5 DEF IInv, TypeOK, Row
    <3>2. \A k \in Jobs : job[k].state = "cancelled" => job'[k].state = "cancelled"
      BY <2>3, <2>5 DEF Active
    <3>3. \A k \in Jobs : job'[k].state = "handed-off" => job[k].state = "handed-off" /\ k # j /\ k \in Device
      BY <1>4, <2>3, <2>5 DEF IInv, HandedByDevice, Active
    <3>4. \A k \in Jobs : job'[k].state = "handed-off" =>
              \A n \in Media : deliveries'[k][n].state = "acknowledged" /\ deliveries'[k][n].lease = NoOne
      BY <2>4, <3>3 DEF IInv, DeviceOrArchive
    <3>5. \A k, l \in Jobs : job'[k].state = "handed-off" => k \notin job'[l].from
      BY <3>1, <3>3 DEF IInv, DeviceOrArchive
    <3>6. \A k \in Jobs : \A l \in job'[k].from : job'[l].state = "cancelled"
      BY <3>1, <3>2 DEF IInv, DeviceOrArchive
    <3> QED
      BY <3>4, <3>5, <3>6 DEF DeviceOrArchive
  <2> QED
    BY <1>6, <2>8, <2>9, <2>10, <2>11, <2>12, <2>13, <2>14 DEF IInv
<1> QED
  BY <1>7, <1>8

LEMMA HandoffStep ==
    ASSUME IInv, NEW j \in Device, NEW ms \in SUBSET Media, RecordHandoff(j, ms)
    PROVE  IInv'
<1> DEFINE after == [m \in Media |-> IF m \in ms THEN [deliveries[j][m] EXCEPT !.state = "acknowledged"]
                                     ELSE deliveries[j][m]]
           ends == (\A m \in Media : after[m].state = "acknowledged") /\ NoReads(j)
<1>1. /\ job[j].state = "running" /\ ~job[j].cancelled
      /\ deliveries' = [deliveries EXCEPT ![j] = after]
      /\ job' = IF ends THEN [job EXCEPT ![j].state = "handed-off"] ELSE job
      /\ UNCHANGED <<reader, handler, authorized>>
  BY DEF RecordHandoff, ActiveDevice
<1>2. \A m \in Media : deliveries[j][m] \in Delivery
  BY DEF IInv, TypeOK
<1>3. \A m \in ms : deliveries[j][m].lease = NoOne
  BY DEF RecordHandoff, Eligible
<1>4. \A m \in Media : /\ after[m] \in Delivery /\ after[m].lease = deliveries[j][m].lease
                       /\ after[m].live = deliveries[j][m].live
                       /\ m \in ms => after[m].state = "acknowledged"
                       /\ m \notin ms => after[m] = deliveries[j][m]
  BY <1>2 DEF Delivery
<1>5. after \in [Media -> Delivery]
  BY <1>4
<1> HIDE DEF after, ends
<1>6. \A k \in Device : deliveries'[k] = IF k = j THEN after ELSE deliveries[k]
  BY <1>1 DEF IInv, TypeOK
<1> DEFINE row == IF ends THEN [job[j] EXCEPT !.state = "handed-off"] ELSE job[j]
<1>7. /\ row \in Row /\ Executable(row) /\ row.from = job[j].from
      /\ row.state = IF ends THEN "handed-off" ELSE "running"
  BY ZenonT(60), <1>1 DEF IInv, TypeOK, Row, Executable, Terminal
<1>8. \A k \in Jobs : job'[k] = IF k = j THEN row ELSE job[k]
  BY <1>1 DEF IInv, TypeOK
<1>9. job' \in [Jobs -> Row]
  BY <1>1, <1>7 DEF IInv, TypeOK
<1> HIDE DEF row
<1>10. TypeOK'
  <2>1. deliveries' \in [Device -> [Media -> Delivery]]
    BY <1>1, <1>5 DEF IInv, TypeOK
  <2>2. \A k \in Jobs : Executable(job'[k])
    BY <1>7, <1>8 DEF IInv, TypeOK
  <2>3. \A k \in Device, m \in Media : deliveries'[k][m].live => deliveries'[k][m].lease # NoOne
    BY <1>4, <1>6 DEF IInv, TypeOK
  <2> QED
    BY <1>1, <1>9, <2>1, <2>2, <2>3 DEF IInv, TypeOK
<1>11. Occupied' /\ HandedByDevice'
  BY <1>1, <1>8 DEF IInv, Occupied, HandedByDevice
<1>12. AcknowledgedFree'
  BY <1>3, <1>4, <1>6 DEF IInv, AcknowledgedFree
<1>13. \A k \in Jobs : LiveReads(k)' = LiveReads(k)
  BY <1>4, <1>6 DEF LiveReads
<1>14. HeldWhileRead'
  <2>1. LiveReads(j) # {} => ~ends
    BY DEF ends, NoReads
  <2> QED
    BY <1>7, <1>8, <1>13, <2>1 DEF IInv, HeldWhileRead, Active
<1>15. FewReads'
  BY <1>13 DEF IInv, FewReads
<1>16. AtMostOneActive'
  BY <1>1, <1>8 DEF IInv, AtMostOneActive, Active
<1>17. DeviceOrArchive'
  <2>1. \A k \in Jobs : job'[k].from = job[k].from /\ job[k].from \subseteq Jobs
    BY <1>7, <1>8 DEF IInv, TypeOK, Row
  <2>2. \A k \in Jobs : job[k].state = "cancelled" => k # j
    BY <1>1
  <2>3. \A k \in Jobs : \A l \in job'[k].from : job'[l].state = "cancelled"
    BY <1>8, <2>1, <2>2 DEF IInv, DeviceOrArchive
  <2>4. \A k, l \in Jobs : job'[k].state = "handed-off" => k \notin job'[l].from
    BY <1>8, <2>1, <2>3
  <2>5. ASSUME NEW k \in Jobs, job'[k].state = "handed-off", NEW m \in Media
        PROVE  deliveries'[k][m].state = "acknowledged" /\ deliveries'[k][m].lease = NoOne
    <3>1. CASE k # j
      BY <1>6, <1>8, <2>5, <3>1 DEF IInv, HandedByDevice, DeviceOrArchive
    <3>2. CASE k = j
      <4>1. ends
        BY <1>7, <1>8, <2>5, <3>2
      <4>2. after[m].state = "acknowledged"
        BY <4>1 DEF ends
      <4> QED
        BY <1>6, <1>12, <3>2, <4>2 DEF AcknowledgedFree
    <3> QED
      BY <3>1, <3>2
  <2> QED
    BY <2>3, <2>4, <2>5 DEF DeviceOrArchive
<1> QED
  BY <1>10, <1>11, <1>12, <1>14, <1>15, <1>16, <1>17 DEF IInv

\* A device export ends and its archive is queued, in one batch.
LEMMA CloneStep == ASSUME IInv, NEW h \in Handlers, CloneArchive(h) PROVE IInv'
<1>1. PICK j \in Device : j = handler[h].job
  BY DEF CloneArchive, IInv, Occupied
<1>2. /\ handler' \in [Handlers -> Asking] /\ Occupied'
      /\ UNCHANGED <<deliveries, reader, authorized>>
  BY DEF CloneArchive, IInv, TypeOK, Occupied, IdleHandler, Asking
<1>3. CASE ~CanClone(j)
  <2>1. UNCHANGED job
    BY <1>1, <1>3 DEF CloneArchive
  <2> QED
    BY <1>2, <2>1, QuietStep DEF IInv, TypeOK
<1>4. CASE CanClone(j)
  <2> DEFINE old == [job[j] EXCEPT !.state = "cancelled", !.cancelled = TRUE]
             fresh == [[NoJob EXCEPT !.state = "queued"] EXCEPT !.from = {j}]
  <2>1. PICK new \in Archive :
           /\ job[new].state = "none"
           /\ job' = [job EXCEPT ![j].state = "cancelled", ![j].cancelled = TRUE,
                                 ![new] = [NoJob EXCEPT !.state = "queued", !.from = {j}]]
    BY <1>1, <1>4 DEF CloneArchive
  <2>2. j # new /\ j \in Jobs /\ new \in Jobs /\ Active(j) /\ NoReads(j)
    BY <1>4, SelectionSizes DEF CanClone
  <2>3. NoJob \in Row
    BY SelectionSizes DEF NoJob, Row
  <2>4. /\ old \in Row /\ old.state = "cancelled" /\ old.cancelled /\ old.from = job[j].from
        /\ fresh \in Row /\ fresh.state = "queued" /\ fresh.from = {j}
    BY <2>2, <2>3 DEF IInv, TypeOK, Row, Terminal
  <2>5. \A k \in Jobs : job'[k] = IF k = new THEN fresh ELSE IF k = j THEN old ELSE job[k]
    BY <2>1, <2>2 DEF IInv, TypeOK
  <2>6. job' \in [Jobs -> Row]
    <3>1. job' = [k \in Jobs |-> job'[k]]
      BY <2>1 DEF IInv, TypeOK
    <3>2. \A k \in Jobs : job'[k] \in Row
      BY <2>4, <2>5 DEF IInv, TypeOK
    <3> QED
      BY <3>1, <3>2
  <2> HIDE DEF old, fresh
  <2>7. \A k \in Jobs : Executable(job'[k])
    BY <2>4, <2>5 DEF IInv, TypeOK, Executable
  <2>8. TypeOK'
    BY <1>2, <2>6, <2>7 DEF IInv, TypeOK
  <2>9. HandedByDevice' /\ AcknowledgedFree'
    BY <1>2, <2>4, <2>5 DEF IInv, HandedByDevice, AcknowledgedFree
  <2>10. \A k \in Jobs : LiveReads(k)' = LiveReads(k)
    BY <1>2 DEF LiveReads
  <2>11. HeldWhileRead'
    BY <2>2, <2>4, <2>5, <2>10 DEF IInv, HeldWhileRead, Active, NoReads
  <2>12. FewReads'
    BY <2>10 DEF IInv, FewReads
  <2>13. AtMostOneActive'
    BY <2>2, <2>4, <2>5 DEF IInv, AtMostOneActive, Active
  <2>14. DeviceOrArchive'
    <3>1. \A k \in Jobs : job[k].from \subseteq Jobs
      BY DEF IInv, TypeOK, Row
    <3>2. \A k \in Jobs : job'[k].from = IF k = new THEN {j} ELSE job[k].from
      BY <2>4, <2>5
    <3>3. \A k \in Jobs : job[k].state = "cancelled" \/ k = j => job'[k].state = "cancelled"
      BY <2>1, <2>2, <2>4, <2>5
    <3>4. \A k \in Jobs : job'[k].state = "handed-off" => job[k].state = "handed-off" /\ k # j
      BY <2>4, <2>5
    <3>5. \A k \in Jobs : \A l \in job'[k].from : job'[l].state = "cancelled"
      BY <2>2, <3>1, <3>2, <3>3 DEF IInv, DeviceOrArchive
    <3>6. \A k, l \in Jobs : job'[k].state = "handed-off" => k \notin job'[l].from
      BY <3>2, <3>4 DEF IInv, DeviceOrArchive
    <3>7. \A k \in Jobs : job'[k].state = "handed-off" =>
              \A m \in Media : deliveries'[k][m].state = "acknowledged" /\ deliveries'[k][m].lease = NoOne
      BY <1>2, <3>4 DEF IInv, DeviceOrArchive
    <3> QED
      BY <3>5, <3>6, <3>7 DEF DeviceOrArchive
  <2> QED
    BY <1>2, <2>8, <2>9, <2>11, <2>12, <2>13, <2>14 DEF IInv
<1> QED
  BY <1>3, <1>4

-----------------------------------------------------------------------------
(* The invariant and what it implies.                                      *)

LEMMA NextIInv == IInv /\ [Next]_vars => IInv'
<1> SUFFICES ASSUME IInv, [Next]_vars
             PROVE  IInv'
  OBVIOUS
<1>1. ASSUME NEW j \in Jobs, Confirm(j) \/ Cancel(j) \/ Expire(j) \/ Create(j)
      PROVE  IInv'
  BY <1>1, ConfirmStep, CancelStep, ExpireStep, CreateStep
<1>2. ASSUME DeviceStep
      PROVE  IInv'
  BY <1>2, ClaimStep, ReleaseStep, HandoffStep, QuietSteps DEF DeviceStep
<1>3. ASSUME ArchiveStep
      PROVE  IInv'
  BY <1>3, ArchiveSteps, IntendStep, CloneStep, QuietSteps DEF ArchiveStep
<1>4. ASSUME TimePasses
      PROVE  IInv'
  BY <1>4, TimeSteps, QuietSteps DEF TimePasses
<1>5. ASSUME UNCHANGED vars
      PROVE  IInv'
  BY <1>5, QuietSteps
<1> QED
  BY <1>1, <1>2, <1>3, <1>4, <1>5 DEF Next

LEMMA IInvHolds == Spec => []IInv
<1> QED
  BY InitIInv, NextIInv, PTL DEF Spec

LEMMA IInvSuffices == IInv => TypeOK /\ SelectionsKept
<1> SUFFICES ASSUME IInv
             PROVE  TypeOK /\ SelectionsKept
  OBVIOUS
<1>1. ReadsBounded
  BY DEF IInv, FewReads, ReadsBounded
<1>2. OneActive
  <2> DEFINE active == {j \in Jobs : Active(j)}
  <2>1. CASE active = {}
    <3>1. Cardinality(active) = 0
      BY <2>1, FS_EmptySet, Zenon
    <3> QED
      BY <3>1 DEF OneActive
  <2>2. CASE active # {}
    <3>1. PICK j \in active : TRUE
      BY <2>2
    <3>2. active = {j}
      BY <3>1 DEF IInv, AtMostOneActive
    <3>3. Cardinality(active) = 1
      BY <3>2, FS_Singleton, Zenon
    <3> QED
      BY <3>3 DEF OneActive
  <2> QED
    BY <2>1, <2>2
<1> QED
  BY <1>1, <1>2 DEF IInv, SelectionsKept

\* Every reachable state is well typed: a running export was confirmed, a cancelled one
\* is neither ready nor handed over, and a live lease has its request.
THEOREM SelectionTyped == Spec => []TypeOK
<1> QED
  BY IInvHolds, IInvSuffices, PTL

\* Reads keep their export active, and with it the hold on their photographs, and stay
\* within the bound of a job; an event has one active export; a selection is handed to
\* the device or archived, never both.
THEOREM SelectionsAreKept == Spec => []SelectionsKept
<1> QED
  BY IInvHolds, IInvSuffices, PTL

\* A photograph becomes prepared only by the request that read it to its end, under its
\* own live lease, of an active export nobody has cancelled.
THEOREM PreparedByItsReader == Spec => PreparedUnderLease
<1> DEFINE Prepares ==
      \A j \in Device, m \in Media :
          deliveries[j][m].state # "prepared" /\ deliveries'[j][m].state = "prepared" =>
             /\ deliveries[j][m].live /\ Active(j) /\ ~job[j].cancelled
             /\ reader[deliveries[j][m].lease].pc = "eof"
<1>1. IInv /\ [Next]_vars => [Prepares]_vars
  <2> SUFFICES ASSUME IInv, [Next]_vars, NEW j \in Device, NEW m \in Media,
                      deliveries[j][m].state # "prepared", deliveries'[j][m].state = "prepared"
               PROVE  /\ deliveries[j][m].live /\ Active(j) /\ ~job[j].cancelled
                      /\ reader[deliveries[j][m].lease].pc = "eof"
    OBVIOUS
  <2> USE DEF IInv, TypeOK
  <2>1. PICK r \in Readers, outcome \in {"prepared", "failed"} : ReleaseRead(r, outcome)
    <3>1. ASSUME UNCHANGED deliveries PROVE FALSE
      BY <3>1
    <3>2. ASSUME NEW k \in Jobs, deliveries' = Lapsed(k) PROVE FALSE
      BY <3>2 DEF Lapsed, Delivery
    <3>3. ASSUME NEW r \in Readers, NEW k \in Device, NEW n \in Media, ClaimRead(r, k, n) PROVE FALSE
      BY <3>3 DEF ClaimRead, Delivery
    <3>4. ASSUME NEW k \in Device, NEW n \in Media, LeaseLapses(k, n) PROVE FALSE
      BY <3>4 DEF LeaseLapses, Delivery
    <3>5. ASSUME NEW k \in Device, NEW ms \in SUBSET Media, RecordHandoff(k, ms) PROVE FALSE
      BY <3>5 DEF RecordHandoff, Delivery
    <3>6. CASE Next
      <4>1. ASSUME NEW k \in Jobs, Confirm(k) \/ Cancel(k) \/ Expire(k) \/ Create(k) PROVE FALSE
        BY <3>1, <4>1 DEF Confirm, Cancel, Expire, Create
      <4>2. ASSUME ArchiveStep PROVE FALSE
        BY <3>1, <4>2 DEF ArchiveStep, ClaimRunning, SettleArchive, LinksEnd, RetryArchive,
                          AskArchive, IntendArchive, CloneArchive, HandlerDies
      <4>3. ASSUME TimePasses PROVE FALSE
        BY <3>1, <3>2, <3>4, <4>3 DEF TimePasses, HoldPasses, AbsolutePasses, AuthorityEnds
      <4>4. ASSUME NEW r \in Readers, EndOfFile(r) \/ ReaderDies(r) PROVE FALSE
        BY <3>1, <4>4 DEF EndOfFile, ReaderDies
      <4> QED
        BY <3>3, <3>5, <3>6, <4>1, <4>2, <4>3, <4>4 DEF Next, DeviceStep
    <3>7. CASE UNCHANGED vars
      BY <3>1, <3>7 DEF vars
    <3> QED
      BY <3>6, <3>7
  <2>2. PICK k \in Device, n \in Media : k = reader[r].job /\ n = reader[r].media
    BY <2>1 DEF ReleaseRead, Occupied
  <2> DEFINE d == deliveries[k][n]
  <2>3. /\ deliveries' = [deliveries EXCEPT ![k][n] = Settled(k, d, outcome)]
        /\ d.lease = r
    BY <2>1, <2>2 DEF ReleaseRead
  <2>4. j = k /\ m = n
    BY <2>3
  <2>5. deliveries'[j][m] = Settled(k, d, outcome) /\ d \in Delivery
    BY <2>3, <2>4
  <2>6. d.live /\ ActiveDevice(k) /\ outcome = "prepared"
    BY <2>4, <2>5 DEF Settled, Delivery
  <2>7. reader[r].pc = "eof"
    BY <2>1, <2>6 DEF ReleaseRead
  <2> QED
    BY <2>3, <2>4, <2>6, <2>7 DEF ActiveDevice, Active
<1> QED
  BY <1>1, IInvHolds, PTL DEF Spec, PreparedUnderLease

-----------------------------------------------------------------------------
(* The archives of a complete collection, if callbacks do not overlap.      *)

HIDE DEF Jobs

\* Nothing is owned before it was claimed.
UnclaimedIsNobodys == archive.state \in {"none", "queued"} => ~archive.owned

\* What a retry is about to delete is of an attempt the job has left behind.
RetriesLookBack ==
    \A h \in Retriers :
        /\ retrier[h].pc \in {"list", "commit"} =>
             /\ retrier[h].seen <= archive.attempt
             /\ \A k \in retrier[h].keys : k[1] <= retrier[h].seen
        /\ retrier[h].pc = "list" /\ retrier[h].recovering => retrier[h].keys = {}
        /\ retrier[h].pc = "delete" => \A k \in retrier[h].keys : k[1] < archive.attempt

\* Callbacks do not overlap.
OneCallback == \A x, y \in Callbacks : callback[x].pc # "idle" /\ callback[y].pc # "idle" => x = y

\* A callback of the job's own attempt is the one that runs it or saw it fail.
CallbackRuns ==
    \A x \in Callbacks :
        callback[x].pc # "idle" =>
            /\ callback[x].attempt <= archive.attempt
            /\ \A k \in callback[x].keys \cup callback[x].uploaded : k[1] = callback[x].attempt
            /\ callback[x].pc \in {"clear", "delete", "reset"} => callback[x].part = 1
            /\ callback[x].attempt = archive.attempt =>
                 archive.state = "failed" \/ (archive.state = "running" /\ callback[x].pc # "undo")

\* How many parts a callback has behind it.
Written(x) ==
    CASE callback[x].pc = "put" -> callback[x].part - 1
      [] callback[x].pc = "record" -> callback[x].part
      [] callback[x].pc = "ready" -> NumParts
      [] OTHER -> 0

\* What the callback that runs the job has put is there.
PartsAreThere ==
    \A x \in Callbacks :
        Attempts!Owns(x) => \A i \in Attempts!Artifacts : i <= Written(x) => <<callback[x].attempt, i>> \in objects

\* The cleanup of the job's own attempt is of an expired job.
CleanupIsOfExpired ==
    /\ cleaner.pc # "idle" =>
         /\ cleaner.attempt <= archive.attempt
         /\ cleaner.attempt = archive.attempt => archive.state = "expired"
    /\ cleaner.pc = "clear" /\ cleaner.attempt = archive.attempt =>
         objects \cap Attempts!Prefix(archive.attempt) = {}

ArchiveInv ==
    /\ Attempts!TypeOK /\ UnclaimedIsNobodys /\ RetriesLookBack /\ OneCallback /\ CallbackRuns
    /\ PartsAreThere /\ CleanupIsOfExpired /\ Attempts!ReadyComplete /\ Attempts!ExpiredRemembered

Job == [state: {"none", "queued", "running", "ready", "failed", "expired"},
        attempt: Attempts!Attempts, owned: BOOLEAN, progress: 0..NumParts, recorded: BOOLEAN]
Callback == [pc: {"idle", "clear", "delete", "reset", "put", "record", "ready", "undo"},
             attempt: Attempts!Attempts, part: Attempts!Artifacts, uploaded: SUBSET Attempts!Objects, keys: SUBSET Attempts!Objects]
Request == [pc: {"idle", "list", "commit", "delete", "dispatch", "fence"},
            seen: Attempts!Attempts, recovering: BOOLEAN, keys: SUBSET Attempts!Objects]

LEMMA IdleTypes == Attempts!ExportSizes => Attempts!IdleExec \in Callback /\ Attempts!IdleHandler \in Request /\ 1 \in Attempts!Attempts
BY DEF Attempts!ExportSizes, Attempts!IdleExec, Attempts!IdleHandler, Callback, Request, Attempts!Attempts, Attempts!Artifacts

\* The job's row and what its state says of it.
JobTyped(j) ==
    /\ j \in Job
    /\ j.state = "ready" => j.owned /\ j.progress = NumParts /\ j.recorded
    /\ j.state \in {"none", "queued", "running", "failed"} => ~j.recorded
    /\ j.state = "running" => j.owned

LEMMA Typing ==
    Attempts!TypeOK <=> /\ JobTyped(archive) /\ eventLive \in BOOLEAN /\ linksOver \in BOOLEAN
                 /\ objects \subseteq Attempts!Objects
                 /\ attemptOf \in [Attempts!Attempts -> {"none", "active", "ended", "errored"}]
                 /\ callback \in [Callbacks -> Callback] /\ retrier \in [Retriers -> Request]
                 /\ cleaner \in [pc: {"idle", "delete", "clear"}, attempt: Attempts!Attempts]
BY DEF Attempts!TypeOK, JobTyped, Job, Callback, Request

\* What the job's row may become.
LEMMA JobMoves ==
    ASSUME Attempts!ExportSizes, JobTyped(archive)
    PROVE  /\ archive.state \in {"none", "queued"} => JobTyped([archive EXCEPT !.state = "queued"])
           /\ archive.state \in {"queued", "running", "failed"} => JobTyped([archive EXCEPT !.state = "failed"])
           /\ archive.state = "ready" => JobTyped([archive EXCEPT !.state = "expired"])
           /\ archive.attempt < MaxAttempts => JobTyped(Attempts!Requeued)
           /\ archive.state = "queued" =>
                JobTyped([archive EXCEPT !.state = "running", !.owned = TRUE, !.progress = 0])
           /\ \A p \in 0..NumParts : archive.state = "running" => JobTyped([archive EXCEPT !.progress = p])
           /\ archive.state = "running" /\ archive.progress = NumParts =>
                JobTyped([archive EXCEPT !.state = "ready", !.recorded = TRUE])
           /\ archive.state = "expired" => JobTyped([archive EXCEPT !.recorded = FALSE])
<1> USE DEF JobTyped, Job
<1>1. ASSUME archive.attempt < MaxAttempts PROVE JobTyped(Attempts!Requeued)
  <2>1. archive.attempt + 1 \in Attempts!Attempts /\ 0 \in 0..NumParts
    BY <1>1 DEF Attempts!Attempts, Attempts!ExportSizes
  <2> QED
    BY <2>1 DEF Attempts!Requeued
<1>2. archive.state \in {"none", "queued"} => JobTyped([archive EXCEPT !.state = "queued"])
  OBVIOUS
<1>3. archive.state \in {"queued", "running", "failed"} => JobTyped([archive EXCEPT !.state = "failed"])
  OBVIOUS
<1>4. archive.state = "ready" => JobTyped([archive EXCEPT !.state = "expired"])
  OBVIOUS
<1>5. archive.state = "queued" =>
        JobTyped([archive EXCEPT !.state = "running", !.owned = TRUE, !.progress = 0])
  <2>1. 0 \in 0..NumParts
    BY DEF Attempts!ExportSizes
  <2> QED
    BY <2>1
<1>6. \A p \in 0..NumParts : archive.state = "running" => JobTyped([archive EXCEPT !.progress = p])
  OBVIOUS
<1>7. archive.state = "running" /\ archive.progress = NumParts =>
        JobTyped([archive EXCEPT !.state = "ready", !.recorded = TRUE])
  OBVIOUS
<1>8. archive.state = "expired" => JobTyped([archive EXCEPT !.recorded = FALSE])
  OBVIOUS
<1> QED
  BY <1>1, <1>2, <1>3, <1>4, <1>5, <1>6, <1>7, <1>8

LEMMA PrefixTyped == \A a \in Attempts!Attempts : Attempts!Prefix(a) \subseteq Attempts!Objects
BY DEF Attempts!Prefix, Attempts!Objects

LEMMA HandlersTyped ==
    ASSUME Attempts!ExportSizes, ArchiveInv, NEW h \in Retriers,
           Attempts!Create(h) \/ Attempts!ReadForRetry(h) \/ Attempts!HandlerStep(h) \/ Attempts!HandlerDies(h)
    PROVE  Attempts!TypeOK'
<1> USE IdleTypes, JobMoves DEF ArchiveInv
<1>1. /\ JobTyped(archive) /\ eventLive \in BOOLEAN /\ linksOver \in BOOLEAN
      /\ objects \subseteq Attempts!Objects
      /\ attemptOf \in [Attempts!Attempts -> {"none", "active", "ended", "errored"}]
      /\ callback \in [Callbacks -> Callback] /\ retrier \in [Retriers -> Request]
      /\ cleaner \in [pc: {"idle", "delete", "clear"}, attempt: Attempts!Attempts]
      /\ archive.attempt \in Attempts!Attempts
  BY Typing DEF JobTyped, Job
<1> SUFFICES /\ JobTyped(archive') /\ linksOver' \in BOOLEAN
             /\ objects' \subseteq Attempts!Objects
             /\ attemptOf' \in [Attempts!Attempts -> {"none", "active", "ended", "errored"}]
             /\ retrier' \in [Retriers -> Request]
             /\ UNCHANGED <<eventLive, callback, cleaner>>
  BY <1>1 DEF Attempts!TypeOK, JobTyped, Job, Callback, Request
<1>2. CASE Attempts!Create(h)
  BY <1>1, <1>2 DEF Attempts!Create, Attempts!HandlerAt, Request
<1>3. CASE Attempts!ReadForRetry(h)
  <2>1. JobTyped(archive')
    BY <1>1, <1>3 DEF Attempts!ReadForRetry
  <2>2. retrier' \in [Retriers -> Request]
    <3>1. (IF archive.recorded THEN Attempts!Prefix(archive.attempt) ELSE {}) \in SUBSET Attempts!Objects
      BY <1>1, PrefixTyped
    <3> QED
      BY <1>1, <1>3, <3>1 DEF Attempts!ReadForRetry, Request
  <2> QED
    BY <1>1, <1>3, <2>1, <2>2 DEF Attempts!ReadForRetry
<1>4. CASE Attempts!ListPrior(h)
  <2>1. objects \cap Attempts!Prefix(Attempts!PriorAttempt(h)) \in SUBSET Attempts!Objects
    BY <1>1
  <2>2. retrier' \in [Retriers -> Request]
    BY <1>1, <1>4, <2>1 DEF Attempts!ListPrior, Request
  <2> QED
    BY <1>1, <1>4, <2>2 DEF Attempts!ListPrior
<1>5. CASE Attempts!CommitRetry(h)
  <2>1. JobTyped(archive') /\ linksOver' \in BOOLEAN
    BY <1>1, <1>5 DEF Attempts!CommitRetry
  <2>2. retrier' \in [Retriers -> Request]
    <3>1. CASE archive.attempt < MaxAttempts /\ retrier' = [retrier EXCEPT ![h].pc = "delete", ![h].seen = archive.attempt + 1]
      <4>1. archive.attempt + 1 \in Attempts!Attempts
        BY <1>1, <3>1 DEF Attempts!Attempts, Attempts!ExportSizes
      <4> QED
        BY <1>1, <3>1, <4>1 DEF Request
    <3>2. CASE retrier' = [retrier EXCEPT ![h].pc = "delete", ![h].seen = archive.attempt]
      BY <1>1, <3>2 DEF Request
    <3>3. CASE Attempts!HandlerDone(h)
      BY <1>1, <3>3 DEF Attempts!HandlerDone
    <3> QED
      BY <1>5, <3>1, <3>2, <3>3 DEF Attempts!CommitRetry
  <2> QED
    BY <1>1, <1>5, <2>1, <2>2 DEF Attempts!CommitRetry
<1>6. CASE Attempts!DeletePrior(h)
  BY <1>1, <1>6 DEF Attempts!DeletePrior, Attempts!HandlerAt, Request
<1>7. CASE Attempts!Dispatch(h)
  <2>1. attemptOf' \in [Attempts!Attempts -> {"none", "active", "ended", "errored"}]
    BY <1>1, <1>7 DEF Attempts!Dispatch
  <2>2. retrier' \in [Retriers -> Request]
    <3>1. Attempts!HandlerDone(h) \/ Attempts!HandlerAt(h, "fence")
      BY <1>7 DEF Attempts!Dispatch
    <3> QED
      BY <1>1, <3>1 DEF Attempts!HandlerDone, Attempts!HandlerAt, Request
  <2> QED
    BY <1>1, <1>7, <2>1, <2>2 DEF Attempts!Dispatch
<1>8. CASE Attempts!FenceDispatch(h)
  BY <1>1, <1>8 DEF Attempts!FenceDispatch, Attempts!HandlerDone, Attempts!Pristine
<1>9. CASE Attempts!HandlerDies(h)
  BY <1>1, <1>9 DEF Attempts!HandlerDies, Attempts!HandlerDone
<1> QED
  BY <1>2, <1>3, <1>4, <1>5, <1>6, <1>7, <1>8, <1>9 DEF Attempts!HandlerStep

LEMMA CallbacksTyped ==
    ASSUME Attempts!ExportSizes, ArchiveInv, NEW x \in Callbacks, Attempts!ExecStep(x) \/ Attempts!ExecDies(x)
    PROVE  Attempts!TypeOK'
<1> USE IdleTypes, JobMoves DEF ArchiveInv
<1>1. /\ JobTyped(archive) /\ eventLive \in BOOLEAN /\ linksOver \in BOOLEAN
      /\ objects \subseteq Attempts!Objects
      /\ attemptOf \in [Attempts!Attempts -> {"none", "active", "ended", "errored"}]
      /\ callback \in [Callbacks -> Callback] /\ retrier \in [Retriers -> Request]
      /\ cleaner \in [pc: {"idle", "delete", "clear"}, attempt: Attempts!Attempts]
      /\ 0 \in 0..NumParts /\ Attempts!Artifacts \subseteq 0..NumParts
  BY Typing DEF Attempts!ExportSizes, Attempts!Artifacts
<1> SUFFICES /\ JobTyped(archive') /\ objects' \subseteq Attempts!Objects
             /\ attemptOf' \in [Attempts!Attempts -> {"none", "active", "ended", "errored"}]
             /\ callback' \in [Callbacks -> Callback]
             /\ UNCHANGED <<eventLive, linksOver, retrier, cleaner>>
  BY <1>1 DEF Attempts!TypeOK, JobTyped, Job, Callback, Request
<1>2. Attempts!Returns(x) => /\ attemptOf' \in [Attempts!Attempts -> {"none", "active", "ended", "errored"}]
                      /\ callback' \in [Callbacks -> Callback]
  BY <1>1 DEF Attempts!Returns
<1>3. ASSUME NEW pc \in {"idle", "clear", "delete", "reset", "put", "record", "ready", "undo"}, Attempts!ExecAt(x, pc)
      PROVE  callback' \in [Callbacks -> Callback]
  BY <1>1, <1>3 DEF Attempts!ExecAt, Callback
<1>4. Attempts!Stops(x) => /\ JobTyped(archive') /\ callback' \in [Callbacks -> Callback]
                    /\ attemptOf' \in [Attempts!Attempts -> {"none", "active", "ended", "errored"}]
  BY <1>1, <1>2 DEF Attempts!Stops, Attempts!Owns
<1>5. Attempts!Fails(x) => /\ JobTyped(archive') /\ callback' \in [Callbacks -> Callback]
                    /\ attemptOf' \in [Attempts!Attempts -> {"none", "active", "ended", "errored"}]
  BY <1>1, <1>2, <1>3 DEF Attempts!Fails, Attempts!Owns
<1>6. callback[x] \in Callback /\ <<callback[x].attempt, callback[x].part>> \in Attempts!Objects
  BY <1>1 DEF Callback, Attempts!Objects
<1>7. ASSUME NEW a \in Attempts!Attempts, Attempts!Claim(x, a) PROVE JobTyped(archive') /\ callback' \in [Callbacks -> Callback]
             /\ attemptOf' \in [Attempts!Attempts -> {"none", "active", "ended", "errored"}]
  <2>1. [Attempts!IdleExec EXCEPT !.pc = "put", !.attempt = a] \in Callback
        /\ [Attempts!IdleExec EXCEPT !.pc = "clear", !.attempt = a] \in Callback
    BY DEF Callback
  <2>2. CASE callback' = [callback EXCEPT ![x] = [Attempts!IdleExec EXCEPT !.pc = "put", !.attempt = a]]
             /\ Attempts!Pristine /\ archive' = [archive EXCEPT !.state = "running", !.owned = TRUE, !.progress = 0] /\ UNCHANGED attemptOf
    BY <1>1, <2>1, <2>2 DEF Attempts!Pristine
  <2>3. CASE callback' = [callback EXCEPT ![x] = [Attempts!IdleExec EXCEPT !.pc = "clear", !.attempt = a]]
             /\ UNCHANGED <<archive, attemptOf>>
    BY <1>1, <2>1, <2>3
  <2>4. CASE attemptOf' = [attemptOf EXCEPT ![a] = "ended"] /\ UNCHANGED <<archive, callback>>
    BY <1>1, <2>4
  <2> QED
    BY <1>7, <2>2, <2>3, <2>4 DEF Attempts!Claim
<1>8. CASE \E a \in Attempts!Attempts : Attempts!Claim(x, a)
  BY <1>1, <1>7, <1>8 DEF Attempts!Claim
<1>9. CASE Attempts!ListIncomplete(x)
  <2>1. objects \cap Attempts!Prefix(callback[x].attempt) \in SUBSET Attempts!Objects
    BY <1>1
  <2>2. ASSUME NEW pc \in {"reset", "delete"},
               callback' = [callback EXCEPT ![x].pc = pc, ![x].keys = objects \cap Attempts!Prefix(callback[x].attempt)]
        PROVE  callback' \in [Callbacks -> Callback]
    BY <1>1, <2>1, <2>2 DEF Callback
  <2>3. ~Attempts!MayGoOn(x) => Attempts!Stops(x)
    BY <1>9 DEF Attempts!ListIncomplete
  <2>4. Attempts!MayGoOn(x) => callback' \in [Callbacks -> Callback] /\ UNCHANGED <<archive, attemptOf>>
    BY <1>9, <2>2 DEF Attempts!ListIncomplete
  <2> QED
    BY <1>1, <1>4, <1>9, <2>3, <2>4 DEF Attempts!ListIncomplete
<1>10. CASE Attempts!DeleteIncomplete(x)
  BY <1>1, <1>3, <1>10 DEF Attempts!DeleteIncomplete
<1>11. CASE Attempts!ResetProgress(x)
  BY <1>1, <1>2, <1>3, <1>11 DEF Attempts!ResetProgress, Attempts!Owns
<1>12. CASE Attempts!PutPart(x)
  <2>1. objects' \subseteq Attempts!Objects /\ UNCHANGED <<eventLive, linksOver, retrier, cleaner>>
    BY <1>1, <1>6, <1>12 DEF Attempts!PutPart
  <2>2. CASE Attempts!ExecAt(x, "record") /\ UNCHANGED <<archive, attemptOf>>
    BY <1>1, <1>3, <2>1, <2>2
  <2>3. CASE Attempts!Fails(x) \/ Attempts!Stops(x)
    BY <1>4, <1>5, <2>1, <2>3
  <2> QED
    BY <1>12, <2>2, <2>3 DEF Attempts!PutPart
<1>13. CASE Attempts!RecordPart(x)
  <2>1. callback[x].part \in Attempts!Artifacts /\ (callback[x].part # NumParts => callback[x].part + 1 \in Attempts!Artifacts)
    BY <1>6 DEF Callback, Attempts!Artifacts, Attempts!ExportSizes
  <2>2. callback[x].uploaded \cup {<<callback[x].attempt, callback[x].part>>} \in SUBSET Attempts!Objects
    BY <1>6 DEF Callback
  <2>3. CASE Attempts!Stops(x)
    BY <1>1, <1>4, <1>13, <2>3 DEF Attempts!RecordPart
  <2>4. CASE Attempts!Returns(x) /\ UNCHANGED archive
    BY <1>1, <1>2, <1>13, <2>4 DEF Attempts!RecordPart
  <2>5. CASE Attempts!MayGoOn(x) /\ Attempts!Advances(callback[x].part)
    <3>1. JobTyped(archive') /\ UNCHANGED attemptOf
      BY <1>1, <1>13, <2>1, <2>5 DEF Attempts!RecordPart, Attempts!MayGoOn, Attempts!Owns
    <3>2. callback' \in [Callbacks -> Callback]
      BY <1>1, <1>13, <2>1, <2>2, <2>5 DEF Attempts!RecordPart, Callback
    <3> QED
      BY <1>1, <1>13, <3>1, <3>2 DEF Attempts!RecordPart
  <2> QED
    BY <1>13, <2>3, <2>4, <2>5 DEF Attempts!RecordPart
<1>14. CASE Attempts!MarkReady(x)
  <2>1. CASE Attempts!MayGoOn(x) /\ archive.progress = NumParts
    BY <1>1, <1>2, <1>14, <2>1 DEF Attempts!MarkReady, Attempts!MayGoOn, Attempts!Owns
  <2>2. CASE Attempts!Fails(x) \/ Attempts!Stops(x)
    BY <1>1, <1>4, <1>5, <1>14, <2>2 DEF Attempts!MarkReady
  <2> QED
    BY <1>14, <2>1, <2>2 DEF Attempts!MarkReady
<1>15. CASE Attempts!DeleteUploaded(x)
  BY <1>1, <1>2, <1>15 DEF Attempts!DeleteUploaded
<1>16. CASE Attempts!ExecDies(x)
  BY <1>1, <1>16 DEF Attempts!ExecDies
<1> QED
  BY <1>8, <1>9, <1>10, <1>11, <1>12, <1>13, <1>14, <1>15, <1>16 DEF Attempts!ExecStep

\* What the job may do while no callback and no cleanup moves.
JobStep ==
    \/ UNCHANGED archive
    \/ archive.state = "none" /\ archive' = [archive EXCEPT !.state = "queued"]
    \/ archive.state = "ready" /\ archive' = [archive EXCEPT !.state = "expired"]
    \/ archive.state = "queued" /\ archive' = [archive EXCEPT !.state = "failed"]
    \/ archive.state \in {"failed", "expired"} /\ archive' = Attempts!Requeued

LEMMA JobFields ==
    ASSUME Attempts!TypeOK
    PROVE  /\ archive = [state |-> archive.state, attempt |-> archive.attempt, owned |-> archive.owned,
                     progress |-> archive.progress, recorded |-> archive.recorded]
           /\ archive.attempt \in Int /\ cleaner.attempt \in Int /\ archive \in Job
           /\ \A x \in Callbacks : callback[x].attempt \in Int /\ callback[x].part \in Int
           /\ \A h \in Retriers : retrier[h].seen \in Int
           /\ \A k \in Attempts!Objects : k[1] \in Int /\ k = <<k[1], k[2]>>
           /\ Attempts!Prefix(archive.attempt) = {k \in Attempts!Objects : k[1] = archive.attempt}
BY DEF Attempts!TypeOK, Attempts!Attempts, Attempts!Artifacts, Attempts!Objects, Attempts!Prefix, Job

\* ... and what that says of its columns.
LEMMA JobStepFields ==
    ASSUME Attempts!TypeOK, JobStep
    PROVE  /\ archive'.attempt \in {archive.attempt, archive.attempt + 1} /\ archive'.attempt \in Int
           /\ archive'.attempt # archive.attempt => archive'.state = "queued" /\ ~archive'.owned
           /\ archive'.attempt = archive.attempt =>
                /\ archive'.recorded = archive.recorded /\ archive'.owned = archive.owned
                /\ archive'.state # archive.state => \/ archive.state = "none" /\ archive'.state = "queued"
                                                     \/ archive.state = "ready" /\ archive'.state = "expired"
                                                     \/ archive.state = "queued" /\ archive'.state = "failed"
<1> USE JobFields
<1>1. archive \in Job /\ archive.attempt \in Int
  OBVIOUS
<1>2. CASE UNCHANGED archive
  BY <1>1, <1>2
<1>3. CASE archive.state = "none" /\ archive' = [archive EXCEPT !.state = "queued"]
  BY <1>1, <1>3 DEF Job
<1>4. CASE archive.state = "ready" /\ archive' = [archive EXCEPT !.state = "expired"]
  BY <1>1, <1>4 DEF Job
<1>5. CASE archive.state = "queued" /\ archive' = [archive EXCEPT !.state = "failed"]
  BY <1>1, <1>5 DEF Job
<1>6. CASE archive.state \in {"failed", "expired"} /\ archive' = Attempts!Requeued
  <2>1. archive'.attempt = archive.attempt + 1 /\ archive'.state = "queued" /\ archive'.owned = FALSE
    BY <1>1, <1>6 DEF Job, Attempts!Requeued
  <2> QED
    BY <1>1, <2>1
<1> QED
  BY <1>2, <1>3, <1>4, <1>5, <1>6 DEF JobStep

LEMMA JobStepKeeps ==
    ASSUME Attempts!ExportSizes, ArchiveInv, JobStep, UNCHANGED <<callback, cleaner>>,
           objects' \subseteq objects, \A k \in objects \ objects' : k[1] < archive.attempt
    PROVE  /\ UnclaimedIsNobodys' /\ OneCallback' /\ CallbackRuns' /\ PartsAreThere'
           /\ CleanupIsOfExpired' /\ Attempts!ReadyComplete' /\ Attempts!ExpiredRemembered'
<1> USE JobFields DEF ArchiveInv
<1>1. /\ archive'.attempt \in {archive.attempt, archive.attempt + 1} /\ archive'.attempt \in Int
      /\ archive'.attempt # archive.attempt => archive'.state = "queued" /\ ~archive'.owned
      /\ archive'.attempt = archive.attempt =>
           /\ archive'.recorded = archive.recorded /\ archive'.owned = archive.owned
           /\ archive'.state # archive.state => \/ archive.state = "none" /\ archive'.state = "queued"
                                                \/ archive.state = "ready" /\ archive'.state = "expired"
                                                \/ archive.state = "queued" /\ archive'.state = "failed"
  BY JobStepFields
<1>3. \A k \in objects : k[1] = archive.attempt => k \in objects'
  BY DEF Attempts!TypeOK
<1>4. UnclaimedIsNobodys'
  BY <1>1 DEF UnclaimedIsNobodys
<1>5. OneCallback' /\ CallbackRuns'
  BY <1>1 DEF OneCallback, CallbackRuns
<1>6. PartsAreThere'
  BY <1>1, <1>3 DEF PartsAreThere, Attempts!Owns, Written, Attempts!Objects, Attempts!TypeOK
<1>7. CleanupIsOfExpired'
  BY <1>1 DEF CleanupIsOfExpired
<1>8. Attempts!ReadyComplete'
  BY <1>1, <1>3 DEF Attempts!ReadyComplete
<1>9. Attempts!ExpiredRemembered'
  <2>1. archive.state = "ready" => archive.recorded
    BY DEF Attempts!TypeOK
  <2> QED
    BY <1>1, <2>1 DEF Attempts!ExpiredRemembered
<1> QED
  BY <1>4, <1>5, <1>6, <1>7, <1>8, <1>9

LEMMA HandlersKeep ==
    ASSUME Attempts!ExportSizes, ArchiveInv, NEW h \in Retriers,
           Attempts!Create(h) \/ Attempts!ReadForRetry(h) \/ Attempts!HandlerStep(h) \/ Attempts!HandlerDies(h)
    PROVE  ArchiveInv'
<1> USE JobFields
<1>1. Attempts!TypeOK'
  BY HandlersTyped
<1>2. Attempts!TypeOK
  BY DEF ArchiveInv
<1>3. JobStep /\ UNCHANGED <<callback, cleaner>>
  BY <1>2 DEF JobStep, Attempts!Create, Attempts!ReadForRetry, Attempts!HandlerStep, Attempts!ListPrior, Attempts!CommitRetry,
     Attempts!DeletePrior, Attempts!Dispatch,
           Attempts!FenceDispatch, Attempts!HandlerDies, Attempts!Pristine
<1>4. objects' \subseteq objects /\ \A k \in objects \ objects' : k[1] < archive.attempt
  BY <1>2 DEF Attempts!Create, Attempts!ReadForRetry, Attempts!HandlerStep, Attempts!ListPrior, Attempts!CommitRetry, Attempts!DeletePrior,
     Attempts!Dispatch,
           Attempts!FenceDispatch, Attempts!HandlerDies, ArchiveInv, RetriesLookBack
<1>5. RetriesLookBack'
  <2>1. archive'.attempt >= archive.attempt /\ archive'.attempt \in Int
    BY <1>2, <1>3, JobStepFields
  <2>2. \A g \in Retriers \ {h} : retrier'[g] = retrier[g]
    BY <1>2 DEF Attempts!TypeOK, Attempts!Create, Attempts!ReadForRetry, Attempts!HandlerStep, Attempts!ListPrior, Attempts!CommitRetry,
       Attempts!DeletePrior, Attempts!Dispatch,
           Attempts!FenceDispatch, Attempts!HandlerDies, Attempts!HandlerAt, Attempts!HandlerDone
  <2> DEFINE LooksBack ==
        /\ retrier'[h].pc \in {"list", "commit"} =>
             /\ retrier'[h].seen <= archive'.attempt
             /\ \A k \in retrier'[h].keys : k[1] <= retrier'[h].seen
        /\ retrier'[h].pc = "list" /\ retrier'[h].recovering => retrier'[h].keys = {}
        /\ retrier'[h].pc = "delete" => \A k \in retrier'[h].keys : k[1] < archive'.attempt
  <2>3. retrier'[h].pc \notin {"list", "commit", "delete"} => LooksBack
    OBVIOUS
  <2>8. LooksBack
    <3>1. CASE Attempts!Create(h) \/ Attempts!DeletePrior(h) \/ Attempts!Dispatch(h) \/ Attempts!FenceDispatch(h) \/ Attempts!HandlerDies(h)
      <4>1. retrier'[h].pc \notin {"list", "commit", "delete"}
        BY <1>2, <3>1 DEF Attempts!TypeOK, Attempts!Create, Attempts!DeletePrior, Attempts!Dispatch, Attempts!FenceDispatch,
           Attempts!HandlerDies, Attempts!HandlerAt, Attempts!HandlerDone, Attempts!IdleHandler
      <4> QED
        BY <2>3, <4>1
    <3>2. CASE Attempts!ReadForRetry(h)
      <4>1. retrier'[h] = [pc |-> "list", seen |-> archive.attempt,
      recovering |-> archive.state = "queued",
                           keys |-> IF archive.recorded THEN Attempts!Prefix(archive.attempt) ELSE {}]
        BY <1>2, <3>2 DEF Attempts!ReadForRetry, Attempts!TypeOK
      <4>2. archive.state = "queued" => ~archive.recorded
        BY <1>2 DEF Attempts!TypeOK
      <4> QED
        <5>1. \A k \in Attempts!Prefix(archive.attempt) : k[1] = archive.attempt
          BY DEF Attempts!Prefix
        <5>2. retrier'[h].pc = "list" /\ retrier'[h].seen = archive.attempt
              /\ \A k \in retrier'[h].keys : k[1] = archive.attempt
          BY <4>1, <5>1
        <5>3. retrier'[h].recovering => retrier'[h].keys = {}
          <6> DEFINE queued == archive.state = "queued"
          <6>0. retrier'[h] = [pc |-> "list", seen |-> archive.attempt, recovering |-> queued,
                               keys |-> IF archive.recorded THEN Attempts!Prefix(archive.attempt) ELSE {}]
            BY <4>1
          <6> HIDE DEF queued
          <6>1. retrier'[h].recovering = queued
            BY <6>0
          <6>2. retrier'[h].keys = (IF archive.recorded THEN Attempts!Prefix(archive.attempt) ELSE {})
            BY <4>1
          <6> QED
            BY <4>2, <6>1, <6>2 DEF queued
        <5> QED
          BY <1>2, <2>1, <5>2, <5>3
    <3>3. CASE Attempts!ListPrior(h)
      <4>1. /\ retrier'[h].pc = (IF retrier[h].recovering THEN "delete" ELSE "commit")
            /\ retrier'[h].keys = retrier[h].keys \cup (objects \cap Attempts!Prefix(Attempts!PriorAttempt(h)))
            /\ retrier'[h].seen = retrier[h].seen /\ UNCHANGED archive /\ retrier[h].pc = "list"
        BY <1>2, <3>3 DEF Attempts!ListPrior, Attempts!TypeOK
      <4>2. \A k \in Attempts!Prefix(Attempts!PriorAttempt(h)) :
              k[1] = IF retrier[h].recovering THEN retrier[h].seen - 1 ELSE retrier[h].seen
        BY DEF Attempts!Prefix, Attempts!PriorAttempt
      <4> QED
        BY <1>2, <4>1, <4>2 DEF ArchiveInv, RetriesLookBack
    <3>4. CASE Attempts!CommitRetry(h)
      <4>1. CASE /\ archive' = Attempts!Requeued
                 /\ retrier' = [retrier EXCEPT ![h].pc = "delete", ![h].seen = archive.attempt + 1]
        <5>1. archive'.attempt = archive.attempt + 1 /\ retrier'[h].keys = retrier[h].keys /\ retrier'[h].pc = "delete"
          BY <1>2, <4>1 DEF Attempts!Requeued, Attempts!TypeOK
        <5> QED
          BY <1>2, <3>4, <5>1 DEF Attempts!CommitRetry, ArchiveInv, RetriesLookBack, Attempts!TypeOK
      <4>2. CASE /\ archive.attempt = retrier[h].seen + 1 /\ UNCHANGED archive
                 /\ retrier' = [retrier EXCEPT ![h].pc = "delete", ![h].seen = archive.attempt]
        <5>1. retrier'[h].keys = retrier[h].keys /\ retrier'[h].pc = "delete"
          BY <1>2, <4>2 DEF Attempts!TypeOK
        <5> QED
          BY <1>2, <3>4, <4>2, <5>1 DEF Attempts!CommitRetry, ArchiveInv, RetriesLookBack, Attempts!TypeOK
      <4>3. CASE Attempts!HandlerDone(h)
        <5>1. retrier'[h].pc = "idle"
          BY <1>2, <4>3 DEF Attempts!HandlerDone, Attempts!IdleHandler, Attempts!TypeOK
        <5> QED
          BY <2>3, <5>1
      <4> QED
        BY <3>4, <4>1, <4>2, <4>3 DEF Attempts!CommitRetry
    <3> QED
      BY <3>1, <3>2, <3>3, <3>4 DEF Attempts!HandlerStep
  <2> HIDE DEF LooksBack
  <2>9. \A g \in Retriers \ {h} :
          /\ retrier'[g].pc \in {"list", "commit"} =>
               /\ retrier'[g].seen <= archive'.attempt
               /\ \A k \in retrier'[g].keys : k[1] <= retrier'[g].seen
          /\ retrier'[g].pc = "list" /\ retrier'[g].recovering => retrier'[g].keys = {}
          /\ retrier'[g].pc = "delete" => \A k \in retrier'[g].keys : k[1] < archive'.attempt
    <3> SUFFICES ASSUME NEW g \in Retriers \ {h}
                 PROVE  /\ retrier[g].pc \in {"list", "commit"} =>
                             /\ retrier[g].seen <= archive'.attempt
                             /\ \A k \in retrier[g].keys : k[1] <= retrier[g].seen
                        /\ retrier[g].pc = "list" /\ retrier[g].recovering => retrier[g].keys = {}
                        /\ retrier[g].pc = "delete" => \A k \in retrier[g].keys : k[1] < archive'.attempt
      BY <2>2
    <3>1. \A k \in retrier[g].keys : k[1] \in Int
      BY <1>2 DEF Attempts!TypeOK
    <3> QED
      BY <1>2, <2>1, <3>1 DEF ArchiveInv, RetriesLookBack
  <2> QED
    BY <2>8, <2>9 DEF RetriesLookBack, LooksBack
<1> QED
  BY <1>1, <1>3, <1>4, <1>5, JobStepKeeps DEF ArchiveInv

\* The attempts of the other actors stay behind while the row's does not go back.
LEMMA RetriesStayBehind ==
    ASSUME Attempts!ExportSizes, ArchiveInv, UNCHANGED retrier,
           archive'.attempt = archive.attempt
    PROVE  RetriesLookBack'
BY DEF ArchiveInv, RetriesLookBack

\* The last lines of a callback: the row is as it was, or the run has failed.
LEMMA CallbacksKeep ==
    ASSUME Attempts!ExportSizes, ArchiveInv, ~Overlap, NEW x \in Callbacks, Attempts!ExecStep(x) \/ Attempts!ExecDies(x)
    PROVE  ArchiveInv'
<1> USE JobFields
<1>1. Attempts!TypeOK /\ Attempts!TypeOK'
  BY CallbacksTyped DEF ArchiveInv
<1>2. archive \in Job /\ callback \in [Callbacks -> Callback] /\ callback[x] \in Callback
  BY <1>1, Typing
<1>3. /\ UNCHANGED <<eventLive, linksOver, retrier, cleaner>>
      /\ \A y \in Callbacks \ {x} : callback'[y] = callback[y]
  BY <1>2 DEF Attempts!ExecStep, Attempts!Claim, Attempts!ListIncomplete, Attempts!DeleteIncomplete, Attempts!ResetProgress, Attempts!PutPart,
     Attempts!RecordPart, Attempts!MarkReady,
              Attempts!DeleteUploaded, Attempts!ExecDies, Attempts!Returns, Attempts!ExecAt, Attempts!Stops, Attempts!Fails
\* While one callback is in its code, the others rest.
<1>4. \A y \in Callbacks \ {x} : callback[y].pc = "idle"
  <2>1. CASE callback[x].pc = "idle"
    <3>1. PICK a \in Attempts!Attempts : Attempts!Claim(x, a)
      BY <2>1 DEF Attempts!ExecStep, Attempts!ListIncomplete, Attempts!DeleteIncomplete, Attempts!ResetProgress, Attempts!PutPart,
         Attempts!RecordPart, Attempts!MarkReady,
                  Attempts!DeleteUploaded, Attempts!ExecDies
    <3> QED
      BY <3>1 DEF Attempts!Claim
  <2>2. CASE callback[x].pc # "idle"
    BY <2>2 DEF ArchiveInv, OneCallback
  <2> QED
    BY <2>1, <2>2
<1>5. OneCallback'
  BY <1>3, <1>4 DEF OneCallback
\* What the row becomes.
<1>6. \/ UNCHANGED archive
      \/ Attempts!Pristine /\ archive' = [archive EXCEPT !.state = "running", !.owned = TRUE, !.progress = 0]
      \/ Attempts!Owns(x) /\ archive' = [archive EXCEPT !.state = "failed"]
      \/ Attempts!Owns(x) /\ \E p \in 0..NumParts : archive' = [archive EXCEPT !.progress = p]
      \/ Attempts!Owns(x) /\ archive' = [archive EXCEPT !.state = "ready", !.recorded = TRUE]
  <2>1. 0 \in 0..NumParts /\ callback[x].part \in 0..NumParts
    BY <1>2 DEF Callback, Attempts!Artifacts, Attempts!ExportSizes
  <2> QED
    BY <2>1 DEF Attempts!ExecStep, Attempts!Claim, Attempts!ListIncomplete, Attempts!DeleteIncomplete, Attempts!ResetProgress,
       Attempts!PutPart, Attempts!RecordPart, Attempts!MarkReady,
                Attempts!DeleteUploaded, Attempts!ExecDies, Attempts!Returns, Attempts!Stops, Attempts!Fails, Attempts!MayGoOn
<1>7. /\ archive'.attempt = archive.attempt
      /\ archive'.state \in {"none", "queued"} => archive'.state = archive.state /\ archive'.owned = archive.owned
      /\ archive'.state \in {"ready", "expired"} => archive' = archive \/ Attempts!Owns(x)
      /\ archive'.state = "expired" => archive' = archive
  BY <1>2, <1>6 DEF Job, Attempts!Owns
<1>8. RetriesLookBack' /\ UnclaimedIsNobodys'
  <2>1. RetriesLookBack'
    BY <1>3, <1>7, RetriesStayBehind
  <2>2. UnclaimedIsNobodys'
    BY <1>7 DEF ArchiveInv, UnclaimedIsNobodys
  <2> QED
    BY <2>1, <2>2
\* Only who runs the job puts, and what is deleted is of the callback's attempt.
<1>9. /\ \/ objects' \subseteq objects
         \/ Attempts!Owns(x) /\ objects \subseteq objects'
      /\ \A k \in objects \ objects' : k[1] = callback[x].attempt /\ callback[x].pc \in {"delete", "undo"}
  BY <1>1 DEF Attempts!ExecStep, Attempts!Claim, Attempts!ListIncomplete, Attempts!DeleteIncomplete, Attempts!ResetProgress, Attempts!PutPart,
     Attempts!RecordPart, Attempts!MarkReady,
              Attempts!DeleteUploaded, Attempts!ExecDies, ArchiveInv, CallbackRuns, Attempts!MayGoOn
<1>10. callback[x].pc # "idle" /\ ~Attempts!Owns(x) /\ callback[x].attempt = archive.attempt => archive.state = "failed"
  BY DEF ArchiveInv, CallbackRuns, Attempts!Owns
<1>11. CleanupIsOfExpired'
  BY <1>3, <1>6, <1>7, <1>9 DEF ArchiveInv, CleanupIsOfExpired, Attempts!Owns, Attempts!Pristine
<1>12. Attempts!ExpiredRemembered'
  BY <1>3, <1>6, <1>7, <1>9 DEF ArchiveInv, Attempts!ExpiredRemembered, Attempts!Owns
<1>13. Attempts!ReadyComplete'
  <2>1. CASE archive.state = "ready" /\ archive' = archive
    BY <1>9, <1>10, <2>1 DEF ArchiveInv, Attempts!ReadyComplete, Attempts!Prefix, Attempts!Owns
  <2>2. CASE Attempts!Owns(x) /\ callback[x].pc = "ready" /\ objects' = objects
    <3>1. \A i \in Attempts!Artifacts : <<callback[x].attempt, i>> \in objects
      BY <1>2, <2>2 DEF ArchiveInv, PartsAreThere, Written, Attempts!Artifacts, Callback
    <3> QED
      BY <1>7, <2>2, <3>1 DEF Attempts!ReadyComplete, Attempts!Prefix, Attempts!Owns
  <2>3. archive'.state = "ready" => archive' = archive \/ (Attempts!Owns(x) /\ callback[x].pc = "ready" /\ objects' = objects)
    BY <1>2 DEF Attempts!ExecStep, Attempts!Claim, Attempts!ListIncomplete, Attempts!DeleteIncomplete, Attempts!ResetProgress,
       Attempts!PutPart, Attempts!RecordPart, Attempts!MarkReady,
                Attempts!DeleteUploaded, Attempts!ExecDies, Attempts!Returns, Attempts!Stops, Attempts!Fails, Attempts!MayGoOn, Attempts!Owns, Job
  <2> QED
    BY <2>1, <2>2, <2>3 DEF Attempts!ReadyComplete
\* The callback itself.
<1> DEFINE Runs == callback'[x].pc # "idle" =>
            /\ callback'[x].attempt <= archive'.attempt
            /\ \A k \in callback'[x].keys \cup callback'[x].uploaded : k[1] = callback'[x].attempt
            /\ callback'[x].pc \in {"clear", "delete", "reset"} => callback'[x].part = 1
            /\ callback'[x].attempt = archive'.attempt =>
                 archive'.state = "failed" \/ (archive'.state = "running" /\ callback'[x].pc # "undo")
           There == Attempts!Owns(x)' => \A i \in Attempts!Artifacts : i <= Written(x)' => <<callback'[x].attempt, i>> \in objects'
<1>14. ASSUME callback'[x].pc = "idle" PROVE Runs /\ There
  <2>1. Written(x)' = 0
    BY <1>14 DEF Written
  <2> QED
    BY <1>14, <2>1 DEF Attempts!Artifacts
<1>15. Attempts!Returns(x) => callback'[x].pc = "idle"
  BY <1>2 DEF Attempts!Returns, Attempts!IdleExec
<1>16. Attempts!Stops(x) => Runs /\ There
  BY <1>14, <1>15 DEF Attempts!Stops
<1>17. Attempts!Fails(x) /\ callback[x].pc # "idle" => Runs /\ There
  <2>1. CASE Attempts!Owns(x) /\ Attempts!Fails(x) /\ callback[x].pc # "idle"
    <3>1. /\ callback'[x].pc = "undo" /\ callback'[x].attempt = callback[x].attempt /\ callback'[x].keys = callback[x].keys
          /\ callback'[x].uploaded = callback[x].uploaded /\ archive'.state = "failed"
      BY <1>2, <2>1 DEF Attempts!Fails, Attempts!ExecAt, Job, Callback
    <3> QED
      BY <1>7, <2>1, <3>1 DEF ArchiveInv, CallbackRuns, Attempts!Owns
  <2>2. CASE ~Attempts!Owns(x) /\ Attempts!Fails(x)
    BY <1>14, <1>15, <2>2 DEF Attempts!Fails
  <2> QED
    BY <2>1, <2>2
<1>18. Runs /\ There
  <2>1. ASSUME NEW a \in Attempts!Attempts, Attempts!Claim(x, a) PROVE Runs /\ There
    <3>1. CASE UNCHANGED <<archive, callback>>
      <4>1. callback'[x].pc = "idle"
        BY <2>1, <3>1 DEF Attempts!Claim
      <4> QED
        BY <1>14, <4>1
    <3>2. CASE /\ Attempts!Pristine /\ archive.attempt = a
               /\ archive' = [archive EXCEPT !.state = "running", !.owned = TRUE, !.progress = 0]
               /\ callback' = [callback EXCEPT ![x] = [Attempts!IdleExec EXCEPT !.pc = "put", !.attempt = a]]
      <4>1. callback'[x] = [pc |-> "put", attempt |-> a, part |-> 1, uploaded |-> {}, keys |-> {}]
            /\ archive'.state = "running" /\ archive'.attempt = a
        BY <1>2, <3>2 DEF Attempts!IdleExec, Job
      <4>2. Written(x)' = 0
        BY <4>1 DEF Written
      <4>3. Runs
        BY <4>1 DEF Attempts!Attempts
      <4> QED
        BY <4>2, <4>3 DEF Attempts!Artifacts
    <3>3. CASE Attempts!Resumes(a) /\ UNCHANGED archive
               /\ callback' = [callback EXCEPT ![x] = [Attempts!IdleExec EXCEPT !.pc = "clear", !.attempt = a]]
      <4>1. callback'[x] = [pc |-> "clear", attempt |-> a, part |-> 1, uploaded |-> {}, keys |-> {}]
            /\ archive'.state = "running" /\ archive'.attempt = a
        BY <1>2, <3>3 DEF Attempts!IdleExec, Attempts!Resumes
      <4>2. Written(x)' = 0
        BY <4>1 DEF Written
      <4>3. Runs
        BY <4>1 DEF Attempts!Attempts
      <4> QED
        BY <4>2, <4>3 DEF Attempts!Artifacts
    <3> QED
      BY <2>1, <3>1, <3>2, <3>3 DEF Attempts!Claim
  <2>2. CASE Attempts!ListIncomplete(x)
    <3>1. CASE Attempts!MayGoOn(x)
      <4>1. /\ callback'[x].pc \in {"reset", "delete"} /\ callback'[x].part = callback[x].part /\ callback'[x].attempt = callback[x].attempt
            /\ callback'[x].keys = objects \cap Attempts!Prefix(callback[x].attempt)
            /\ callback'[x].uploaded = callback[x].uploaded /\ UNCHANGED archive
        BY <1>2, <2>2, <3>1 DEF Attempts!ListIncomplete, Callback
      <4>2. Written(x)' = 0
        BY <4>1 DEF Written
      <4>3. Runs
        BY <2>2, <3>1, <4>1 DEF Attempts!ListIncomplete, ArchiveInv, CallbackRuns, Attempts!Prefix, Attempts!MayGoOn, Attempts!Owns
      <4> QED
        BY <4>2, <4>3 DEF Attempts!Artifacts
    <3> QED
      BY <1>16, <2>2, <3>1 DEF Attempts!ListIncomplete
  <2>3. CASE Attempts!DeleteIncomplete(x)
    <3>1. /\ callback'[x].pc = "clear" /\ callback'[x].part = callback[x].part
          /\ callback'[x].attempt = callback[x].attempt /\ callback'[x].keys = callback[x].keys
          /\ callback'[x].uploaded = callback[x].uploaded /\ UNCHANGED archive
      BY <1>2, <2>3 DEF Attempts!DeleteIncomplete, Attempts!ExecAt, Callback
    <3>2. Written(x)' = 0
      BY <3>1 DEF Written
    <3>3. Runs
      BY <2>3, <3>1 DEF Attempts!DeleteIncomplete, ArchiveInv, CallbackRuns
    <3> QED
      BY <3>2, <3>3 DEF Attempts!Artifacts
  <2>4. CASE Attempts!ResetProgress(x)
    <3>1. CASE Attempts!Owns(x)
      <4>1. /\ callback'[x].pc = "put" /\ callback'[x].attempt = callback[x].attempt /\ callback'[x].keys = callback[x].keys
            /\ callback'[x].uploaded = callback[x].uploaded /\ callback'[x].part = callback[x].part
            /\ archive'.state = "running" /\ archive'.attempt = archive.attempt
        BY <1>2, <2>4, <3>1 DEF Attempts!ResetProgress, Attempts!ExecAt, Callback, Attempts!Owns, Job
      <4>2. Runs
        BY <2>4, <3>1, <4>1 DEF Attempts!ResetProgress, ArchiveInv, CallbackRuns, Attempts!Owns
      <4>3. Written(x)' = 0
        BY <2>4, <4>1 DEF Written, Attempts!ResetProgress, ArchiveInv, CallbackRuns
      <4> QED
        BY <4>2, <4>3 DEF Attempts!Artifacts
    <3> QED
      BY <1>14, <1>15, <2>4, <3>1 DEF Attempts!ResetProgress
  <2>5. CASE Attempts!PutPart(x)
    <3>1. CASE Attempts!MayGoOn(x) /\ Attempts!ExecAt(x, "record") /\ UNCHANGED <<archive, attemptOf>>
               /\ objects' = objects \cup {<<callback[x].attempt, callback[x].part>>}
      <4>1. /\ callback'[x].pc = "record" /\ callback'[x].attempt = callback[x].attempt /\ callback'[x].keys = callback[x].keys
            /\ callback'[x].uploaded = callback[x].uploaded /\ callback'[x].part = callback[x].part
        BY <1>2, <3>1 DEF Attempts!ExecAt, Callback
      <4>2. Runs
        BY <2>5, <3>1, <4>1 DEF Attempts!PutPart, ArchiveInv, CallbackRuns, Attempts!MayGoOn, Attempts!Owns
      <4>3. Written(x)' = callback[x].part /\ Written(x) = callback[x].part - 1
        BY <2>5, <4>1 DEF Written, Attempts!PutPart
      <4>4. \A i \in Attempts!Artifacts : i <= callback[x].part - 1 => <<callback[x].attempt, i>> \in objects
        BY <3>1, <4>3 DEF ArchiveInv, PartsAreThere, Attempts!MayGoOn
      <4>5. \A i \in Attempts!Artifacts : i <= callback[x].part => i <= callback[x].part - 1 \/ i = callback[x].part
        BY <1>2 DEF Attempts!Artifacts, Callback
      <4> QED
        BY <3>1, <4>1, <4>2, <4>3, <4>4, <4>5
    <3>2. CASE Attempts!Fails(x) \/ Attempts!Stops(x)
      BY <1>16, <1>17, <2>5, <3>2 DEF Attempts!PutPart
    <3> QED
      BY <2>5, <3>1, <3>2 DEF Attempts!PutPart
  <2>6. CASE Attempts!RecordPart(x)
    <3>1. CASE Attempts!MayGoOn(x) /\ Attempts!Advances(callback[x].part)
      <4> DEFINE p == callback[x].part
      <4>1. /\ callback'[x].attempt = callback[x].attempt /\ callback'[x].keys = callback[x].keys
            /\ callback'[x].uploaded = callback[x].uploaded \cup {<<callback[x].attempt, p>>}
            /\ callback'[x].pc = (IF p = NumParts THEN "ready" ELSE "put")
            /\ callback'[x].part = (IF p = NumParts THEN p ELSE p + 1)
            /\ archive'.state = "running" /\ archive'.attempt = archive.attempt /\ UNCHANGED objects
        BY <1>2, <2>6, <3>1 DEF Attempts!RecordPart, Attempts!MayGoOn, Attempts!Owns, Callback, Job
      <4>2. Runs
        <5>1. \A k \in callback'[x].keys \cup callback'[x].uploaded : k[1] = callback[x].attempt
          BY <2>6, <4>1 DEF Attempts!RecordPart, ArchiveInv, CallbackRuns
        <5> QED
          BY <2>6, <3>1, <4>1, <5>1 DEF Attempts!RecordPart, ArchiveInv, CallbackRuns, Attempts!MayGoOn, Attempts!Owns
      <4>3. Written(x) = p /\ Written(x)' = p
        <5>1. Written(x) = p
          BY <2>6 DEF Written, Attempts!RecordPart
        <5>2. CASE p = NumParts
          <6>1. callback'[x].pc = "ready"
            BY <4>1, <5>2
          <6> QED
            BY <5>1, <5>2, <6>1 DEF Written
        <5>3. CASE p # NumParts
          <6>1. callback'[x].pc = "put" /\ callback'[x].part = p + 1 /\ p \in Int
            BY <1>2, <4>1, <5>3 DEF Callback, Attempts!Artifacts
          <6> QED
            BY <5>1, <6>1 DEF Written
        <5> QED
          BY <5>1, <5>2, <5>3
      <4>4. There
        BY <3>1, <4>1, <4>3 DEF ArchiveInv, PartsAreThere, Attempts!MayGoOn, Attempts!Owns
      <4> QED
        BY <4>2, <4>4
    <3>2. CASE Attempts!Stops(x) \/ Attempts!Returns(x)
      BY <1>14, <1>15, <1>16, <3>2
    <3> QED
      BY <2>6, <3>1, <3>2 DEF Attempts!RecordPart
  <2>7. CASE Attempts!MarkReady(x) \/ Attempts!DeleteUploaded(x) \/ Attempts!ExecDies(x)
    <3>1. CASE Attempts!Stops(x) \/ Attempts!Returns(x)
      BY <1>14, <1>15, <1>16, <3>1
    <3>2. CASE Attempts!Fails(x) /\ Attempts!MarkReady(x)
      BY <1>17, <3>2 DEF Attempts!MarkReady
    <3>3. CASE Attempts!ExecDies(x)
      <4>1. callback'[x].pc = "idle"
        BY <1>2, <3>3 DEF Attempts!ExecDies, Attempts!IdleExec
      <4> QED
        BY <1>14, <4>1
    <3> QED
      BY <2>7, <3>1, <3>2, <3>3 DEF Attempts!MarkReady, Attempts!DeleteUploaded
  <2> QED
    BY <2>1, <2>2, <2>3, <2>4, <2>5, <2>6, <2>7 DEF Attempts!ExecStep
<1> HIDE DEF Runs, There
<1>19. CallbackRuns'
  <2>1. \A y \in Callbacks \ {x} : callback'[y].pc = "idle"
    BY <1>3, <1>4
  <2> QED
    BY <1>18, <2>1 DEF CallbackRuns, Runs
<1>20. PartsAreThere'
  <2>1. \A y \in Callbacks \ {x} : Written(y)' = 0
    BY <1>3, <1>4 DEF Written
  <2> QED
    BY <1>18, <2>1 DEF PartsAreThere, There, Attempts!Artifacts
<1> QED
  BY <1>1, <1>5, <1>8, <1>11, <1>12, <1>13, <1>19, <1>20 DEF ArchiveInv

LEMMA CleanupKeeps == Attempts!ExportSizes /\ ArchiveInv /\ (Attempts!CleanerStep \/ Attempts!CleanerDies) => ArchiveInv'
<1> SUFFICES ASSUME Attempts!ExportSizes, ArchiveInv, Attempts!CleanerStep \/ Attempts!CleanerDies PROVE ArchiveInv'
  OBVIOUS
<1> USE JobFields, JobMoves
<1>1. /\ Attempts!TypeOK /\ JobTyped(archive) /\ objects \subseteq Attempts!Objects
      /\ cleaner \in [pc: {"idle", "delete", "clear"}, attempt: Attempts!Attempts]
      /\ Attempts!IdleCleaner \in [pc: {"idle", "delete", "clear"}, attempt: Attempts!Attempts]
      /\ archive \in Job /\ archive.attempt \in Attempts!Attempts
  BY Typing, IdleTypes DEF ArchiveInv, Attempts!IdleCleaner, Job
<1>2. UNCHANGED <<eventLive, linksOver, attemptOf, callback, retrier>>
  BY DEF Attempts!CleanerStep, Attempts!TakeExpired, Attempts!DeleteExpired, Attempts!ClearInventory, Attempts!CleanerDies
\* The row stays, expires, or forgets what its expired attempt had.
<1>3. \/ UNCHANGED archive
      \/ archive.state = "ready" /\ archive' = [archive EXCEPT !.state = "expired"]
      \/ Attempts!SameExpiry /\ cleaner.pc = "clear" /\ archive' = [archive EXCEPT !.recorded = FALSE]
  BY DEF Attempts!CleanerStep, Attempts!TakeExpired, Attempts!DeleteExpired, Attempts!ClearInventory, Attempts!CleanerDies
<1>4. /\ archive'.attempt = archive.attempt /\ archive'.owned = archive.owned
      /\ archive'.state # archive.state => archive.state = "ready" /\ archive'.state = "expired"
      /\ archive'.state \in {"none", "queued", "running", "ready", "failed"} => archive' = archive
  BY <1>1, <1>3 DEF Job, Attempts!SameExpiry
\* What is deleted is of an attempt that is not the row's, or that has expired.
<1>5. /\ objects' \subseteq objects
      /\ \A k \in objects \ objects' : k[1] = archive.attempt => archive.state = "expired" /\ archive' = archive
  <2>1. CASE Attempts!DeleteExpired
    BY <1>1, <2>1 DEF Attempts!DeleteExpired, ArchiveInv, CleanupIsOfExpired, Attempts!Prefix
  <2>2. CASE ~Attempts!DeleteExpired
    BY <2>2 DEF Attempts!CleanerStep, Attempts!TakeExpired, Attempts!ClearInventory, Attempts!CleanerDies
  <2> QED
    BY <2>1, <2>2
<1>6. Attempts!TypeOK'
  <2>1. JobTyped(archive')
    BY <1>1, <1>3 DEF Attempts!SameExpiry
  <2>2. cleaner' \in [pc: {"idle", "delete", "clear"}, attempt: Attempts!Attempts]
    BY <1>1 DEF Attempts!CleanerStep, Attempts!TakeExpired, Attempts!DeleteExpired, Attempts!ClearInventory, Attempts!CleanerDies
  <2> QED
    BY <1>1, <1>2, <1>5, <2>1, <2>2 DEF Attempts!TypeOK, JobTyped, Job
<1>7. UnclaimedIsNobodys' /\ OneCallback'
  BY <1>2, <1>4 DEF ArchiveInv, UnclaimedIsNobodys, OneCallback
<1>8. RetriesLookBack'
  BY <1>2, <1>4, RetriesStayBehind
<1>9. CallbackRuns'
  BY <1>2, <1>4 DEF ArchiveInv, CallbackRuns
<1>10. PartsAreThere'
  <2> SUFFICES ASSUME NEW x \in Callbacks, Attempts!Owns(x)', NEW i \in Attempts!Artifacts, i <= Written(x)'
               PROVE  <<callback'[x].attempt, i>> \in objects'
    BY DEF PartsAreThere
  <2>1. Attempts!Owns(x) /\ Written(x)' = Written(x)
    BY <1>2, <1>4 DEF Attempts!Owns, Written
  <2>2. <<callback[x].attempt, i>> \in objects
    BY <2>1 DEF ArchiveInv, PartsAreThere
  <2> QED
    BY <1>2, <1>5, <2>1, <2>2 DEF Attempts!Owns
<1>11. Attempts!ReadyComplete'
  BY <1>4, <1>5 DEF ArchiveInv, Attempts!ReadyComplete, Attempts!Prefix
<1>12. CleanupIsOfExpired' /\ Attempts!ExpiredRemembered'
  <2>1. CASE Attempts!TakeExpired
    <3>1. cleaner'.pc = "delete" /\ cleaner'.attempt = archive.attempt /\ archive'.state = "expired" /\ UNCHANGED objects
          /\ archive'.recorded
      BY <1>1, <2>1 DEF Attempts!TakeExpired, Attempts!Retained, Job, JobTyped
    <3> QED
      BY <1>1, <1>4, <3>1 DEF CleanupIsOfExpired, Attempts!ExpiredRemembered
  <2>2. CASE Attempts!DeleteExpired
    <3>1. cleaner'.pc = "clear" /\ cleaner'.attempt = cleaner.attempt /\ UNCHANGED archive
          /\ objects' = objects \ Attempts!Prefix(cleaner.attempt) /\ cleaner.pc # "idle"
      BY <1>1, <2>2 DEF Attempts!DeleteExpired
    <3> QED
      BY <1>1, <3>1 DEF ArchiveInv, CleanupIsOfExpired, Attempts!ExpiredRemembered
  <2>3. CASE Attempts!ClearInventory \/ Attempts!CleanerDies
    <3>1. cleaner'.pc = "idle" /\ UNCHANGED objects
      BY <2>3 DEF Attempts!ClearInventory, Attempts!CleanerDies, Attempts!IdleCleaner
    <3>2. archive' = archive \/ (Attempts!SameExpiry /\ cleaner.pc = "clear")
      BY <2>3 DEF Attempts!ClearInventory, Attempts!CleanerDies
    <3> QED
      BY <1>4, <3>1, <3>2 DEF ArchiveInv, CleanupIsOfExpired, Attempts!ExpiredRemembered, Attempts!SameExpiry
  <2> QED
    BY <2>1, <2>2, <2>3 DEF Attempts!CleanerStep
<1> QED
  BY <1>6, <1>7, <1>8, <1>9, <1>10, <1>11, <1>12 DEF ArchiveInv

LEMMA SurroundingsKeep == Attempts!ExportSizes /\ ArchiveInv /\ (Attempts!LinksEnd \/ Attempts!EventDeleted \/ UNCHANGED Attempts!vars) => ArchiveInv'
<1> SUFFICES ASSUME Attempts!ExportSizes, ArchiveInv, Attempts!LinksEnd \/ Attempts!EventDeleted \/ UNCHANGED Attempts!vars PROVE ArchiveInv'
  OBVIOUS
<1>1. JobStep /\ UNCHANGED <<objects, attemptOf, callback, retrier, cleaner>>
      /\ eventLive' \in {eventLive, FALSE} /\ linksOver' \in {linksOver, TRUE}
  BY DEF Attempts!LinksEnd, Attempts!EventDeleted, JobStep, Attempts!vars
<1>2. Attempts!TypeOK'
  <2>1. JobTyped(archive')
    BY JobMoves, Typing DEF Attempts!LinksEnd, Attempts!EventDeleted, Attempts!vars, ArchiveInv
  <2> QED
    BY <1>1, <2>1, Typing DEF Attempts!TypeOK, JobTyped, Job, ArchiveInv
<1>3. archive'.attempt = archive.attempt
  BY JobFields DEF Attempts!LinksEnd, Attempts!EventDeleted, Attempts!vars, ArchiveInv, Job
<1>4. RetriesLookBack'
  BY <1>1, <1>3, RetriesStayBehind
<1> QED
  BY <1>1, <1>2, <1>4, JobStepKeeps DEF ArchiveInv

LEMMA ArchiveStarts == Attempts!ExportSizes /\ Attempts!Init => ArchiveInv
<1> SUFFICES ASSUME Attempts!ExportSizes, Attempts!Init PROVE ArchiveInv
  OBVIOUS
<1> USE DEF Attempts!Init
<1>1. Attempts!TypeOK
  <2>1. JobTyped(archive)
    BY IdleTypes DEF JobTyped, Job, Attempts!ExportSizes
  <2> QED
    BY <2>1, Typing, IdleTypes DEF Attempts!IdleCleaner
<1>2. UnclaimedIsNobodys /\ RetriesLookBack /\ OneCallback /\ CallbackRuns
  BY DEF UnclaimedIsNobodys, RetriesLookBack, OneCallback, CallbackRuns, Attempts!IdleExec, Attempts!IdleHandler
<1>3. PartsAreThere /\ CleanupIsOfExpired /\ Attempts!ReadyComplete /\ Attempts!ExpiredRemembered
  BY DEF PartsAreThere, Attempts!Owns, CleanupIsOfExpired, Attempts!IdleCleaner, Attempts!ReadyComplete, Attempts!ExpiredRemembered
<1> QED
  BY <1>1, <1>2, <1>3 DEF ArchiveInv

LEMMA ArchiveGoesOn == Attempts!ExportSizes /\ ~Overlap /\ ArchiveInv /\ [Attempts!Next]_Attempts!vars => ArchiveInv'
BY HandlersKeep, CallbacksKeep, CleanupKeeps, SurroundingsKeep DEF Attempts!Next, Attempts!Sound, Attempts!Fault

\* A ready export has all of its archives in R2, and an expired one that has none
\* on its row has none left there, whatever was retried, cleared or abandoned before:
\* retries, callbacks (src/worker/workflows/export.ts) and the cron each delete only
\* of an attempt the row has left, or that they run, or that has expired.
THEOREM ArchiveIsSound == ASSUME ~Overlap PROVE Attempts!Spec => []ArchivesSound
<1>1. Attempts!Init => ArchiveInv
  BY ArchiveSizes, ArchiveStarts
<1>2. ArchiveInv /\ [Attempts!Next]_Attempts!vars => ArchiveInv'
  BY ArchiveSizes, ArchiveGoesOn
<1>3. ArchiveInv => ArchivesSound
  BY DEF ArchiveInv, ArchivesSound, Attempts!ArchivesSound
<1> QED
  BY <1>1, <1>2, <1>3, PTL DEF Attempts!Spec
=============================================================================
