------------------------- MODULE CoverBackfillProofs -------------------------
(***************************************************************************)
(* What the conversion of old covers keeps to, for any jobs, any number of *)
(* overlapping passes and any budgets.                                     *)
(*                                                                         *)
(* That a cover is not written off while it can be converted rests on what *)
(* an instance knows.  One that is past its profiles finds all of them     *)
(* rendered, or its job over (Carried), so that the inventory it checks is *)
(* never short of one.  A run that refuses found the fence not open, and   *)
(* its refusal is recorded only at the generation it read; and a fence is  *)
(* blocked only when the event is deleted.                                 *)
(*                                                                         *)
(* An instance may be restarted under its own work only by a pass that     *)
(* found it ended.  While that pass calls, the instance still has ended,   *)
(* the claim is pending, and every other pass on the job is a call that is *)
(* no longer current (PassKept): so no step of an instance meets it, and   *)
(* nobody looks at the job to claim it again.                              *)
(*                                                                         *)
(* The budgets hold because an instance that converts is of a job that is  *)
(* charged (WorksCharged), and a claim, which is refused when its budget   *)
(* is spent, is the only step that charges.  The purge of a deleted event  *)
(* settles jobs whose instance has not noticed yet; that is why the bounds *)
(* are claimed of runs in which no event is deleted.                       *)
(***************************************************************************)
EXTENDS CoverBackfill, FiniteSetTheorems, TLAPS

-----------------------------------------------------------------------------
(* The invariant.                                                           *)

JobRow == [status: JobStatus, dispatch: Dispatch, young: BOOLEAN, recent: BOOLEAN, late: BOOLEAN]
RunRow == [pc: {"off", "preflight", "fence", "refuse", "skip", "start", "normalize", "freeze", "profile",
                "finalize", "checkpoint", "commit", "done"},
           fresh: BOOLEAN, legacy: BOOLEAN, status: JobStatus, dispatch: Dispatch, next: 1..(Profiles + 1)]
PassRow == [pc: {"idle", "look", "record", "claim", "call", "confirm"},
            job: Jobs \cup {NoJob}, status: JobStatus, dispatch: Dispatch, held: BOOLEAN,
            legacy: BOOLEAN, fresh: BOOLEAN, found: {"active", "paused", "failed"} \cup Ended, target: ClaimState]

\* TypeOK, with a name for each kind of row.
Types ==
    /\ ledger \in {"executing", "verified", "failed"}
    /\ job \in [Jobs -> JobRow] /\ fence \in [Jobs -> {"none", "open", "blocked"}]
    /\ set \in [Jobs -> {"none", "staging", "ready", "active", "abandoned"}]
    /\ rendered \in [Jobs -> SUBSET Slots]
    /\ source \in [Jobs -> {"legacy", "replaced", "deleted", "converted"}]
    /\ platform \in [Jobs -> {"absent", "active", "paused"} \cup Ended]
    /\ run \in [Jobs -> RunRow] /\ operator \in [Jobs -> {"idle", "claimed", "launched"}]
    /\ pass \in [Passes -> PassRow]

\* The first n profiles are rendered, or the job wants none any more.
Over == {"failed", "applied", "skipped", "resolved", "needs_replacement"}
Carried(j, n) ==
    job[j].status \in Over \/ (job[j].status \in {"rendering", "finalizing"} /\ 1..n \subseteq rendered[j])

\* What a job says of its fence, its set and its profiles; a closed run has none open.
JobKept(j) ==
    /\ job[j].status \in Nonterminal => ~job[j].late
    /\ ledger # "executing" => job[j].status \notin Nonterminal /\ (job[j].status = "retryable" => job[j].late)
    /\ fence[j] = "blocked" => source[j] = "deleted"
    /\ job[j].dispatch # "pending" => fence[j] # "none"
    /\ job[j].status \in {"rendering", "finalizing"} => set[j] # "none"
    /\ job[j].status = "finalizing" => rendered[j] = Slots
\* What an instance knows of its job.
RunKept(j) ==
    /\ platform[j] \in Ended => run[j].pc = "off"
    /\ run[j].pc = "refuse" /\ run[j].fresh => fence[j] # "open"
    /\ run[j].pc = "freeze" => run[j].status = "normalizing" /\ run[j].next = 1
    /\ run[j].pc = "profile" => Carried(j, run[j].next - 1)
    /\ run[j].pc \in {"finalize", "checkpoint", "commit"} => Carried(j, Profiles)
    /\ run[j].pc = "checkpoint" => run[j].status \in {"rendering", "finalizing"}

\* What a pass knows, and that a restart is alone with its job.
Restarting(p) == pass[p].pc = "call" /\ pass[p].target = "restarting"
Pending(j) ==
    \/ job[j].dispatch = "restarting" /\ job[j].young /\ job[j].status \in Nonterminal
    \/ source[j] = "deleted" /\ job[j].dispatch \notin {"creating", "pending"}
PassKept(p) ==
    /\ pass[p].pc = "idle" => pass[p].job = NoJob
    /\ pass[p].pc # "idle" => pass[p].job \in Jobs /\ ~job[pass[p].job].late
    /\ pass[p].pc = "record" => pass[p].target = "restarting"
    /\ pass[p].pc \in {"record", "claim", "call"} /\ pass[p].target = "restarting" => platform[pass[p].job] \in Ended
    /\ Restarting(p) =>
         /\ Pending(pass[p].job)
         /\ \A q \in Passes \ {p} : pass[q].job = pass[p].job =>
              pass[q].pc = "call" /\ pass[q].target # "restarting" /\ ~pass[q].fresh

JobsKept == \A j \in Jobs : JobKept(j) /\ RunKept(j)
PassesKept == \A p \in Passes : PassKept(p)
BackfillInv == Types /\ JobsKept /\ PassesKept

LEMMA BackfillStarts == BackfillBounds /\ Init => BackfillInv
<1> SUFFICES ASSUME BackfillBounds, Init PROVE BackfillInv
  OBVIOUS
<1> USE DEF Init, IdleRun, IdlePass
<1>1. Types
  BY DEF Types, JobRow, RunRow, PassRow, JobStatus, Nonterminal, Dispatch, Live, ClaimState,
     BackfillBounds, Ended
<1>2. JobsKept
  BY DEF JobsKept, JobKept, RunKept, Nonterminal, Ended
<1>3. PassesKept
  BY DEF PassesKept, PassKept, Restarting
<1> QED
  BY <1>1, <1>2, <1>3 DEF BackfillInv

\* A step of an instance leaves the passes alone, and no pass restarts it.
LEMMA RunFrame ==
    ASSUME BackfillBounds, BackfillInv, NEW j \in Jobs, platform[j] = "active", Types',
           UNCHANGED <<ledger, fence, platform, operator, pass>>,
           \A k \in Jobs \ {j} : /\ job'[k] = job[k] /\ set'[k] = set[k] /\ rendered'[k] = rendered[k]
                                 /\ source'[k] = source[k] /\ run'[k] = run[k],
           JobKept(j)', RunKept(j)', job'[j].late => job[j].late
    PROVE  BackfillInv'
<1>1. JobsKept'
  <2> SUFFICES ASSUME NEW k \in Jobs, k # j PROVE JobKept(k)' /\ RunKept(k)'
    BY DEF JobsKept
  <2>1. JobKept(k) /\ RunKept(k)
    BY DEF BackfillInv, JobsKept
  <2> QED
    BY <2>1 DEF JobKept, RunKept, Carried
<1>2. PassesKept'
  <2> SUFFICES ASSUME NEW p \in Passes PROVE PassKept(p)'
    BY DEF PassesKept
  <2>1. PassKept(p)
    BY DEF BackfillInv, PassesKept
  <2> QED
    BY <2>1 DEF PassKept, Restarting, Pending, Ended
<1> QED
  BY <1>1, <1>2 DEF BackfillInv

-----------------------------------------------------------------------------
(* The steps of an instance.                                               *)

RunPcs == {"off", "preflight", "fence", "refuse", "skip", "start", "normalize", "freeze", "profile",
           "finalize", "checkpoint", "commit", "done"}

\* The run of j is as this says, and every other as it was.
RunMoves(j, pc, fresh, status, next) ==
    /\ run' \in [Jobs -> RunRow] /\ \A k \in Jobs \ {j} : run'[k] = run[k]
    /\ run'[j].pc = pc /\ run'[j].fresh = fresh /\ run'[j].status = status /\ run'[j].next = next

LEMMA RestRows ==
    ASSUME BackfillBounds
    PROVE  /\ IdleRun \in RunRow /\ IdleRun.pc = "off"
           /\ \A pc \in RunPcs : [IdleRun EXCEPT !.pc = pc] \in RunRow /\ [IdleRun EXCEPT !.pc = pc].pc = pc
<1>1. IdleRun \in RunRow /\ IdleRun.pc = "off"
  BY DEF IdleRun, RunRow, BackfillBounds, JobStatus, Nonterminal, Dispatch
<1> QED
  BY <1>1 DEF RunRow, RunPcs

LEMMA RunEndsDone ==
    ASSUME BackfillBounds, BackfillInv, NEW j \in Jobs, Ends(j)
    PROVE  run' \in [Jobs -> RunRow] /\ (\A k \in Jobs \ {j} : run'[k] = run[k]) /\ run'[j].pc = "done"
<1>1. [IdleRun EXCEPT !.pc = "done"] \in RunRow /\ [IdleRun EXCEPT !.pc = "done"].pc = "done"
  BY RestRows DEF RunPcs
<1> QED
  BY <1>1 DEF Ends, BackfillInv, Types

LEMMA RunRestarts ==
    ASSUME BackfillBounds, BackfillInv, NEW j \in Jobs, Restarts(j)
    PROVE  run' \in [Jobs -> RunRow] /\ (\A k \in Jobs \ {j} : run'[k] = run[k]) /\ run'[j].pc = "finalize"
<1>1. [IdleRun EXCEPT !.pc = "finalize"] \in RunRow /\ [IdleRun EXCEPT !.pc = "finalize"].pc = "finalize"
  BY RestRows DEF RunPcs
<1> QED
  BY <1>1 DEF Restarts, BackfillInv, Types

LEMMA RunGoes ==
    ASSUME BackfillInv, NEW j \in Jobs, NEW pc \in RunPcs, Goes(j, pc)
    PROVE  RunMoves(j, pc, run[j].fresh, run[j].status, run[j].next)
BY DEF Goes, RunMoves, BackfillInv, Types, RunRow, RunPcs

LEMMA SeenRow ==
    ASSUME BackfillBounds, BackfillInv, NEW j \in Jobs, NEW pc \in RunPcs
    PROVE  /\ Seen(j) \in RunRow /\ Seen(j).fresh = TRUE /\ Seen(j).status = job[j].status
           /\ Seen(j).dispatch = job[j].dispatch
           /\ [Seen(j) EXCEPT !.pc = pc] \in RunRow /\ [Seen(j) EXCEPT !.pc = pc].pc = pc
           /\ [Seen(j) EXCEPT !.pc = pc].fresh = TRUE /\ [Seen(j) EXCEPT !.pc = pc].next = 1
           /\ [Seen(j) EXCEPT !.pc = pc].status = job[j].status
<1> DEFINE legacy == (source[j] = "legacy")
<1>1. legacy \in BOOLEAN /\ job[j] \in JobRow
  BY DEF BackfillInv, Types
<1>2. Seen(j) = [pc |-> "off", fresh |-> TRUE, legacy |-> legacy,
                 status |-> job[j].status, dispatch |-> job[j].dispatch, next |-> 1]
  BY DEF Seen
<1> HIDE DEF legacy
<1>3. /\ Seen(j) \in RunRow /\ Seen(j).fresh = TRUE /\ Seen(j).status = job[j].status
      /\ Seen(j).dispatch = job[j].dispatch /\ Seen(j).next = 1
  BY <1>1, <1>2 DEF RunRow, JobRow, BackfillBounds
<1> QED
  BY <1>3 DEF RunRow, RunPcs

LEMMA RunReads ==
    ASSUME BackfillBounds, BackfillInv, NEW j \in Jobs, NEW pc \in RunPcs, Reads(j, pc)
    PROVE  RunMoves(j, pc, TRUE, job[j].status, 1)
<1> DEFINE row == [Seen(j) EXCEPT !.pc = pc]
<1>1. /\ row \in RunRow /\ row.pc = pc /\ row.fresh = TRUE /\ row.next = 1 /\ row.status = job[j].status
  BY SeenRow
<1>2. run' = [run EXCEPT ![j] = row]
  BY DEF Reads
<1> HIDE DEF row
<1> QED
  BY <1>1, <1>2 DEF RunMoves, BackfillInv, Types

\* What recordTerminal may do to a job and its set.
Recorded(j, status, seen) ==
    /\ job' \in [Jobs -> JobRow] /\ \A k \in Jobs \ {j} : job'[k] = job[k] /\ set'[k] = set[k]
    /\ set' \in [Jobs -> {"none", "staging", "ready", "active", "abandoned"}]
    /\ \/ job'[j] = job[j] /\ set'[j] = set[j]
       \/ /\ seen.fresh /\ job[j].status = seen.status /\ job[j].status # "failed" /\ fence[j] = "open"
          /\ job'[j].status = status /\ ~job'[j].late /\ job'[j].dispatch = job[j].dispatch
          /\ job'[j].recent = job[j].recent

LEMMA TerminalRecords ==
    ASSUME BackfillInv, NEW j \in Jobs, NEW seen, NEW status \in Over \cup {"retryable"},
           RecordTerminal(j, status, seen)
    PROVE  Recorded(j, status, seen)
<1>1. CASE UNCHANGED <<job, set>>
  BY <1>1 DEF Recorded, BackfillInv, Types
<1>2. CASE /\ seen.fresh /\ job[j].status = seen.status /\ job[j].status # "failed" /\ fence[j] = "open"
           /\ job' = [job EXCEPT ![j].status = status, ![j].late = FALSE]
           /\ set' = [set EXCEPT ![j] = IF @ \in {"staging", "ready"} THEN "abandoned" ELSE @]
  <2>1. /\ job' \in [Jobs -> JobRow] /\ \A k \in Jobs \ {j} : job'[k] = job[k]
        /\ job'[j].status = status /\ ~job'[j].late /\ job'[j].dispatch = job[j].dispatch
        /\ job'[j].recent = job[j].recent
    BY <1>2 DEF BackfillInv, Types, JobRow, JobStatus, Over
  <2>2. /\ set' \in [Jobs -> {"none", "staging", "ready", "active", "abandoned"}]
        /\ \A k \in Jobs \ {j} : set'[k] = set[k]
    BY <1>2 DEF BackfillInv, Types
  <2> QED
    BY <1>2, <2>1, <2>2 DEF Recorded
<1> QED
  BY <1>1, <1>2 DEF RecordTerminal

\* A run that records an end and is done.
LEMMA RecordsAndEnds ==
    ASSUME BackfillBounds, BackfillInv, NEW j \in Jobs, NEW seen, NEW status \in Over \cup {"retryable"},
           platform[j] = "active", RecordTerminal(j, status, seen), Ends(j), OnlyJob,
           status = "retryable" => seen.status \in Nonterminal
    PROVE  BackfillInv'
<1>1. Recorded(j, status, seen)
  BY TerminalRecords
<1>2. run' \in [Jobs -> RunRow] /\ (\A k \in Jobs \ {j} : run'[k] = run[k]) /\ run'[j].pc = "done"
  BY RunEndsDone
<1>3. UNCHANGED <<ledger, rendered, source, fence, platform, operator, pass>>
  BY DEF OnlyJob, others
<1>4. Types'
  BY <1>1, <1>2, <1>3 DEF BackfillInv, Types, Recorded
<1>5. JobKept(j)
  BY DEF BackfillInv, JobsKept
<1>6. JobKept(j)' /\ (job'[j].late => job[j].late)
  BY <1>1, <1>3, <1>5 DEF Recorded, JobKept, Over, Nonterminal
<1>7. RunKept(j)'
  BY <1>2, <1>3 DEF RunKept, Ended
<1> QED
  BY <1>1, <1>2, <1>3, <1>4, <1>6, <1>7, RunFrame DEF Recorded

LEMMA RefuseKeeps ==
    ASSUME BackfillBounds, BackfillInv, NEW j \in Jobs, Refuse(j)
    PROVE  BackfillInv'
BY RecordsAndEnds DEF Refuse, At, Over
LEMMA SkipKeeps == ASSUME BackfillBounds, BackfillInv, NEW j \in Jobs, Skip(j) PROVE BackfillInv'
BY RecordsAndEnds DEF Skip, At, Over
LEMMA UnsupportedKeeps ==
    ASSUME BackfillBounds, BackfillInv, NEW j \in Jobs, Unsupported(j)
    PROVE  BackfillInv'
BY RecordsAndEnds DEF Unsupported, At, Over
LEMMA NormalizeFailsKeeps ==
    ASSUME BackfillBounds, BackfillInv, NEW j \in Jobs, NormalizeFails(j)
    PROVE  BackfillInv'
<1>1. run[j].status \in Nonterminal
  BY DEF NormalizeFails, At, BackfillInv, JobsKept, RunKept, Nonterminal
<1> QED
  BY <1>1, RecordsAndEnds DEF NormalizeFails, At

\* The job's status moves on; nothing else of it does.
Advanced(j, status) ==
    /\ job' \in [Jobs -> JobRow] /\ \A k \in Jobs \ {j} : job'[k] = job[k]
    /\ job'[j].status = status /\ job'[j].late = job[j].late /\ job'[j].dispatch = job[j].dispatch
    /\ job'[j].recent = job[j].recent

LEMMA StatusAdvances ==
    ASSUME BackfillInv, NEW j \in Jobs, NEW status \in JobStatus, job' = [job EXCEPT ![j].status = status]
    PROVE  Advanced(j, status)
BY DEF Advanced, BackfillInv, Types, JobRow

\* confirmCoverBackfillDispatch, of any claim.
Confirmed(j, from) ==
    /\ job' \in [Jobs -> JobRow] /\ \A k \in Jobs \ {j} : job'[k] = job[k]
    /\ job'[j].late => job[j].late
    /\ \/ job'[j] = job[j]
       \/ fence[j] = "blocked" /\ job'[j].status = "failed" /\ job'[j].dispatch = "blocked"
       \/ /\ fence[j] = "open" /\ job[j].dispatch = from /\ job'[j].dispatch = "confirmed"
          /\ job'[j].status = job[j].status /\ job'[j].late = job[j].late /\ job'[j].young = job[j].young
          /\ job'[j].recent = job[j].recent

LEMMA BlockedRow ==
    ASSUME BackfillInv, NEW j \in Jobs, job' = Blocked(j)
    PROVE  /\ job' \in [Jobs -> JobRow] /\ \A k \in Jobs \ {j} : job'[k] = job[k]
           /\ job'[j].status = "failed" /\ job'[j].dispatch = "blocked" /\ ~job'[j].late
<1>1. "failed" \in JobStatus /\ "blocked" \in Dispatch
  BY DEF JobStatus, Dispatch
<1>2. job[j] \in JobRow /\ job \in [Jobs -> JobRow]
  BY DEF BackfillInv, Types
<1>3. job' = [k \in Jobs |-> job'[k]] /\ \A k \in Jobs \ {j} : job'[k] = job[k]
  BY <1>2 DEF Blocked
<1>4. job'[j] = [status |-> "failed", dispatch |-> "blocked", young |-> job[j].young,
                 recent |-> job[j].recent, late |-> FALSE]
  BY <1>2 DEF Blocked, JobRow
<1>5. job'[j] \in JobRow
  BY <1>1, <1>2, <1>4 DEF JobRow
<1>6. \A k \in Jobs : job'[k] \in JobRow
  BY <1>2, <1>3, <1>5
<1>7. job'[j].status = "failed" /\ job'[j].dispatch = "blocked" /\ ~job'[j].late
  BY <1>4
<1>8. job' \in [Jobs -> JobRow]
  BY <1>3, <1>6
<1> QED
  BY <1>3, <1>7, <1>8

LEMMA ConfirmsConfirmed ==
    ASSUME BackfillInv, NEW j \in Jobs, NEW from, Confirms(j, from)
    PROVE  Confirmed(j, from)
<1> USE DEF BackfillInv, Types, JobRow
<1>1. CASE job' = job
  BY <1>1 DEF Confirmed
<1>2. CASE fence[j] = "blocked" /\ job' = Blocked(j)
  BY <1>2, BlockedRow DEF Confirmed
<1>3. CASE fence[j] = "open" /\ job[j].dispatch = from /\ job' = [job EXCEPT ![j].dispatch = "confirmed"]
  BY <1>3 DEF Confirmed, Dispatch, Live
<1> QED
  BY <1>1, <1>2, <1>3 DEF Confirms

LEMMA ConfirmedKept ==
    ASSUME BackfillInv, NEW j \in Jobs, NEW from \in ClaimState, Confirmed(j, from), UNCHANGED <<ledger, fence, set, rendered, source>>
    PROVE  JobKept(j)'
<1>1. JobKept(j)
  BY DEF BackfillInv, JobsKept
<1> QED
  BY <1>1 DEF JobKept, Confirmed, Nonterminal, ClaimState

LEMMA PreflightKeeps ==
    ASSUME BackfillBounds, BackfillInv, NEW j \in Jobs, Preflight(j)
    PROVE  BackfillInv'
<1>1. UNCHANGED <<ledger, fence, set, rendered, source, platform, operator, pass>> /\ platform[j] = "active"
  BY DEF Preflight, OnlyJob, others, At
<1>2. Confirmed(j, "creating")
  BY ConfirmsConfirmed DEF Preflight
<1>3. JobKept(j)'
  BY <1>1, <1>2, ConfirmedKept DEF ClaimState
<1>4. run' \in [Jobs -> RunRow] /\ (\A k \in Jobs \ {j} : run'[k] = run[k]) /\ run'[j].pc \in {"fence", "done"}
  <2>1. CASE Ends(j)
    BY <2>1, RunEndsDone
  <2>2. CASE run' = [run EXCEPT ![j] = [Seen(j) EXCEPT !.pc = "fence", !.dispatch = job'[j].dispatch]]
    <3>1. Seen(j) \in RunRow
      BY SeenRow DEF RunPcs
    <3>2. job'[j].dispatch \in Dispatch
      BY <1>2 DEF Confirmed, JobRow
    <3>3. [Seen(j) EXCEPT !.pc = "fence", !.dispatch = job'[j].dispatch] \in RunRow
      BY <3>1, <3>2 DEF RunRow
    <3>4. [Seen(j) EXCEPT !.pc = "fence", !.dispatch = job'[j].dispatch].pc = "fence"
      BY <3>1 DEF RunRow
    <3> QED
      BY <2>2, <3>3, <3>4 DEF BackfillInv, Types
  <2> QED
    BY <2>1, <2>2 DEF Preflight
<1>5. RunKept(j)'
  BY <1>1, <1>4 DEF RunKept, Ended
<1>6. Types'
  BY <1>1, <1>2, <1>4 DEF BackfillInv, Types, Confirmed
<1> QED
  BY <1>1, <1>2, <1>3, <1>4, <1>5, <1>6, RunFrame DEF Confirmed

\* A run that only reads.
LEMMA RunAlone ==
    ASSUME BackfillBounds, BackfillInv, NEW j \in Jobs, platform[j] = "active", OnlyRun,
           run' \in [Jobs -> RunRow], \A k \in Jobs \ {j} : run'[k] = run[k], RunKept(j)'
    PROVE  BackfillInv'
<1>1. UNCHANGED <<ledger, rendered, source, job, fence, set, platform, operator, pass>>
  BY DEF OnlyRun, others, rows
<1>2. Types'
  BY <1>1 DEF BackfillInv, Types
<1>3. JobKept(j)'
  BY <1>1 DEF BackfillInv, JobsKept, JobKept
<1> QED
  BY <1>1, <1>2, <1>3, RunFrame

LEMMA ReadFenceKeeps ==
    ASSUME BackfillBounds, BackfillInv, NEW j \in Jobs, ReadFence(j)
    PROVE  BackfillInv'
<1>1. PICK pc \in {"refuse", "start", "skip"} :
         /\ Goes(j, pc) /\ (pc = "refuse" /\ run[j].fresh => fence[j] # "open")
  BY DEF ReadFence
<1>2. RunMoves(j, pc, run[j].fresh, run[j].status, run[j].next)
  BY <1>1, RunGoes DEF RunPcs
<1>3. OnlyRun /\ platform[j] = "active" /\ UNCHANGED <<platform, fence>>
  BY DEF ReadFence, At, OnlyRun, rows
<1>4. RunKept(j)'
  BY <1>1, <1>2, <1>3 DEF RunMoves, RunKept, Ended
<1> QED
  BY <1>2, <1>3, <1>4, RunAlone DEF RunMoves

LEMMA NormalizeKeeps ==
    ASSUME BackfillBounds, BackfillInv, NEW j \in Jobs, Normalize(j)
    PROVE  BackfillInv'
<1>1. OnlyRun /\ platform[j] = "active" /\ UNCHANGED <<platform, fence, job, rendered>>
  BY DEF Normalize, At, OnlyRun, rows, others
<1>2. CASE Ends(j)
  <2>1. run' \in [Jobs -> RunRow] /\ (\A k \in Jobs \ {j} : run'[k] = run[k]) /\ run'[j].pc = "done"
    BY <1>2, RunEndsDone
  <2>2. RunKept(j)'
    BY <1>1, <2>1 DEF RunKept, Ended
  <2> QED
    BY <1>1, <2>1, <2>2, RunAlone
<1>3. CASE job[j].status \in {"rendering", "finalizing"} /\ Reads(j, "profile")
  <2>1. RunMoves(j, "profile", TRUE, job[j].status, 1)
    BY <1>3, RunReads DEF RunPcs
  <2>2. RunKept(j)'
    BY <1>1, <1>3, <2>1 DEF RunMoves, RunKept, Ended, Carried
  <2> QED
    BY <1>1, <2>1, <2>2, RunAlone DEF RunMoves
<1>4. CASE job[j].status = "normalizing" /\ \E pc \in {"freeze", "skip"} : Reads(j, pc)
  <2>1. PICK pc \in {"freeze", "skip"} : Reads(j, pc)
    BY <1>4
  <2>2. RunMoves(j, pc, TRUE, job[j].status, 1)
    BY <2>1, RunReads DEF RunPcs
  <2>3. RunKept(j)'
    BY <1>1, <1>4, <2>2 DEF RunMoves, RunKept, Ended
  <2> QED
    BY <1>1, <2>2, <2>3, RunAlone DEF RunMoves
<1> QED
  BY <1>2, <1>3, <1>4 DEF Normalize

LEMMA FinalizeKeeps ==
    ASSUME BackfillBounds, BackfillInv, NEW j \in Jobs, Finalize(j)
    PROVE  BackfillInv'
<1>1. /\ OnlyRun /\ platform[j] = "active" /\ UNCHANGED <<platform, fence, job, rendered>>
      /\ run[j].pc = "finalize"
  BY DEF Finalize, At, OnlyRun, rows, others
<1>2. CASE Ends(j)
  <2>1. run' \in [Jobs -> RunRow] /\ (\A k \in Jobs \ {j} : run'[k] = run[k]) /\ run'[j].pc = "done"
    BY <1>2, RunEndsDone
  <2>2. RunKept(j)'
    BY <1>1, <2>1 DEF RunKept, Ended
  <2> QED
    BY <1>1, <2>1, <2>2, RunAlone
<1>3. CASE job[j].status \in {"rendering", "finalizing"} /\ \E pc \in {"skip", "commit", "checkpoint"} : Reads(j, pc)
  <2>1. PICK pc \in {"skip", "commit", "checkpoint"} : Reads(j, pc)
    BY <1>3
  <2>2. RunMoves(j, pc, TRUE, job[j].status, 1)
    BY <2>1, RunReads DEF RunPcs
  <2>3. Carried(j, Profiles)
    BY <1>1 DEF BackfillInv, JobsKept, RunKept
  <2>4. RunKept(j)'
    BY <1>1, <1>3, <2>2, <2>3 DEF RunMoves, RunKept, Ended, Carried
  <2> QED
    BY <1>1, <2>2, <2>4, RunAlone DEF RunMoves
<1> QED
  BY <1>2, <1>3 DEF Finalize

\* A step whose run goes on and whose job, set or manifest moves with it.
LEMMA RunWrites ==
    ASSUME BackfillBounds, BackfillInv, NEW j \in Jobs, platform[j] = "active",
           UNCHANGED <<ledger, source, fence, platform, operator, pass>>,
           job' \in [Jobs -> JobRow], set' \in [Jobs -> {"none", "staging", "ready", "active", "abandoned"}],
           rendered' \in [Jobs -> SUBSET Slots], run' \in [Jobs -> RunRow],
           \A k \in Jobs \ {j} : /\ job'[k] = job[k] /\ set'[k] = set[k] /\ rendered'[k] = rendered[k]
                                 /\ run'[k] = run[k],
           JobKept(j)', RunKept(j)', job'[j].late => job[j].late
    PROVE  BackfillInv'
<1>1. Types'
  BY DEF BackfillInv, Types
<1> QED
  BY <1>1, RunFrame

LEMMA StartKeeps == ASSUME BackfillBounds, BackfillInv, NEW j \in Jobs, Start(j) PROVE BackfillInv'
<1>1. UNCHANGED <<ledger, fence, set, rendered, source, platform, operator, pass>> /\ platform[j] = "active"
  BY DEF Start, OnlyJob, others, At
<1>2. JobKept(j) /\ job \in [Jobs -> JobRow]
  BY DEF BackfillInv, JobsKept, Types
<1>3. set' \in [Jobs -> {"none", "staging", "ready", "active", "abandoned"}] /\ rendered' \in [Jobs -> SUBSET Slots]
  BY <1>1 DEF BackfillInv, Types
<1>4. run' \in [Jobs -> RunRow] /\ (\A k \in Jobs \ {j} : run'[k] = run[k]) /\ run'[j].pc \in {"normalize", "done"}
  <2>1. CASE Ends(j)
    BY <2>1, RunEndsDone
  <2>2. CASE Goes(j, "normalize")
    BY <2>2, RunGoes DEF RunMoves, RunPcs
  <2> QED
    BY <2>1, <2>2 DEF Start
<1>5. /\ job' \in [Jobs -> JobRow] /\ \A k \in Jobs \ {j} : job'[k] = job[k]
      /\ JobKept(j)' /\ (job'[j].late => job[j].late)
  <2>1. CASE job' = job
    BY <1>1, <1>2, <2>1 DEF JobKept
  <2>2. CASE job[j].status \in {"queued", "normalizing"} /\ job' = [job EXCEPT ![j].status = "normalizing"]
    <3>1. Advanced(j, "normalizing")
      BY <2>2, StatusAdvances DEF JobStatus, Nonterminal
    <3> QED
      BY <1>1, <1>2, <2>2, <3>1 DEF Advanced, JobKept, Nonterminal
  <2> QED
    BY <2>1, <2>2 DEF Start
<1>6. RunKept(j)'
  BY <1>1, <1>4 DEF RunKept, Ended
<1> QED
  BY <1>1, <1>3, <1>4, <1>5, <1>6, RunWrites

LEMMA FreezeKeeps ==
    ASSUME BackfillBounds, BackfillInv, NEW j \in Jobs, Freeze(j)
    PROVE  BackfillInv'
<1>1. UNCHANGED <<ledger, fence, rendered, source, platform, operator, pass>> /\ platform[j] = "active" /\ run[j].pc = "freeze"
  BY DEF Freeze, OnlyJob, others, At
<1>2. /\ JobKept(j) /\ job \in [Jobs -> JobRow] /\ run[j].next = 1
      /\ set \in [Jobs -> {"none", "staging", "ready", "active", "abandoned"}]
  BY <1>1 DEF BackfillInv, JobsKept, Types, RunKept
<1>3. rendered' \in [Jobs -> SUBSET Slots]
  BY <1>1 DEF BackfillInv, Types
<1>4. CASE Ends(j) /\ UNCHANGED <<job, set>>
  <2>1. run' \in [Jobs -> RunRow] /\ (\A k \in Jobs \ {j} : run'[k] = run[k]) /\ run'[j].pc = "done"
    BY <1>4, RunEndsDone
  <2>2. JobKept(j)' /\ RunKept(j)'
    BY <1>1, <1>2, <1>4, <2>1 DEF JobKept, RunKept, Ended
  <2> QED
    BY <1>1, <1>2, <1>3, <1>4, <2>1, <2>2, RunWrites
<1>5. CASE /\ job[j].status = "normalizing" /\ job' = [job EXCEPT ![j].status = "rendering"]
           /\ set' = [set EXCEPT ![j] = "staging"] /\ Goes(j, "profile")
  <2>1. Advanced(j, "rendering")
    BY <1>5, StatusAdvances DEF JobStatus, Nonterminal
  <2>2. RunMoves(j, "profile", run[j].fresh, run[j].status, run[j].next)
    BY <1>5, RunGoes DEF RunPcs
  <2>3. /\ set' \in [Jobs -> {"none", "staging", "ready", "active", "abandoned"}] /\ set'[j] = "staging"
        /\ \A k \in Jobs \ {j} : set'[k] = set[k]
    BY <1>2, <1>5
  <2>4. JobKept(j)'
    BY <1>1, <1>2, <1>5, <2>1, <2>3 DEF Advanced, JobKept, Nonterminal
  <2>5. RunKept(j)'
    BY <1>1, <1>2, <2>1, <2>2 DEF Advanced, RunMoves, RunKept, Carried, Ended
  <2> QED
    BY <1>1, <1>3, <2>1, <2>2, <2>3, <2>4, <2>5, RunWrites DEF Advanced, RunMoves
<1> QED
  BY <1>4, <1>5 DEF Freeze

LEMMA ProfileKeeps ==
    ASSUME BackfillBounds, BackfillInv, NEW j \in Jobs, Profile(j)
    PROVE  BackfillInv'
<1>1. UNCHANGED <<ledger, fence, job, set, source, platform, operator, pass>> /\ platform[j] = "active" /\ run[j].pc = "profile"
  BY DEF Profile, rows, At
<1>2. /\ JobKept(j) /\ Carried(j, run[j].next - 1) /\ run[j].next \in 1..(Profiles + 1)
      /\ rendered \in [Jobs -> SUBSET Slots] /\ Profiles \in Nat
  BY <1>1 DEF BackfillInv, JobsKept, Types, RunKept, RunRow, BackfillBounds
<1>3. /\ job' \in [Jobs -> JobRow] /\ set' \in [Jobs -> {"none", "staging", "ready", "active", "abandoned"}]
      /\ \A k \in Jobs \ {j} : job'[k] = job[k] /\ set'[k] = set[k]
  BY <1>1 DEF BackfillInv, Types
<1>4. CASE run[j].next > Profiles /\ Restarts(j) /\ UNCHANGED rendered
  <2>1. run' \in [Jobs -> RunRow] /\ (\A k \in Jobs \ {j} : run'[k] = run[k]) /\ run'[j].pc = "finalize"
    BY <1>4, RunRestarts
  <2>2. run[j].next - 1 = Profiles
    BY <1>2, <1>4
  <2>3. JobKept(j)' /\ RunKept(j)'
    BY <1>1, <1>2, <1>4, <2>1, <2>2 DEF JobKept, RunKept, Carried, Ended
  <2> QED
    BY <1>1, <1>2, <1>3, <1>4, <2>1, <2>3, RunWrites
<1>5. CASE /\ run[j].next <= Profiles
           /\ rendered' = IF job[j].status = "rendering" THEN [rendered EXCEPT ![j] = @ \cup {run[j].next}] ELSE rendered
           /\ run' = [run EXCEPT ![j] = [IdleRun EXCEPT !.pc = "profile", !.next = run[j].next + 1]]
  <2> DEFINE n == run[j].next
  <2>1. n \in Slots /\ n + 1 \in 1..(Profiles + 1)
    BY <1>2, <1>5 DEF Slots
  <2>2. /\ [IdleRun EXCEPT !.pc = "profile", !.next = n + 1] \in RunRow
        /\ [IdleRun EXCEPT !.pc = "profile", !.next = n + 1].pc = "profile"
        /\ [IdleRun EXCEPT !.pc = "profile", !.next = n + 1].next = n + 1
    <3>1. IdleRun \in RunRow
      BY RestRows
    <3> HIDE DEF n
    <3> QED
      BY <2>1, <3>1 DEF RunRow
  <2>3. /\ run' \in [Jobs -> RunRow] /\ (\A k \in Jobs \ {j} : run'[k] = run[k])
        /\ run'[j].pc = "profile" /\ run'[j].next = n + 1
    BY <1>5, <2>2 DEF BackfillInv, Types
  <2>4. /\ rendered' \in [Jobs -> SUBSET Slots] /\ \A k \in Jobs \ {j} : rendered'[k] = rendered[k]
        /\ rendered[j] \subseteq rendered'[j] /\ (job[j].status = "rendering" => n \in rendered'[j])
    BY <1>2, <1>5, <2>1
  <2>5. JobKept(j)'
    BY <1>1, <1>2, <1>5, <2>4 DEF JobKept
  <2>6. \/ job'[j].status \in Over
        \/ job'[j].status \in {"rendering", "finalizing"} /\ 1..n \subseteq rendered'[j]
    <3>1. Carried(j, n - 1) /\ n \in Nat
      BY <1>2
    <3>2. 1..n = 1..(n - 1) \cup {n}
      BY <1>2
    <3>3. job[j].status = "finalizing" => 1..n \subseteq rendered'[j]
      BY <1>2, <2>1, <2>4 DEF JobKept, Slots
    <3> HIDE DEF n
    <3> QED
      BY <1>1, <2>4, <3>1, <3>2, <3>3 DEF Carried
  <2>7. RunKept(j)'
    <3>1. run'[j].next - 1 = n
      BY <1>2, <2>3
    <3> HIDE DEF n
    <3> QED
      BY <1>1, <2>3, <2>6, <3>1 DEF RunKept, Ended, Carried
  <2> QED
    BY <1>1, <1>3, <2>3, <2>4, <2>5, <2>7, RunWrites
<1> QED
  BY <1>2, <1>4, <1>5 DEF Profile

\* After a batch that did not commit.
LEMMA RefusedKeeps ==
    ASSUME BackfillBounds, BackfillInv, NEW j \in Jobs, platform[j] = "active", run[j].pc \in {"checkpoint", "commit"},
           Refused(j), OnlyJob
    PROVE  BackfillInv'
<1>1. CASE Ends(j) /\ UNCHANGED <<job, set>>
  <2>1. run' \in [Jobs -> RunRow] /\ (\A k \in Jobs \ {j} : run'[k] = run[k]) /\ run'[j].pc = "done"
    BY <1>1, RunEndsDone
  <2>2. UNCHANGED <<ledger, rendered, source, job, fence, set, platform, operator, pass>>
    BY <1>1 DEF OnlyJob, others
  <2>3. JobKept(j)' /\ RunKept(j)'
    BY <2>1, <2>2 DEF BackfillInv, JobsKept, JobKept, RunKept, Ended
  <2> QED
    BY <2>1, <2>2, <2>3, RunWrites DEF BackfillInv, Types
<1>2. CASE RecordTerminal(j, "skipped", Seen(j)) /\ Ends(j)
  BY <1>2, RecordsAndEnds DEF Over
<1>3. CASE Restarts(j) /\ UNCHANGED <<job, set>>
  <2>1. run' \in [Jobs -> RunRow] /\ (\A k \in Jobs \ {j} : run'[k] = run[k]) /\ run'[j].pc = "finalize"
    BY <1>3, RunRestarts
  <2>2. UNCHANGED <<ledger, rendered, source, job, fence, set, platform, operator, pass>>
    BY <1>3 DEF OnlyJob, others
  <2>3. JobKept(j)' /\ RunKept(j)'
    BY <2>1, <2>2 DEF BackfillInv, JobsKept, JobKept, RunKept, Ended, Carried
  <2> QED
    BY <2>1, <2>2, <2>3, RunWrites DEF BackfillInv, Types
<1> QED
  BY <1>1, <1>2, <1>3 DEF Refused

LEMMA CheckpointKeeps ==
    ASSUME BackfillBounds, BackfillInv, NEW j \in Jobs, Checkpoint(j)
    PROVE  BackfillInv'
<1>1. platform[j] = "active" /\ run[j].pc = "checkpoint" /\ OnlyJob
  BY DEF Checkpoint, At
<1>2. CASE RecordTerminal(j, "failed", run[j]) /\ Ends(j)
  BY <1>1, <1>2, RecordsAndEnds DEF Over
<1>3. CASE Refused(j)
  BY <1>1, <1>3, RefusedKeeps
<1>4. CASE /\ rendered[j] = Slots /\ job[j].status \in {"rendering", "finalizing"}
           /\ set' = [set EXCEPT ![j] = "ready"] /\ job' = [job EXCEPT ![j].status = "finalizing"]
           /\ Goes(j, "commit")
  <2>1. UNCHANGED <<ledger, fence, rendered, source, platform, operator, pass>>
    BY <1>1 DEF OnlyJob, others
  <2>2. Advanced(j, "finalizing")
    BY <1>4, StatusAdvances DEF JobStatus, Nonterminal
  <2>3. RunMoves(j, "commit", run[j].fresh, run[j].status, run[j].next)
    BY <1>4, RunGoes DEF RunPcs
  <2>4. /\ set' \in [Jobs -> {"none", "staging", "ready", "active", "abandoned"}] /\ set'[j] = "ready"
        /\ \A k \in Jobs \ {j} : set'[k] = set[k]
    BY <1>4 DEF BackfillInv, Types
  <2>5. JobKept(j)'
    BY <1>4, <2>1, <2>2, <2>4 DEF BackfillInv, JobsKept, JobKept, Advanced, Nonterminal
  <2>6. RunKept(j)'
    BY <1>1, <1>4, <2>1, <2>2, <2>3 DEF RunKept, RunMoves, Advanced, Carried, Slots, Ended
  <2>7. rendered' \in [Jobs -> SUBSET Slots]
    BY <2>1 DEF BackfillInv, Types
  <2> QED
    BY <1>1, <2>1, <2>2, <2>3, <2>4, <2>5, <2>6, <2>7, RunWrites DEF Advanced, RunMoves
<1> QED
  BY <1>2, <1>3, <1>4 DEF Checkpoint

LEMMA CommitKeeps ==
    ASSUME BackfillBounds, BackfillInv, NEW j \in Jobs, Commit(j)
    PROVE  BackfillInv'
<1>1. platform[j] = "active" /\ run[j].pc = "commit" /\ UNCHANGED <<ledger, fence, rendered, platform, operator, pass>>
  BY DEF Commit, At
<1>2. CASE Refused(j) /\ UNCHANGED source
  BY <1>1, <1>2, RefusedKeeps DEF OnlyJob, others
<1>3. CASE /\ Publish(j)
           /\ job' = [job EXCEPT ![j].status = "applied"] /\ set' = [set EXCEPT ![j] = "active"]
           /\ source' = [source EXCEPT ![j] = "converted"] /\ Ends(j)
  <2>1. Advanced(j, "applied")
    BY <1>3, StatusAdvances DEF JobStatus
  <2>2. run' \in [Jobs -> RunRow] /\ (\A k \in Jobs \ {j} : run'[k] = run[k]) /\ run'[j].pc = "done"
    BY <1>3, RunEndsDone
  <2>3. /\ set' \in [Jobs -> {"none", "staging", "ready", "active", "abandoned"}]
        /\ \A k \in Jobs \ {j} : set'[k] = set[k]
    BY <1>3 DEF BackfillInv, Types
  <2>4. /\ source' \in [Jobs -> {"legacy", "replaced", "deleted", "converted"}]
        /\ \A k \in Jobs \ {j} : source'[k] = source[k]
    BY <1>3 DEF BackfillInv, Types
  <2>5. fence[j] = "open"
    BY <1>3 DEF Publish, Admitted
  <2>6. JobKept(j)'
    BY <1>1, <2>1, <2>3, <2>5 DEF JobKept, Advanced, Nonterminal
  <2>7. RunKept(j)'
    BY <1>1, <2>2 DEF RunKept, Ended
  <2>8. Types'
    BY <1>1, <2>1, <2>2, <2>3, <2>4 DEF BackfillInv, Types, Advanced
  <2> QED
    BY <1>1, <2>1, <2>2, <2>3, <2>4, <2>6, <2>7, <2>8, RunFrame DEF Advanced
<1> QED
  BY <1>2, <1>3 DEF Commit

-----------------------------------------------------------------------------
(* The operator, the hosts, the settling of the passes, and time.          *)

\* A step of one job that no pass takes part in.
LEMMA JobFrame ==
    ASSUME BackfillBounds, BackfillInv, NEW j \in Jobs, Types', UNCHANGED <<ledger, pass>>,
           \A k \in Jobs \ {j} : /\ job'[k] = job[k] /\ set'[k] = set[k] /\ rendered'[k] = rendered[k]
                                 /\ source'[k] = source[k] /\ run'[k] = run[k] /\ fence'[k] = fence[k]
                                 /\ platform'[k] = platform[k],
           JobKept(j)', RunKept(j)', platform[j] \in Ended => platform'[j] \in Ended,
           job'[j].late => job[j].late \/ \A p \in Passes : pass[p].job # j,
           (\E p \in Passes : pass[p].job = j /\ Restarting(p)) => Pending(j)'
    PROVE  BackfillInv'
<1>1. JobsKept'
  <2> SUFFICES ASSUME NEW k \in Jobs, k # j PROVE JobKept(k)' /\ RunKept(k)'
    BY DEF JobsKept
  <2>1. JobKept(k) /\ RunKept(k)
    BY DEF BackfillInv, JobsKept
  <2> QED
    BY <2>1 DEF JobKept, RunKept, Carried
<1>2. PassesKept'
  <2> SUFFICES ASSUME NEW p \in Passes PROVE PassKept(p)'
    BY DEF PassesKept
  <2>1. PassKept(p)
    BY DEF BackfillInv, PassesKept
  <2>2. CASE pass[p].job = j
    BY <2>1, <2>2 DEF PassKept, Restarting
  <2>3. CASE pass[p].job # j
    BY <2>1, <2>3 DEF PassKept, Restarting, Pending
  <2> QED
    BY <2>2, <2>3
<1> QED
  BY <1>1, <1>2 DEF BackfillInv

LEMMA PendingHolds ==
    ASSUME BackfillInv, NEW j \in Jobs, \E p \in Passes : pass[p].job = j /\ Restarting(p)
    PROVE  Pending(j) /\ platform[j] \in Ended
BY DEF BackfillInv, PassesKept, PassKept, Restarting

LEMMA PlatformKeeps ==
    ASSUME BackfillBounds, BackfillInv, NEW j \in Jobs, RunEnds(j) \/ InstanceErrs(j) \/ InstancePaused(j)
    PROVE  BackfillInv'
<1>1. UNCHANGED <<ledger, rendered, source, job, fence, set, operator, pass>> /\ platform[j] = "active"
  BY DEF RunEnds, InstanceErrs, InstancePaused, others, rows, At
<1>2. IdleRun \in RunRow /\ IdleRun.pc = "off"
  BY RestRows
<1>3. /\ platform' \in [Jobs -> {"absent", "active", "paused"} \cup Ended] /\ \A k \in Jobs \ {j} : platform'[k] = platform[k]
      /\ run' \in [Jobs -> RunRow] /\ \A k \in Jobs \ {j} : run'[k] = run[k]
      /\ run'[j].pc = "off" \/ (run'[j] = run[j] /\ platform'[j] = "paused")
  BY <1>2 DEF RunEnds, InstanceErrs, InstancePaused, BackfillInv, Types, Ended
<1>4. Types'
  BY <1>1, <1>3 DEF BackfillInv, Types
<1>5. JobKept(j)' /\ RunKept(j)'
  BY <1>1, <1>3 DEF BackfillInv, JobsKept, JobKept, RunKept, Carried, Ended
<1> QED
  BY <1>1, <1>3, <1>4, <1>5, JobFrame, PendingHolds DEF Ended

\* A claim leaves the run where it is, and what it knows is outdated.
LEMMA RunStale ==
    ASSUME BackfillInv, NEW j \in Jobs, run' = [run EXCEPT ![j].fresh = FALSE]
    PROVE  RunMoves(j, run[j].pc, FALSE, run[j].status, run[j].next)
<1>1. run[j] \in RunRow /\ run \in [Jobs -> RunRow]
  BY DEF BackfillInv, Types
<1>2. run' = [k \in Jobs |-> run'[k]] /\ (\A k \in Jobs \ {j} : run'[k] = run[k]) /\ run'[j] = [run[j] EXCEPT !.fresh = FALSE]
  BY <1>1
<1>3. run'[j] = [pc |-> run[j].pc, fresh |-> FALSE, legacy |-> run[j].legacy, status |-> run[j].status,
                 dispatch |-> run[j].dispatch, next |-> run[j].next]
  BY <1>1, <1>2 DEF RunRow
<1>4. run'[j] \in RunRow
  BY <1>1, <1>3 DEF RunRow
<1>5. \A k \in Jobs : run'[k] \in RunRow
  BY <1>1, <1>2, <1>4
<1>6. run' \in [Jobs -> RunRow]
  BY <1>2, <1>5
<1> QED
  BY <1>2, <1>3, <1>6 DEF RunMoves

LEMMA OperatorClaimsKeeps ==
    ASSUME BackfillBounds, BackfillInv, NEW j \in Jobs, OperatorClaims(j) PROVE BackfillInv'
<1>1. /\ UNCHANGED <<ledger, rendered, source, set, platform, pass>> /\ ledger = "executing"
      /\ job[j].dispatch = "pending" /\ job[j].status = "queued" /\ source[j] # "deleted"
  BY DEF OperatorClaims, Claim, others
<1>2. /\ job' \in [Jobs -> JobRow] /\ \A k \in Jobs \ {j} : job'[k] = job[k]
      /\ job'[j].status = "queued" /\ job'[j].dispatch = "creating" /\ ~job'[j].late
  BY DEF OperatorClaims, Claim, BackfillInv, Types, JobRow, JobStatus, Nonterminal, Dispatch,
     Live, ClaimState
<1>3. /\ run' \in [Jobs -> RunRow] /\ \A k \in Jobs \ {j} : run'[k] = run[k]
      /\ run'[j].pc = run[j].pc /\ ~run'[j].fresh /\ run'[j].status = run[j].status /\ run'[j].next = run[j].next
  <2>1. run' = [run EXCEPT ![j].fresh = FALSE]
    BY DEF OperatorClaims, Claim
  <2> QED
    BY <2>1, RunStale DEF RunMoves
<1>4. /\ fence' \in [Jobs -> {"none", "open", "blocked"}] /\ fence'[j] = "open" /\ \A k \in Jobs \ {j} : fence'[k] = fence[k]
      /\ operator' \in [Jobs -> {"idle", "claimed", "launched"}]
  BY DEF OperatorClaims, BackfillInv, Types
<1>5. Types'
  BY <1>1, <1>2, <1>3, <1>4 DEF BackfillInv, Types
<1>6. JobKept(j)'
  BY <1>1, <1>2, <1>4 DEF JobKept
<1>7. RunKept(j)'
  BY <1>1, <1>2, <1>3 DEF BackfillInv, JobsKept, RunKept, Carried, Over
<1> QED
  BY <1>1, <1>2, <1>3, <1>4, <1>5, <1>6, <1>7, JobFrame, PendingHolds DEF Pending

\* What a call to the platform may do.
Effected(j, dispatch) ==
    /\ platform' \in [Jobs -> {"absent", "active", "paused"} \cup Ended] /\ \A k \in Jobs \ {j} : platform'[k] = platform[k]
    /\ run' \in [Jobs -> RunRow] /\ \A k \in Jobs \ {j} : run'[k] = run[k]
    /\ \/ platform'[j] = "active" /\ run'[j].pc = "preflight" /\ (dispatch = "restarting" \/ platform[j] = "absent")
       \/ platform'[j] = "active" /\ platform[j] = "paused" /\ run'[j] = run[j]
       \/ platform'[j] = platform[j] /\ run'[j] = run[j]

LEMMA EffectBounded ==
    ASSUME BackfillBounds, BackfillInv, NEW j \in Jobs, NEW dispatch, Effect(j, dispatch) PROVE Effected(j, dispatch)
<1>1. StartedRun \in RunRow /\ StartedRun.pc = "preflight"
  BY RestRows DEF StartedRun, RunPcs
<1>2. CASE /\ dispatch = "restarting" \/ platform[j] = "absent"
           /\ platform' = [platform EXCEPT ![j] = "active"] /\ run' = [run EXCEPT ![j] = StartedRun]
  BY <1>1, <1>2 DEF Effected, BackfillInv, Types
<1>3. CASE platform[j] = "paused" /\ platform' = [platform EXCEPT ![j] = "active"] /\ UNCHANGED run
  BY <1>3 DEF Effected, BackfillInv, Types
<1>4. CASE UNCHANGED <<platform, run>>
  BY <1>4 DEF Effected, BackfillInv, Types
<1> QED
  BY <1>2, <1>3, <1>4 DEF Effect

LEMMA EffectKeepsRun ==
    ASSUME BackfillInv, NEW j \in Jobs, NEW dispatch, Effected(j, dispatch),
           UNCHANGED <<ledger, rendered, source, job, fence, set>>
    PROVE  JobKept(j)' /\ RunKept(j)'
BY DEF BackfillInv, JobsKept, JobKept, RunKept, Carried, Effected, Ended

LEMMA OperatorTriggersKeeps ==
    ASSUME BackfillBounds, BackfillInv, NEW j \in Jobs, OperatorTriggers(j) PROVE BackfillInv'
<1>1. UNCHANGED <<ledger, rendered, source, job, fence, set, pass>>
  BY DEF OperatorTriggers, rows
<1>2. Effected(j, "creating")
  BY EffectBounded DEF OperatorTriggers
<1>3. operator' \in [Jobs -> {"idle", "claimed", "launched"}]
  BY DEF OperatorTriggers, BackfillInv, Types
<1>4. Types'
  BY <1>1, <1>2, <1>3 DEF BackfillInv, Types, Effected
<1>5. JobKept(j)' /\ RunKept(j)'
  BY <1>1, <1>2, EffectKeepsRun
<1>6. platform[j] \in Ended => platform'[j] \in Ended
  BY <1>2 DEF Effected, Ended
<1>7. (\E p \in Passes : pass[p].job = j /\ Restarting(p)) => Pending(j)'
  BY <1>1, PendingHolds DEF Pending
<1> QED
  BY <1>1, <1>2, <1>4, <1>5, <1>6, <1>7, JobFrame DEF Effected

\* A claim that is confirmed, and the instance a blocked one loses.
LEMMA ConfirmedFrame ==
    ASSUME BackfillBounds, BackfillInv, NEW j \in Jobs, NEW from \in ClaimState, Confirmed(j, from),
           UNCHANGED <<ledger, rendered, source, fence, set, pass>>,
           operator' \in [Jobs -> {"idle", "claimed", "launched"}],
           platform' \in [Jobs -> {"absent", "active", "paused"} \cup Ended], run' \in [Jobs -> RunRow],
           \A k \in Jobs \ {j} : platform'[k] = platform[k] /\ run'[k] = run[k],
           \/ platform'[j] = platform[j] /\ run'[j] = run[j]
           \/ platform'[j] = "ended" /\ run'[j].pc = "off",
           from = "restarting" => \A p \in Passes : pass[p].job = j => ~Restarting(p)
    PROVE  BackfillInv'
<1>1. Types'
  BY DEF BackfillInv, Types, Confirmed
<1>2. JobKept(j)'
  BY ConfirmedKept
<1>3. RunKept(j)'
  BY DEF BackfillInv, JobsKept, RunKept, Carried, Confirmed, Over, Ended
<1>4. (\E p \in Passes : pass[p].job = j /\ Restarting(p)) => Pending(j)'
  BY PendingHolds DEF BackfillInv, JobsKept, JobKept, Pending, Confirmed
<1> QED
  BY <1>1, <1>2, <1>3, <1>4, JobFrame DEF Confirmed, Ended

LEMMA OperatorConfirmsKeeps ==
    ASSUME BackfillBounds, BackfillInv, NEW j \in Jobs, OperatorConfirms(j) PROVE BackfillInv'
<1>1. UNCHANGED <<ledger, rendered, source, fence, set, pass>>
  BY DEF OperatorConfirms, others
<1>2. Confirmed(j, "creating")
  BY ConfirmsConfirmed DEF OperatorConfirms
<1>3. operator' \in [Jobs -> {"idle", "claimed", "launched"}]
  BY DEF OperatorConfirms, BackfillInv, Types
<1>4. /\ platform' \in [Jobs -> {"absent", "active", "paused"} \cup Ended] /\ run' \in [Jobs -> RunRow]
      /\ \A k \in Jobs \ {j} : platform'[k] = platform[k] /\ run'[k] = run[k]
      /\ \/ platform'[j] = platform[j] /\ run'[j] = run[j]
         \/ platform'[j] = "ended" /\ run'[j].pc = "off"
  <2>1. IdleRun \in RunRow /\ IdleRun.pc = "off"
    BY RestRows
  <2> QED
    BY <2>1 DEF OperatorConfirms, BackfillInv, Types, Ended
<1> QED
  BY <1>1, <1>2, <1>3, <1>4, ConfirmedFrame DEF ClaimState

LEMMA OperatorLeavesKeeps ==
    ASSUME BackfillBounds, BackfillInv, NEW j \in Jobs, OperatorLeaves(j) PROVE BackfillInv'
<1>1. UNCHANGED <<ledger, rendered, source, job, fence, set, platform, run, pass>>
      /\ operator' = [operator EXCEPT ![j] = "idle"]
  BY DEF OperatorLeaves, others, rows
<1>2. Types'
  BY <1>1 DEF BackfillInv, Types
<1>3. JobsKept' /\ PassesKept'
  BY <1>1 DEF BackfillInv, JobsKept, JobKept, RunKept, Carried, PassesKept, PassKept, Restarting,
     Pending
<1> QED
  BY <1>2, <1>3 DEF BackfillInv

\* A settlement of a job that no run works for any more, or whose source is gone.
LEMMA SettledKeeps ==
    ASSUME BackfillBounds, BackfillInv, NEW j \in Jobs, UNCHANGED <<ledger, rendered, source, set, platform, run, operator, pass>>,
           job' \in [Jobs -> JobRow], fence' \in [Jobs -> {"none", "open", "blocked"}],
           \A k \in Jobs \ {j} : job'[k] = job[k] /\ fence'[k] = fence[k],
           \/ /\ job'[j].status \in Over /\ ~job'[j].late
              /\ job[j].status \notin Nonterminal \/ source[j] = "deleted"
           \/ job'[j].status = job[j].status /\ job'[j].late = job[j].late /\ source[j] = "deleted",
           fence'[j] = "blocked" => source[j] = "deleted",
           job'[j].dispatch \in {job[j].dispatch, "blocked"}, job'[j].dispatch # "pending" => fence'[j] # "none",
           fence'[j] = "open" => fence[j] = "open"
    PROVE  BackfillInv'
<1>1. Types'
  BY DEF BackfillInv, Types
<1>2. JobKept(j) /\ RunKept(j)
  BY DEF BackfillInv, JobsKept
<1>3. JobKept(j)'
  BY <1>2 DEF JobKept, Over, Nonterminal
<1>4. RunKept(j)'
  BY <1>2 DEF RunKept, Carried, Over
<1>5. (\E p \in Passes : pass[p].job = j /\ Restarting(p)) => Pending(j)'
  BY PendingHolds DEF Pending
<1> QED
  BY <1>1, <1>3, <1>4, <1>5, JobFrame

LEMMA SettlesKeep ==
    ASSUME BackfillBounds, BackfillInv, NEW j \in Jobs, Settles(j) PROVE BackfillInv'
<1>1. JobKept(j) /\ job[j] \in JobRow
  BY DEF BackfillInv, JobsKept, Types
<1>2. CASE ResolveSuperseded(j)
  <2>1. /\ job' \in [Jobs -> JobRow] /\ \A k \in Jobs \ {j} : job'[k] = job[k]
        /\ job'[j].status = "resolved" /\ ~job'[j].late /\ job'[j].dispatch = job[j].dispatch
    BY <1>2 DEF ResolveSuperseded, BackfillInv, Types, JobRow, JobStatus
  <2>2. /\ UNCHANGED <<ledger, rendered, source, fence, set, platform, run, operator, pass>>
        /\ job[j].status \notin Nonterminal
    BY <1>2 DEF ResolveSuperseded, others, Nonterminal
  <2>3. fence' \in [Jobs -> {"none", "open", "blocked"}]
    BY <2>2 DEF BackfillInv, Types
  <2> QED
    BY <1>1, <2>1, <2>2, <2>3, SettledKeeps DEF JobKept, Over
<1>3. CASE SettleUnreachable(j)
  <2>1. job' = Blocked(j) /\ UNCHANGED <<ledger, rendered, source, fence, set, platform, run, operator, pass>>
    BY <1>3 DEF SettleUnreachable, others
  <2>2. fence[j] \in {"none", "open", "blocked"} /\ fence' \in [Jobs -> {"none", "open", "blocked"}]
    BY <2>1 DEF BackfillInv, Types
  <2>3. source[j] = "deleted" /\ fence[j] # "none"
    BY <1>1, <1>3, <2>2 DEF SettleUnreachable, JobKept
  <2> QED
    BY <2>1, <2>2, <2>3, BlockedRow, SettledKeeps DEF Over
<1>4. CASE PurgeBegins(j)
  <2>1. UNCHANGED <<ledger, rendered, source, set, platform, run, operator, pass>> /\ source[j] = "deleted"
    BY <1>4 DEF PurgeBegins, others
  <2>2. /\ fence' \in [Jobs -> {"none", "open", "blocked"}] /\ \A k \in Jobs \ {j} : fence'[k] = fence[k]
        /\ fence'[j] # "open" /\ (fence[j] # "none" => fence'[j] # "none")
    BY <1>4 DEF PurgeBegins, BackfillInv, Types
  <2>3. /\ job' \in [Jobs -> JobRow] /\ \A k \in Jobs \ {j} : job'[k] = job[k]
        /\ job'[j].dispatch \in {job[j].dispatch, "blocked"}
        /\ (job'[j].dispatch # "pending" => job[j].dispatch # "pending")
        /\ \/ job'[j].status = "failed" /\ ~job'[j].late
           \/ job'[j].status = job[j].status /\ job'[j].late = job[j].late
    <3>1. CASE job' = job
      BY <3>1 DEF BackfillInv, Types
    <3>2. CASE job' = [job EXCEPT ![j].status = "failed", ![j].late = FALSE,
                         ![j].dispatch = IF @ = "confirmed" THEN "blocked" ELSE @]
      <4> DEFINE d == IF job[j].dispatch = "confirmed" THEN "blocked" ELSE job[j].dispatch
      <4>1. "failed" \in JobStatus /\ d \in Dispatch /\ d \in {job[j].dispatch, "blocked"}
             /\ (d # "pending" => job[j].dispatch # "pending")
        BY <1>1 DEF JobStatus, Dispatch, JobRow
      <4>2. job'[j] = [status |-> "failed", dispatch |-> d, young |-> job[j].young,
                       recent |-> job[j].recent, late |-> FALSE]
        BY <1>1, <3>2 DEF JobRow, BackfillInv, Types
      <4>3. job' = [k \in Jobs |-> job'[k]] /\ \A k \in Jobs \ {j} : job'[k] = job[k]
        BY <3>2 DEF BackfillInv, Types
      <4> HIDE DEF d
      <4>4. job'[j] \in JobRow /\ job'[j].dispatch = d /\ job'[j].status = "failed" /\ ~job'[j].late
        BY <1>1, <4>1, <4>2 DEF JobRow
      <4>5. \A k \in Jobs : job'[k] \in JobRow
        BY <4>3, <4>4 DEF BackfillInv, Types
      <4>6. job' \in [Jobs -> JobRow]
        BY <4>3, <4>5
      <4> QED
        BY <4>1, <4>3, <4>4, <4>6
    <3> QED
      BY <1>4, <3>1, <3>2 DEF PurgeBegins
  <2> QED
    BY <1>1, <2>1, <2>2, <2>3, SettledKeeps DEF JobKept, Over
<1> QED
  BY <1>2, <1>3, <1>4 DEF Settles

LEMMA HostsKeep == ASSUME BackfillBounds, BackfillInv, NEW j \in Jobs, Hosts(j) PROVE BackfillInv'
<1>1. UNCHANGED <<ledger, rendered, job, fence, set, platform, run, operator, pass>>
  BY DEF Hosts, Replaces, Deletes, rows
<1>2. /\ source' \in [Jobs -> {"legacy", "replaced", "deleted", "converted"}]
      /\ \A k \in Jobs \ {j} : source'[k] = source[k]
      /\ source[j] = "deleted" => source'[j] = "deleted"
  BY DEF Hosts, Replaces, Deletes, BackfillInv, Types
<1>3. Types'
  BY <1>1, <1>2 DEF BackfillInv, Types
<1>4. JobKept(j)' /\ RunKept(j)'
  BY <1>1, <1>2 DEF BackfillInv, JobsKept, JobKept, RunKept, Carried
<1>5. (\E p \in Passes : pass[p].job = j /\ Restarting(p)) => Pending(j)'
  BY <1>1, <1>2, PendingHolds DEF Pending
<1> QED
  BY <1>1, <1>2, <1>3, <1>4, <1>5, JobFrame

\* A clock that turns one flag of a job.
Ticks(j, young, recent, late) ==
    /\ job' \in [Jobs -> JobRow] /\ \A k \in Jobs \ {j} : job'[k] = job[k]
    /\ job'[j].status = job[j].status /\ job'[j].dispatch = job[j].dispatch
    /\ job'[j].young = young /\ job'[j].recent = recent /\ job'[j].late = late

LEMMA RowTicks ==
    ASSUME BackfillInv, NEW j \in Jobs, NEW young \in BOOLEAN, NEW recent \in BOOLEAN, NEW late \in BOOLEAN,
           job' = [k \in Jobs |-> job'[k]], \A k \in Jobs \ {j} : job'[k] = job[k],
           job'[j] = [status |-> job[j].status, dispatch |-> job[j].dispatch, young |-> young, recent |-> recent, late |-> late]
    PROVE  Ticks(j, young, recent, late)
<1>1. job[j] \in JobRow /\ job \in [Jobs -> JobRow]
  BY DEF BackfillInv, Types
<1> DEFINE row == [status |-> job[j].status, dispatch |-> job[j].dispatch, young |-> young, recent |-> recent, late |-> late]
<1>2. row \in JobRow
  BY <1>1 DEF JobRow
<1>3. job' = [k \in Jobs |-> job'[k]] /\ (\A k \in Jobs \ {j} : job'[k] = job[k]) /\ job'[j] = row
  BY <1>1
<1>4. \A k \in Jobs : job'[k] \in JobRow
  BY <1>1, <1>2, <1>3
<1>5. job' \in [Jobs -> JobRow]
  BY <1>3, <1>4
<1> QED
  BY <1>3, <1>5 DEF Ticks

LEMMA TimeTicks ==
    ASSUME BackfillInv, NEW j \in Jobs, Time(j)
    PROVE  \/ MinuteEnds(j) /\ Ticks(j, job[j].young, FALSE, job[j].late)
           \/ Ages(j) /\ Ticks(j, FALSE, job[j].recent, job[j].late)
           \/ WindowEnds(j) /\ Ticks(j, job[j].young, job[j].recent, TRUE)
<1>1. job[j] \in JobRow /\ job \in [Jobs -> JobRow]
  BY DEF BackfillInv, Types
<1>2. job[j].young \in BOOLEAN /\ job[j].recent \in BOOLEAN /\ job[j].late \in BOOLEAN
  BY <1>1 DEF JobRow
<1>3. ASSUME MinuteEnds(j) PROVE Ticks(j, job[j].young, FALSE, job[j].late)
  <2>1. job'[j] = [status |-> job[j].status, dispatch |-> job[j].dispatch,
                   young |-> job[j].young, recent |-> FALSE, late |-> job[j].late]
    BY <1>1, <1>3 DEF MinuteEnds, JobRow
  <2>2. job' = [k \in Jobs |-> job'[k]] /\ \A k \in Jobs \ {j} : job'[k] = job[k]
    BY <1>1, <1>3 DEF MinuteEnds
  <2> QED
    BY <1>2, <2>1, <2>2, RowTicks
<1>4. ASSUME Ages(j) PROVE Ticks(j, FALSE, job[j].recent, job[j].late)
  <2>1. job'[j] = [status |-> job[j].status, dispatch |-> job[j].dispatch,
                   young |-> FALSE, recent |-> job[j].recent, late |-> job[j].late]
    BY <1>1, <1>4 DEF Ages, JobRow
  <2>2. job' = [k \in Jobs |-> job'[k]] /\ \A k \in Jobs \ {j} : job'[k] = job[k]
    BY <1>1, <1>4 DEF Ages
  <2> QED
    BY <1>2, <2>1, <2>2, RowTicks
<1>5. ASSUME WindowEnds(j) PROVE Ticks(j, job[j].young, job[j].recent, TRUE)
  <2>1. job'[j] = [status |-> job[j].status, dispatch |-> job[j].dispatch,
                   young |-> job[j].young, recent |-> job[j].recent, late |-> TRUE]
    BY <1>1, <1>5 DEF WindowEnds, JobRow
  <2>2. job' = [k \in Jobs |-> job'[k]] /\ \A k \in Jobs \ {j} : job'[k] = job[k]
    BY <1>1, <1>5 DEF WindowEnds
  <2> QED
    BY <1>2, <2>1, <2>2, RowTicks
<1> QED
  BY <1>3, <1>4, <1>5 DEF Time

LEMMA TimeKeeps == ASSUME BackfillBounds, BackfillInv, NEW j \in Jobs, Time(j) PROVE BackfillInv'
<1>1. UNCHANGED <<ledger, rendered, source, fence, set, platform, run, operator, pass>>
  BY DEF Time, MinuteEnds, Ages, WindowEnds, others
<1>2. JobKept(j) /\ RunKept(j)
  BY DEF BackfillInv, JobsKept
<1>3. /\ job' \in [Jobs -> JobRow] /\ \A k \in Jobs \ {j} : job'[k] = job[k]
      /\ job'[j].status = job[j].status /\ job'[j].dispatch = job[j].dispatch
      /\ \/ job'[j].late = job[j].late
         \/ job[j].status = "retryable" /\ \A p \in Passes : pass[p].job # j
      /\ job'[j].young = job[j].young \/ \A p \in Passes : pass[p].pc = "call" => pass[p].job # j
  BY TimeTicks DEF Ticks, Ages, WindowEnds
<1>4. (job'[j].status = "retryable" /\ job[j].late) => job'[j].late
  BY <1>2, TimeTicks DEF Ticks, WindowEnds
<1>5. Types'
  BY <1>1, <1>3 DEF BackfillInv, Types
<1>6. JobKept(j)'
  BY <1>1, <1>2, <1>3, <1>4 DEF JobKept, Nonterminal
<1>7. RunKept(j)'
  BY <1>1, <1>2, <1>3 DEF RunKept, Carried
<1>8. (\E p \in Passes : pass[p].job = j /\ Restarting(p)) => Pending(j)'
  BY <1>1, <1>3, PendingHolds DEF Pending, Restarting
<1> QED
  BY <1>1, <1>3, <1>5, <1>6, <1>7, <1>8, JobFrame

-----------------------------------------------------------------------------
(* The scheduled passes.                                                   *)

Rows == <<ledger, job, fence, set, rendered, source, platform, run, operator>>

\* A pass that moves alone.
LEMMA PassMoves ==
    ASSUME BackfillBounds, BackfillInv, NEW p \in Passes, UNCHANGED Rows, pass' \in [Passes -> PassRow],
           \A q \in Passes \ {p} : pass'[q] = pass[q], PassKept(p)', ~Restarting(p)',
           \A q \in Passes \ {p} : Restarting(q) =>
              \/ pass'[p].job # pass[q].job
              \/ pass'[p].pc = "call" /\ pass'[p].target # "restarting" /\ ~pass'[p].fresh
    PROVE  BackfillInv'
<1>1. Types'
  BY DEF Rows, BackfillInv, Types
<1>2. JobsKept'
  BY DEF Rows, BackfillInv, JobsKept, JobKept, RunKept, Carried
<1>3. PassesKept'
  <2> SUFFICES ASSUME NEW q \in Passes, q # p PROVE PassKept(q)'
    BY DEF PassesKept
  <2>1. PassKept(q)
    BY DEF BackfillInv, PassesKept
  <2> QED
    BY <2>1 DEF Rows, PassKept, Restarting, Pending
<1> QED
  BY <1>1, <1>2, <1>3 DEF BackfillInv

LEMMA IdleRow ==
    ASSUME BackfillBounds
    PROVE  IdlePass \in PassRow /\ IdlePass.pc = "idle" /\ IdlePass.job = NoJob
<1>1. "queued" \in JobStatus /\ "pending" \in Dispatch /\ "creating" \in ClaimState
  BY DEF JobStatus, Nonterminal, Dispatch, ClaimState
<1> QED
  BY <1>1 DEF IdlePass, PassRow

LEMMA NothingMoves ==
    ASSUME BackfillBounds, BackfillInv, NEW p \in Passes, Nothing(p)
    PROVE  /\ pass' \in [Passes -> PassRow] /\ \A q \in Passes \ {p} : pass'[q] = pass[q]
           /\ pass'[p].pc = "idle" /\ pass'[p].job = NoJob
BY IdleRow DEF Nothing, BackfillInv, Types

LEMMA PassGivesUp ==
    ASSUME BackfillBounds, BackfillInv, NEW p \in Passes, Nothing(p), UNCHANGED Rows PROVE BackfillInv'
<1>1. /\ pass' \in [Passes -> PassRow] /\ \A q \in Passes \ {p} : pass'[q] = pass[q]
      /\ pass'[p].pc = "idle" /\ pass'[p].job = NoJob
  BY NothingMoves
<1>2. PassKept(p)' /\ ~Restarting(p)'
  BY <1>1 DEF PassKept, Restarting
<1>3. \A q \in Passes : Restarting(q) => pass[q].job # NoJob
  BY DEF BackfillInv, PassesKept, PassKept, Restarting, BackfillBounds
<1> QED
  BY <1>1, <1>2, <1>3, PassMoves

LEMMA CallingRow ==
    ASSUME BackfillBounds, NEW j \in Jobs, NEW target \in ClaimState
    PROVE  /\ Calling(j, target) \in PassRow /\ Calling(j, target).pc = "call" /\ Calling(j, target).job = j
           /\ Calling(j, target).target = target /\ Calling(j, target).fresh
<1>1. "queued" \in JobStatus /\ "pending" \in Dispatch
  BY DEF JobStatus, Nonterminal, Dispatch
<1> QED
  BY <1>1 DEF Calling, PassRow

\* No restart is under way of a job that a pass may pick.
LEMMA PickedFree ==
    ASSUME BackfillInv, NEW j \in Jobs,
           \/ job[j].dispatch = "creating"
           \/ Reconcilable(j) /\ source[j] # "deleted"
    PROVE  \A q \in Passes : Restarting(q) => pass[q].job # j
<1> SUFFICES ASSUME NEW q \in Passes, Restarting(q), pass[q].job = j PROVE FALSE
  OBVIOUS
<1>1. Pending(j)
  BY DEF BackfillInv, PassesKept, PassKept
<1> QED
  BY <1>1 DEF Pending, Reconcilable, Nonterminal

LEMMA PicksKeep ==
    ASSUME BackfillBounds, BackfillInv, NEW j \in Jobs, NEW p \in Passes, RecoverStale(p, j) \/ Select(p, j)
    PROVE  BackfillInv'
<1>1. JobKept(j) /\ job[j] \in JobRow
  BY DEF BackfillInv, JobsKept, Types
<1>2. CASE RecoverStale(p, j) /\ pass' = [pass EXCEPT ![p] = Calling(j, "creating")] /\ UNCHANGED job
  <2>1. UNCHANGED Rows /\ job[j].dispatch = "creating" /\ ~job[j].late
    BY <1>1, <1>2 DEF RecoverStale, Rows, others, JobKept
  <2>2. "creating" \in ClaimState
    BY DEF ClaimState
  <2>3. /\ pass' \in [Passes -> PassRow] /\ \A q \in Passes \ {p} : pass'[q] = pass[q]
        /\ pass'[p].pc = "call" /\ pass'[p].job = j /\ pass'[p].target = "creating"
    BY <1>2, <2>2, CallingRow DEF BackfillInv, Types
  <2>4. PassKept(p)' /\ ~Restarting(p)'
    BY <2>1, <2>3 DEF PassKept, Restarting, Rows
  <2> QED
    BY <2>1, <2>3, <2>4, PickedFree, PassMoves
<1>3. CASE Confirms(j, "creating") /\ UNCHANGED pass /\ RecoverStale(p, j)
  <2>1. Confirmed(j, "creating") /\ UNCHANGED <<ledger, rendered, source, fence, set, pass, platform, run, operator>>
    BY <1>3, ConfirmsConfirmed DEF RecoverStale, others
  <2>2. /\ platform' \in [Jobs -> {"absent", "active", "paused"} \cup Ended] /\ run' \in [Jobs -> RunRow]
        /\ operator' \in [Jobs -> {"idle", "claimed", "launched"}]
    BY <2>1 DEF BackfillInv, Types
  <2> QED
    BY <2>1, <2>2, ConfirmedFrame DEF ClaimState
<1>4. CASE Select(p, j)
  <2>1. UNCHANGED Rows /\ Reconcilable(j) /\ source[j] # "deleted" /\ ~job[j].late
    BY <1>1, <1>4 DEF Select, Rows, others, rows, JobKept, Reconcilable
  <2> DEFINE held == (set[j] # "none")
             legacy == (source[j] = "legacy")
  <2>2. pass' = [pass EXCEPT ![p] =
           [pc |-> "look", job |-> j, status |-> job[j].status, dispatch |-> job[j].dispatch, held |-> held,
            legacy |-> legacy, fresh |-> TRUE, found |-> "failed", target |-> "creating"]]
    BY <1>4 DEF Select
  <2>3. held \in BOOLEAN /\ legacy \in BOOLEAN /\ "creating" \in ClaimState
    BY DEF ClaimState
  <2> HIDE DEF held, legacy
  <2>4. /\ pass' \in [Passes -> PassRow] /\ \A q \in Passes \ {p} : pass'[q] = pass[q]
        /\ pass'[p].pc = "look" /\ pass'[p].job = j
    BY <1>1, <2>2, <2>3 DEF BackfillInv, Types, PassRow, JobRow
  <2>5. PassKept(p)' /\ ~Restarting(p)'
    BY <2>1, <2>4 DEF PassKept, Restarting, Rows
  <2> QED
    BY <2>1, <2>4, <2>5, PickedFree, PassMoves
<1> QED
  BY <1>2, <1>3, <1>4 DEF RecoverStale

\* While a pass looks, records or claims, no restart of its job is under way.
LEMMA BusyFree ==
    ASSUME BackfillInv, NEW p \in Passes, pass[p].pc \in {"look", "record", "claim", "confirm"}
    PROVE  \A q \in Passes : Restarting(q) => pass[q].job # pass[p].job
BY DEF BackfillInv, PassesKept, PassKept, Restarting

\* The pass p that goes on to pc, of what it read and found.
Onward(p, pc, found, target) ==
    [pc |-> pc, job |-> pass[p].job, status |-> pass[p].status, dispatch |-> pass[p].dispatch,
     held |-> pass[p].held, legacy |-> pass[p].legacy, fresh |-> pass[p].fresh, found |-> found, target |-> target]

LEMMA OnwardRow ==
    ASSUME NEW p \in Passes, pass[p] \in PassRow, NEW found \in {"active", "paused", "failed"} \cup Ended,
           NEW pc \in {"claim", "confirm", "record"}, NEW target \in ClaimState
    PROVE  /\ Onward(p, pc, found, target) \in PassRow /\ Onward(p, pc, found, target).pc = pc
           /\ Onward(p, pc, found, target).target = target /\ Onward(p, pc, found, target).job = pass[p].job
BY DEF Onward, PassRow

LEMMA LookDecides ==
    ASSUME BackfillBounds, NEW p \in Passes, pass[p] \in PassRow,
           NEW found \in {"active", "paused", "failed"} \cup Ended
    PROVE  \/ Decided(p, found) = IdlePass
           \/ \E pc \in {"claim", "confirm", "record"}, target \in ClaimState :
                /\ Decided(p, found) = Onward(p, pc, found, target)
                /\ pc = "record" => target = "restarting"
                /\ pc \in {"claim", "record"} /\ target = "restarting" => found \in Ended
<1>1. CASE found = "failed"
  <2>1. Decided(p, found) = Onward(p, "claim", found, "creating")
    BY <1>1 DEF Decided, Onward, Ended
  <2> QED
    BY <2>1 DEF ClaimState
<1>2. CASE found = "paused"
  <2>1. Decided(p, found) = Onward(p, "claim", found, "resuming")
    BY <1>2 DEF Decided, Onward, Ended
  <2> QED
    BY <2>1 DEF ClaimState
<1>3. CASE found = "active" /\ pass[p].dispatch \in {"resuming", "restarting"}
  <2>1. Decided(p, found) = Onward(p, "confirm", found, pass[p].dispatch)
    BY <1>3 DEF Decided, Onward, Ended
  <2> QED
    BY <1>3, <2>1 DEF ClaimState
<1>4. CASE found \in Ended /\ pass[p].status \in Nonterminal
  <2>1. Decided(p, found) = Onward(p, "record", found, "restarting")
    BY <1>4 DEF Decided, Onward, Ended, Nonterminal
  <2> QED
    BY <1>4, <2>1 DEF ClaimState
<1>5. CASE found = "ended" /\ pass[p].status = "retryable"
  <2>1. Decided(p, found) = Onward(p, "claim", found, "restarting")
    BY <1>5 DEF Decided, Onward, Ended, Nonterminal
  <2> QED
    BY <1>5, <2>1 DEF ClaimState, Ended
<1>6. CASE /\ found # "failed" /\ found # "paused" /\ ~(found = "active" /\ pass[p].dispatch \in {"resuming", "restarting"})
           /\ ~(found \in Ended /\ pass[p].status \in Nonterminal) /\ ~(found = "ended" /\ pass[p].status = "retryable")
  BY <1>6 DEF Decided
<1> QED
  BY <1>1, <1>2, <1>3, <1>4, <1>5, <1>6

LEMMA LookKeeps ==
    ASSUME BackfillBounds, BackfillInv, NEW p \in Passes, NEW found \in {"active", "paused", "failed"} \cup Ended,
           LookAs(p, found), found \in Ended => platform[pass[p].job] \in Ended
    PROVE  BackfillInv'
<1> DEFINE row == Decided(p, found)
<1>1. UNCHANGED Rows /\ pass[p].pc = "look" /\ pass' = [pass EXCEPT ![p] = row]
  BY DEF LookAs, Rows, others, rows
<1>2. /\ pass[p].job \in Jobs /\ ~job[pass[p].job].late /\ pass[p] \in PassRow /\ pass \in [Passes -> PassRow]
  BY <1>1 DEF BackfillInv, PassesKept, Types, PassKept
<1>3. /\ row \in PassRow
      /\ \/ row.pc = "idle" /\ row.job = NoJob
         \/ /\ row.job = pass[p].job /\ row.pc \in {"claim", "confirm", "record"}
            /\ row.pc = "record" => row.target = "restarting"
            /\ row.pc \in {"claim", "record"} /\ row.target = "restarting" => found \in Ended
  <2>1. CASE row = IdlePass
    BY <2>1, IdleRow
  <2>2. CASE \E pc \in {"claim", "confirm", "record"}, target \in ClaimState :
               /\ row = Onward(p, pc, found, target)
               /\ pc = "record" => target = "restarting"
               /\ pc \in {"claim", "record"} /\ target = "restarting" => found \in Ended
    <3>1. PICK pc \in {"claim", "confirm", "record"}, target \in ClaimState :
               /\ row = Onward(p, pc, found, target)
               /\ pc = "record" => target = "restarting"
               /\ pc \in {"claim", "record"} /\ target = "restarting" => found \in Ended
      BY <2>2
    <3>2. row \in PassRow /\ row.pc = pc /\ row.target = target /\ row.job = pass[p].job
      BY <1>2, <3>1, OnwardRow
    <3> HIDE DEF row
    <3> QED
      BY <3>1, <3>2
  <2> QED
    BY <1>2, <2>1, <2>2, LookDecides
<1> HIDE DEF row
<1>4. pass' \in [Passes -> PassRow] /\ (\A q \in Passes \ {p} : pass'[q] = pass[q]) /\ pass'[p] = row
  BY <1>1, <1>2, <1>3
<1>5. PassKept(p)' /\ ~Restarting(p)'
  BY <1>1, <1>2, <1>3, <1>4 DEF PassKept, Restarting, Rows
<1>6. \A q \in Passes : Restarting(q) => pass[q].job # pass[p].job /\ pass[q].job # NoJob
  BY <1>1, BusyFree DEF BackfillInv, PassesKept, PassKept, Restarting, BackfillBounds
<1> QED
  BY <1>1, <1>3, <1>4, <1>5, <1>6, PassMoves

LEMMA LooksKeep ==
    ASSUME BackfillBounds, BackfillInv, NEW p \in Passes, Look(p) \/ LookFails(p) PROVE BackfillInv'
<1>1. CASE Look(p)
  <2> DEFINE found == IF platform[pass[p].job] = "absent" THEN "failed" ELSE platform[pass[p].job]
  <2>1. pass[p].job \in Jobs /\ platform \in [Jobs -> {"absent", "active", "paused"} \cup Ended]
    BY <1>1 DEF Look, BackfillInv, PassesKept, PassKept, Types
  <2>2. found \in {"active", "paused", "failed"} \cup Ended /\ (found \in Ended => platform[pass[p].job] \in Ended)
    BY <2>1 DEF Ended
  <2>3. LookAs(p, found)
    BY <1>1 DEF Look
  <2> HIDE DEF found
  <2> QED
    BY <2>2, <2>3, LookKeeps
<1>2. CASE LookFails(p)
  BY <1>2, LookKeeps DEF LookFails, Ended
<1> QED
  BY <1>1, <1>2

\* A step of one pass on its job, the other passes on that job looked at one by one.
LEMMA PassFrame ==
    ASSUME BackfillBounds, BackfillInv, NEW p \in Passes, NEW j \in Jobs, pass[p].job = j,
           Types', UNCHANGED ledger,
           \A k \in Jobs \ {j} : /\ job'[k] = job[k] /\ set'[k] = set[k] /\ rendered'[k] = rendered[k]
                                 /\ source'[k] = source[k] /\ run'[k] = run[k] /\ fence'[k] = fence[k]
                                 /\ platform'[k] = platform[k],
           JobKept(j)', RunKept(j)', pass'[p].job \in {j, NoJob}, PassKept(p)',
           \A q \in Passes \ {p} :
              IF pass[q].job = j THEN pass'[q].job \in {j, NoJob} /\ PassKept(q)' ELSE pass'[q] = pass[q]
    PROVE  BackfillInv'
<1>1. JobsKept'
  <2> SUFFICES ASSUME NEW k \in Jobs, k # j PROVE JobKept(k)' /\ RunKept(k)'
    BY DEF JobsKept
  <2>1. JobKept(k) /\ RunKept(k)
    BY DEF BackfillInv, JobsKept
  <2> QED
    BY <2>1 DEF JobKept, RunKept, Carried
<1>2. PassesKept'
  <2> SUFFICES ASSUME NEW q \in Passes, q # p, pass[q].job # j PROVE PassKept(q)'
    BY DEF PassesKept
  <2>1. PassKept(q) /\ pass'[q] = pass[q]
    BY DEF BackfillInv, PassesKept
  <2>2. \A r \in Passes : pass[q].job \in Jobs => (pass'[r].job = pass[q].job => pass'[r] = pass[r])
    BY DEF BackfillBounds
  <2> QED
    BY <2>1, <2>2 DEF PassKept, Restarting, Pending
<1> QED
  BY <1>1, <1>2 DEF BackfillInv

LEMMA RecordFailureKeeps ==
    ASSUME BackfillBounds, BackfillInv, NEW p \in Passes, RecordFailure(p) PROVE BackfillInv'
<1>1. UNCHANGED <<ledger, rendered, source, fence, set, platform, run, operator>> /\ pass[p].pc = "record"
  BY DEF RecordFailure, others
<1> PICK j \in Jobs : j = pass[p].job
  BY <1>1 DEF BackfillInv, PassesKept, PassKept
<1>2. /\ ~job[j].late /\ pass[p].target = "restarting" /\ platform[j] \in Ended
      /\ pass[p] \in PassRow /\ pass \in [Passes -> PassRow]
  BY <1>1 DEF BackfillInv, PassesKept, PassKept, Types
<1>3. CASE Nothing(p) /\ UNCHANGED job
  BY <1>1, <1>3, PassGivesUp DEF Rows
<1>4. CASE /\ job[j].status \in Nonterminal /\ job' = [job EXCEPT ![j].status = "retryable"]
           /\ pass' = [pass EXCEPT ![p].pc = "claim"]
  <2>1. Advanced(j, "retryable")
    BY <1>2, <1>4, StatusAdvances DEF JobStatus
  <2>2. /\ pass' \in [Passes -> PassRow] /\ (\A q \in Passes \ {p} : pass'[q] = pass[q])
        /\ pass'[p].pc = "claim" /\ pass'[p].job = j /\ pass'[p].target = "restarting"
    BY <1>2, <1>4 DEF PassRow
  <2>3. \A q \in Passes : Restarting(q) => pass[q].job # j
    BY <1>1, BusyFree
  <2>4. JobKept(j) /\ RunKept(j)
    BY <1>2 DEF BackfillInv, JobsKept
  <2>5. JobKept(j)' /\ RunKept(j)'
    <3>1. JobKept(j)'
      BY <1>1, <1>2, <1>4, <2>1, <2>4 DEF JobKept, Advanced, Nonterminal
    <3>2. RunKept(j)'
      BY <1>1, <1>2, <2>4 DEF RunKept
    <3> QED
      BY <3>1, <3>2
  <2>6. Types'
    BY <1>1, <2>1, <2>2 DEF BackfillInv, Types, Advanced
  <2>7. PassKept(p)'
    BY <1>1, <1>2, <2>1, <2>2 DEF PassKept, Restarting, Advanced
  <2>8. ASSUME NEW q \in Passes \ {p}, pass[q].job = j PROVE PassKept(q)'
    <3>1. PassKept(q) /\ ~Restarting(q)
      BY <2>3, <2>8 DEF BackfillInv, PassesKept
    <3> QED
      BY <1>1, <1>2, <2>1, <2>2, <2>8, <3>1 DEF PassKept, Restarting, Advanced
  <2>9. \A k \in Jobs \ {j} : /\ job'[k] = job[k] /\ set'[k] = set[k] /\ rendered'[k] = rendered[k]
                              /\ source'[k] = source[k] /\ run'[k] = run[k] /\ fence'[k] = fence[k]
                              /\ platform'[k] = platform[k]
    BY <1>1, <2>1 DEF Advanced
  <2> QED
    BY <1>1, <1>2, <2>2, <2>5, <2>6, <2>7, <2>8, <2>9, PassFrame
<1> QED
  BY <1>3, <1>4 DEF RecordFailure

LEMMA ConfirmRecoveryKeeps ==
    ASSUME BackfillBounds, BackfillInv, NEW p \in Passes, ConfirmRecovery(p) PROVE BackfillInv'
<1>1. UNCHANGED <<ledger, rendered, source, fence, set, platform, run, operator>> /\ pass[p].pc = "confirm"
  BY DEF ConfirmRecovery, others
<1> PICK j \in Jobs : j = pass[p].job
  BY <1>1 DEF BackfillInv, PassesKept, PassKept
<1>2. ~job[j].late /\ pass[p].target \in ClaimState
  BY <1>1 DEF BackfillInv, PassesKept, PassKept, Types, PassRow
<1>3. Confirmed(j, pass[p].target)
  BY ConfirmsConfirmed DEF ConfirmRecovery
<1>4. /\ pass' \in [Passes -> PassRow] /\ (\A q \in Passes \ {p} : pass'[q] = pass[q])
      /\ pass'[p].pc = "idle" /\ pass'[p].job = NoJob
  BY NothingMoves DEF ConfirmRecovery
<1>5. \A q \in Passes : Restarting(q) => pass[q].job # j
  BY <1>1, BusyFree
<1>6. JobKept(j)'
  BY <1>1, <1>2, <1>3, ConfirmedKept
<1>7. RunKept(j)'
  BY <1>1, <1>3 DEF BackfillInv, JobsKept, RunKept, Carried, Confirmed, Over
<1>8. Types'
  BY <1>1, <1>3, <1>4 DEF BackfillInv, Types, Confirmed
<1>9. PassKept(p)'
  BY <1>4 DEF PassKept, Restarting
<1>10. ASSUME NEW q \in Passes \ {p}, pass[q].job = j PROVE PassKept(q)'
  <2>1. PassKept(q) /\ ~Restarting(q)
    BY <1>5, <1>10 DEF BackfillInv, PassesKept
  <2> QED
    BY <1>1, <1>2, <1>3, <1>4, <1>10, <2>1 DEF PassKept, Restarting, Confirmed
<1>11. \A k \in Jobs \ {j} : /\ job'[k] = job[k] /\ set'[k] = set[k] /\ rendered'[k] = rendered[k]
                             /\ source'[k] = source[k] /\ run'[k] = run[k] /\ fence'[k] = fence[k]
                             /\ platform'[k] = platform[k]
  BY <1>1, <1>3 DEF Confirmed
<1> QED
  BY <1>1, <1>4, <1>6, <1>7, <1>8, <1>9, <1>10, <1>11, PassFrame

\* A call has its effect, or none, and its pass is done calling.
LEMMA CallEnds ==
    ASSUME BackfillBounds, BackfillInv, NEW p \in Passes, NEW j \in Jobs, j = pass[p].job, pass[p].pc = "call",
           UNCHANGED <<ledger, rendered, source, job, fence, set, operator>>,
           Effected(j, pass[p].target), pass' \in [Passes -> PassRow], \A q \in Passes \ {p} : pass'[q] = pass[q],
           \/ pass'[p].pc = "idle" /\ pass'[p].job = NoJob
           \/ pass[p].fresh /\ pass'[p].pc = "confirm" /\ pass'[p].job = j
    PROVE  BackfillInv'
<1>1. ~job[j].late /\ PassKept(p)
  BY DEF BackfillInv, PassesKept, PassKept
<1>2. JobKept(j)' /\ RunKept(j)'
  BY EffectKeepsRun
<1>3. Types'
  BY DEF BackfillInv, Types, Effected
<1>4. PassKept(p)'
  BY <1>1 DEF PassKept, Restarting
<1>5. pass[p].target # "restarting" /\ platform[j] \in Ended => platform'[j] = platform[j]
  BY DEF Effected, Ended
<1>6. ASSUME NEW q \in Passes \ {p}, pass[q].job = j PROVE PassKept(q)'
  <2>1. PassKept(q)
    BY DEF BackfillInv, PassesKept
  <2>2. CASE pass[p].target = "restarting"
    <3>1. pass[q].pc = "call" /\ pass[q].target # "restarting"
      BY <1>1, <1>6, <2>2 DEF PassKept, Restarting
    <3> QED
      BY <1>1, <1>6, <2>1, <3>1 DEF PassKept, Restarting
  <2>3. CASE pass[p].target # "restarting" /\ Restarting(q)
    <3>1. ~pass[p].fresh /\ platform[j] \in Ended /\ Pending(j)
      BY <1>6, <2>1, <2>3 DEF PassKept, Restarting
    <3>2. pass'[p].job = NoJob /\ platform'[j] \in Ended /\ Pending(j)'
      BY <1>5, <2>3, <3>1 DEF Pending
    <3>3. \A r \in Passes \ {q} : pass'[r].job = j => pass'[r] = pass[r]
      BY <3>2 DEF BackfillBounds
    <3> QED
      BY <1>1, <1>6, <2>1, <2>3, <3>2, <3>3 DEF PassKept, Restarting
  <2>4. CASE pass[p].target # "restarting" /\ ~Restarting(q)
    BY <1>1, <1>5, <1>6, <2>1, <2>4 DEF PassKept, Restarting
  <2> QED
    BY <2>2, <2>3, <2>4
<1>7. \A k \in Jobs \ {j} : /\ job'[k] = job[k] /\ set'[k] = set[k] /\ rendered'[k] = rendered[k]
                            /\ source'[k] = source[k] /\ run'[k] = run[k] /\ fence'[k] = fence[k]
                            /\ platform'[k] = platform[k]
  BY DEF Effected
<1> QED
  BY <1>2, <1>3, <1>4, <1>6, <1>7, PassFrame

LEMMA CallsKeep ==
    ASSUME BackfillBounds, BackfillInv, NEW p \in Passes, Call(p) \/ CallFails(p) PROVE BackfillInv'
<1>1. UNCHANGED <<ledger, rendered, source, job, fence, set, operator>> /\ pass[p].pc = "call"
  BY DEF Call, CallFails, others, rows
<1> PICK j \in Jobs : j = pass[p].job
  BY <1>1 DEF BackfillInv, PassesKept, PassKept
<1>2. Effected(j, pass[p].target)
  <2>1. CASE Effect(j, pass[p].target)
    BY <2>1, EffectBounded
  <2>2. CASE UNCHANGED <<platform, run>>
    BY <2>2 DEF Effected, BackfillInv, Types
  <2> QED
    BY <2>1, <2>2 DEF Call, CallFails
<1>3. CASE Nothing(p)
  BY <1>1, <1>2, <1>3, NothingMoves, CallEnds
<1>4. CASE pass[p].fresh /\ pass' = [pass EXCEPT ![p].pc = "confirm"]
  <2>1. /\ pass' \in [Passes -> PassRow] /\ (\A q \in Passes \ {p} : pass'[q] = pass[q])
        /\ pass'[p].pc = "confirm" /\ pass'[p].job = j
    BY <1>4 DEF BackfillInv, Types, PassRow
  <2> QED
    BY <1>1, <1>2, <1>4, <2>1, CallEnds
<1> QED
  BY <1>3, <1>4 DEF Call, CallFails, Nothing

\* What D1 can prove of a job it may claim again.
LEMMA CheckpointsProven ==
    ASSUME BackfillInv, NEW p \in Passes, NEW j \in Jobs, j = pass[p].job, NEW status \in Checkpoints(p)
    PROVE  /\ status \in Nonterminal
           /\ set[j] # "none" => status \in {"rendering", "finalizing"}
           /\ status \in {"rendering", "finalizing"} => set[j] # "none"
           /\ status = "finalizing" => rendered[j] = Slots
BY DEF Checkpoints, Proven, Nonterminal

LEMMA StaleRow ==
    ASSUME NEW row \in PassRow
    PROVE  [pc |-> row.pc, job |-> row.job, status |-> row.status, dispatch |-> row.dispatch, held |-> row.held,
            legacy |-> row.legacy, fresh |-> FALSE, found |-> row.found, target |-> row.target] \in PassRow
BY DEF PassRow

\* The others on a job that is claimed: outdated, but for a call on its way.
LEMMA PassesOutdated ==
    ASSUME BackfillBounds, BackfillInv, NEW p \in Passes, NEW j \in Jobs, NEW target \in ClaimState,
           pass' = [Outdated(j) EXCEPT ![p] = Calling(j, target)]
    PROVE  /\ pass' \in [Passes -> PassRow]
           /\ pass'[p].pc = "call" /\ pass'[p].job = j /\ pass'[p].target = target
           /\ \A q \in Passes \ {p} :
                IF pass[q].job # j THEN pass'[q] = pass[q]
                ELSE \/ pass'[q].pc = "idle" /\ pass'[q].job = NoJob
                     \/ /\ pass[q].pc = "call" /\ pass'[q].pc = "call" /\ pass'[q].job = j
                        /\ pass'[q].target = pass[q].target /\ ~pass'[q].fresh
<1>1. pass \in [Passes -> PassRow]
  BY DEF BackfillInv, Types
<1>2. \A q \in Passes \ {p} : pass'[q] = IF pass[q].job # j THEN pass[q]
                                         ELSE IF pass[q].pc = "call" THEN [pass[q] EXCEPT !.fresh = FALSE] ELSE IdlePass
  BY DEF Outdated
<1>3. pass'[p] = Calling(j, target) /\ pass' = [q \in Passes |-> pass'[q]]
  BY DEF Outdated
<1>4. /\ pass'[p] \in PassRow /\ pass'[p].pc = "call" /\ pass'[p].job = j /\ pass'[p].target = target
  BY <1>3, CallingRow
<1>5. ASSUME NEW q \in Passes \ {p}, pass[q].job = j, pass[q].pc = "call"
      PROVE  /\ pass'[q] \in PassRow /\ pass'[q].pc = "call" /\ pass'[q].job = j
             /\ pass'[q].target = pass[q].target /\ ~pass'[q].fresh
  <2>1. pass[q] \in PassRow
    BY <1>1
  <2>2. pass'[q] = [pc |-> pass[q].pc, job |-> pass[q].job, status |-> pass[q].status, dispatch |-> pass[q].dispatch,
                    held |-> pass[q].held, legacy |-> pass[q].legacy, fresh |-> FALSE,
                    found |-> pass[q].found, target |-> pass[q].target]
    BY <1>2, <1>5, <2>1 DEF PassRow
  <2>3. pass'[q] \in PassRow
    BY <2>1, <2>2, StaleRow
  <2>4. ~pass'[q].fresh /\ pass'[q].pc = pass[q].pc /\ pass'[q].job = pass[q].job /\ pass'[q].target = pass[q].target
    BY <2>2
  <2> QED
    BY <1>5, <2>3, <2>4
<1>6. \A q \in Passes \ {p} : pass[q].job = j /\ pass[q].pc # "call" => pass'[q] = IdlePass
  BY <1>2
<1>7. ASSUME NEW q \in Passes PROVE pass'[q] \in PassRow
  <2>1. CASE q = p
    BY <1>4, <2>1
  <2>2. CASE q # p /\ pass[q].job # j
    BY <1>1, <1>2, <2>2
  <2>3. CASE q # p /\ pass[q].job = j /\ pass[q].pc = "call"
    BY <1>5, <2>3
  <2>4. CASE q # p /\ pass[q].job = j /\ pass[q].pc # "call"
    BY <1>6, <2>4, IdleRow
  <2> QED
    BY <2>1, <2>2, <2>3, <2>4
<1>8. pass' \in [Passes -> PassRow]
  BY <1>3, <1>7
<1>9. ASSUME NEW q \in Passes \ {p}
      PROVE  IF pass[q].job # j THEN pass'[q] = pass[q]
             ELSE \/ pass'[q].pc = "idle" /\ pass'[q].job = NoJob
                  \/ /\ pass[q].pc = "call" /\ pass'[q].pc = "call" /\ pass'[q].job = j
                     /\ pass'[q].target = pass[q].target /\ ~pass'[q].fresh
  <2>1. CASE pass[q].job # j
    BY <1>2, <2>1
  <2>2. CASE pass[q].job = j /\ pass[q].pc = "call"
    BY <1>5, <2>2
  <2>3. CASE pass[q].job = j /\ pass[q].pc # "call"
    BY <1>6, <2>3, IdleRow
  <2> QED
    BY <2>1, <2>2, <2>3
<1> QED
  BY <1>4, <1>8, <1>9

LEMMA ClaimRecoveryKeeps ==
    ASSUME BackfillBounds, BackfillInv, NEW p \in Passes, ClaimRecovery(p) PROVE BackfillInv'
<1>1. UNCHANGED <<ledger, rendered, source, fence, platform>> /\ pass[p].pc = "claim"
  BY DEF ClaimRecovery, others
<1> PICK j \in Jobs : j = pass[p].job
  BY <1>1 DEF BackfillInv, PassesKept, PassKept
<1>2. /\ ~job[j].late /\ pass[p].target \in ClaimState
      /\ pass[p].target = "restarting" => platform[j] \in Ended
  BY <1>1 DEF BackfillInv, PassesKept, PassKept, Types, PassRow
<1>3. CASE Nothing(p) /\ UNCHANGED <<job, set, run, operator>>
  BY <1>1, <1>3, PassGivesUp DEF Rows
<1>4. ASSUME NEW status \in Checkpoints(p), fence[j] = "open", job[j].status \in Nonterminal \cup {"retryable"},
             Claim(j, status, pass[p].target), pass' = [Outdated(j) EXCEPT ![p] = Calling(j, pass[p].target)],
             operator' = [operator EXCEPT ![j] = "idle"]
      PROVE  BackfillInv'
  <2> DEFINE target == pass[p].target
  <2>1. /\ status \in Nonterminal
        /\ set[j] # "none" => status \in {"rendering", "finalizing"}
        /\ status \in {"rendering", "finalizing"} => set[j] # "none"
        /\ status = "finalizing" => rendered[j] = Slots
    BY CheckpointsProven
  <2> HIDE DEF target
  <2>2. target \in ClaimState /\ target \in Dispatch
    BY <1>2 DEF Dispatch, Live, target
  <2>3. /\ job' \in [Jobs -> JobRow] /\ \A k \in Jobs \ {j} : job'[k] = job[k]
        /\ job'[j].status = status /\ job'[j].dispatch = target /\ job'[j].young /\ ~job'[j].late
    <3>1. [status |-> status, dispatch |-> target, young |-> TRUE, recent |-> TRUE, late |-> FALSE] \in JobRow
      BY <2>1, <2>2 DEF JobRow, JobStatus
    <3> QED
      BY <1>4, <3>1 DEF Claim, BackfillInv, Types, target
  <2>4. RunMoves(j, run[j].pc, FALSE, run[j].status, run[j].next) /\ UNCHANGED set
    BY <1>4, RunStale DEF Claim
  <2>5. /\ pass' \in [Passes -> PassRow]
        /\ pass'[p].pc = "call" /\ pass'[p].job = j /\ pass'[p].target = target
        /\ \A q \in Passes \ {p} :
             IF pass[q].job # j THEN pass'[q] = pass[q]
             ELSE \/ pass'[q].pc = "idle" /\ pass'[q].job = NoJob
                  \/ /\ pass[q].pc = "call" /\ pass'[q].pc = "call" /\ pass'[q].job = j
                     /\ pass'[q].target = pass[q].target /\ ~pass'[q].fresh
    BY <1>2, <1>4, PassesOutdated DEF target
  <2>6. operator' \in [Jobs -> {"idle", "claimed", "launched"}]
    BY <1>4 DEF BackfillInv, Types
  <2>7. Types'
    BY <1>1, <2>3, <2>4, <2>5, <2>6 DEF BackfillInv, Types, RunMoves
  <2>8. JobKept(j) /\ RunKept(j)
    BY DEF BackfillInv, JobsKept
  <2>9. JobKept(j)'
    BY <1>1, <1>2, <1>4, <2>1, <2>3, <2>4, <2>8 DEF JobKept
  <2>10. \A n : Carried(j, n) => (status \in {"rendering", "finalizing"} /\ 1..n \subseteq rendered[j])
    BY <1>4, <2>1, <2>8 DEF Carried, JobKept, Over, Nonterminal
  <2>11. RunKept(j)'
    BY <1>1, <2>3, <2>4, <2>8, <2>10 DEF RunKept, RunMoves, Carried
  <2>12. \A q \in Passes : Restarting(q) => pass[q].job # j
    BY <1>1, BusyFree
  <2>13. PassKept(p)'
    <3>1. Pending(j)' \/ target # "restarting"
      BY <2>1, <2>3 DEF Pending
    <3>2. \A q \in Passes \ {p} : pass'[q].job = j => pass'[q].pc = "call" /\ pass'[q].target # "restarting" /\ ~pass'[q].fresh
      BY <2>5, <2>12 DEF BackfillBounds, Restarting
    <3>3. target = "restarting" => platform'[j] \in Ended
      BY <1>1, <1>2 DEF target
    <3> QED
      BY <2>3, <2>5, <3>1, <3>2, <3>3 DEF PassKept, Restarting
  <2>14. ASSUME NEW q \in Passes \ {p}, pass[q].job = j
         PROVE  pass'[q].job \in {j, NoJob} /\ PassKept(q)'
    <3>1. ~Restarting(q)
      BY <2>12, <2>14
    <3> QED
      BY <2>3, <2>5, <2>14, <3>1 DEF PassKept, Restarting
  <2>15. \A k \in Jobs \ {j} : /\ job'[k] = job[k] /\ set'[k] = set[k] /\ rendered'[k] = rendered[k]
                               /\ source'[k] = source[k] /\ run'[k] = run[k] /\ fence'[k] = fence[k]
                               /\ platform'[k] = platform[k]
    BY <1>1, <2>3, <2>4 DEF RunMoves
  <2> QED
    BY <1>1, <2>5, <2>7, <2>9, <2>11, <2>13, <2>14, <2>15, PassFrame
<1>5. CASE \E status \in Checkpoints(p) :
             /\ fence[j] = "open" /\ job[j].status \in Nonterminal \cup {"retryable"}
             /\ Claim(j, status, pass[p].target) /\ pass' = [Outdated(j) EXCEPT ![p] = Calling(j, pass[p].target)]
             /\ operator' = [operator EXCEPT ![j] = "idle"]
  BY <1>4, <1>5
<1> QED
  BY <1>3, <1>5 DEF ClaimRecovery

LEMMA CloseKeeps == ASSUME BackfillBounds, BackfillInv, Close PROVE BackfillInv'
<1>1. UNCHANGED <<job, fence, set, rendered, source, platform, run, operator, pass>> /\ ledger' \in {"verified", "failed"}
  BY DEF Close, rows
<1>2. Types'
  BY <1>1 DEF BackfillInv, Types
<1>3. JobsKept'
  BY <1>1 DEF BackfillInv, JobsKept, JobKept, RunKept, Carried, Close, Closable
<1>4. PassesKept'
  BY <1>1 DEF BackfillInv, PassesKept, PassKept, Restarting, Pending
<1> QED
  BY <1>2, <1>3, <1>4 DEF BackfillInv

LEMMA BackfillStands == ASSUME BackfillInv, UNCHANGED vars PROVE BackfillInv'
BY DEF vars, BackfillInv, Types, JobsKept, JobKept, RunKept, Carried, PassesKept, PassKept,
   Restarting, Pending

LEMMA BackfillGoesOn == BackfillBounds /\ BackfillInv /\ [Next]_vars => BackfillInv'
<1> SUFFICES ASSUME BackfillBounds, BackfillInv, [Next]_vars PROVE BackfillInv'
  OBVIOUS
<1>1. CASE UNCHANGED vars
  BY <1>1, BackfillStands
<1>2. CASE \E j \in Jobs : RunSteps(j) \/ InstanceErrs(j) \/ InstancePaused(j) \/ NormalizeFails(j) \/ Unsupported(j)
  BY <1>2, PreflightKeeps, ReadFenceKeeps, RefuseKeeps, SkipKeeps, StartKeeps, NormalizeKeeps,
     FreezeKeeps, ProfileKeeps,
     FinalizeKeeps, CheckpointKeeps, CommitKeeps, PlatformKeeps, NormalizeFailsKeeps, UnsupportedKeeps DEF RunSteps
<1>3. CASE \E j \in Jobs : OperatorSteps(j) \/ OperatorLeaves(j)
  BY <1>3, OperatorClaimsKeeps, OperatorTriggersKeeps, OperatorConfirmsKeeps,
     OperatorLeavesKeeps DEF OperatorSteps
<1>4. CASE \E j \in Jobs : Picks(j) \/ Settles(j) \/ Hosts(j) \/ Time(j)
  BY <1>4, PicksKeep, SettlesKeep, HostsKeep, TimeKeeps DEF Picks
<1>5. CASE \E p \in Passes : PassSteps(p) \/ LookFails(p) \/ CallFails(p) \/ PassDies(p)
  <2>1. PICK p \in Passes : PassSteps(p) \/ LookFails(p) \/ CallFails(p) \/ PassDies(p)
    BY <1>5
  <2>2. CASE PassDies(p)
    BY <2>2, PassGivesUp DEF PassDies, Rows, others, rows
  <2> QED
    BY <2>1, <2>2, LooksKeep, RecordFailureKeeps, ClaimRecoveryKeeps, CallsKeep,
       ConfirmRecoveryKeeps DEF PassSteps
<1>6. CASE Close
  BY <1>6, CloseKeeps
<1> QED
  BY <1>1, <1>2, <1>3, <1>4, <1>5, <1>6 DEF Next, Steady, Faults

-----------------------------------------------------------------------------
(* What no step does.                                                      *)

LEMMA InvGives == ASSUME BackfillInv PROVE TypeOK /\ ClosedForGood
<1>1. TypeOK
  BY DEF BackfillInv, Types, TypeOK, JobRow, RunRow, PassRow
<1>2. ClosedForGood
  BY DEF BackfillInv, JobsKept, JobKept, ClosedForGood
<1> QED
  BY <1>1, <1>2

\* A job is given up for good only if its event is deleted.
Spared(k) == job'[k].status = "failed" /\ job[k].status # "failed" => source[k] = "deleted"

LEMMA TerminalSpares ==
    ASSUME BackfillInv, NEW j \in Jobs, NEW seen, NEW status \in Over \cup {"retryable"}, RecordTerminal(j, status, seen),
           status = "failed" => ~(seen.fresh /\ job[j].status = seen.status /\ fence[j] = "open")
    PROVE  \A k \in Jobs : Spared(k)
<1>1. Recorded(j, status, seen)
  BY TerminalRecords
<1> QED
  BY <1>1 DEF Recorded, Spared

LEMMA ConfirmsSpares ==
    ASSUME BackfillInv, NEW j \in Jobs, NEW from, Confirms(j, from) PROVE \A k \in Jobs : Spared(k)
<1>1. Confirmed(j, from)
  BY ConfirmsConfirmed
<1>2. fence[j] = "blocked" => source[j] = "deleted"
  BY DEF BackfillInv, JobsKept, JobKept
<1> QED
  BY <1>1, <1>2 DEF Confirmed, Spared

LEMMA AdvanceSpares ==
    ASSUME BackfillInv, NEW j \in Jobs, NEW status \in JobStatus, job' = [job EXCEPT ![j].status = status],
           status # "failed" \/ source[j] = "deleted"
    PROVE  \A k \in Jobs : Spared(k)
<1>1. Advanced(j, status)
  BY StatusAdvances
<1> QED
  BY <1>1 DEF Advanced, Spared

LEMMA StillSpares == ASSUME job' = job PROVE \A k \in Jobs : Spared(k)
BY DEF Spared

LEMMA RefusedSpares ==
    ASSUME BackfillInv, NEW j \in Jobs, Refused(j)
    PROVE  \A k \in Jobs : Spared(k)
BY StillSpares, TerminalSpares DEF Refused, Over

LEMMA RunSpares ==
    ASSUME BackfillInv, NEW j \in Jobs, RunSteps(j) \/ NormalizeFails(j) \/ Unsupported(j)
    PROVE  \A k \in Jobs : Spared(k)
<1>1. RunKept(j) /\ rendered[j] \subseteq Slots
  BY DEF BackfillInv, JobsKept, Types
<1>2. CASE Preflight(j)
  BY <1>2, ConfirmsSpares DEF Preflight
<1>3. CASE ReadFence(j) \/ Normalize(j) \/ Profile(j) \/ Finalize(j) \/ RunEnds(j)
  BY <1>3, StillSpares DEF ReadFence, Normalize, Profile, Finalize, RunEnds, OnlyRun, rows
<1>4. CASE Refuse(j)
  BY <1>1, <1>4, TerminalSpares DEF Refuse, At, RunKept, Over
<1>5. CASE Skip(j) \/ Unsupported(j) \/ NormalizeFails(j)
  BY <1>5, TerminalSpares DEF Skip, Unsupported, NormalizeFails, Over
<1>6. CASE Start(j)
  BY <1>6, StillSpares, AdvanceSpares DEF Start, JobStatus, Nonterminal
<1>7. CASE Freeze(j)
  BY <1>7, StillSpares, AdvanceSpares DEF Freeze, JobStatus, Nonterminal
<1>8. CASE Checkpoint(j)
  <2>1. CASE rendered[j] # Slots /\ RecordTerminal(j, "failed", run[j])
    <3>1. job[j].status \in Over \/ rendered[j] = Slots
      BY <1>1, <1>8 DEF Checkpoint, At, RunKept, Carried, Slots
    <3>2. run[j].status \in {"rendering", "finalizing"}
      BY <1>1, <1>8 DEF Checkpoint, At, RunKept
    <3>3. job[j].status # run[j].status
      BY <2>1, <3>1, <3>2 DEF Over
    <3> QED
      BY <2>1, <3>3, TerminalSpares DEF Over
  <2>2. CASE job' = [job EXCEPT ![j].status = "finalizing"]
    <3>1. "finalizing" \in JobStatus
      BY DEF JobStatus, Nonterminal
    <3> QED
      BY <2>2, <3>1, AdvanceSpares
  <2>3. CASE Refused(j)
    BY <2>3, RefusedSpares
  <2> QED
    BY <1>8, <2>1, <2>2, <2>3 DEF Checkpoint
<1>9. CASE Commit(j)
  BY <1>9, RefusedSpares, AdvanceSpares DEF Commit, JobStatus
<1> QED
  BY <1>2, <1>3, <1>4, <1>5, <1>6, <1>7, <1>8, <1>9 DEF RunSteps

LEMMA OperatorSpares ==
    ASSUME BackfillInv, NEW j \in Jobs, OperatorSteps(j) \/ OperatorLeaves(j) PROVE \A k \in Jobs : Spared(k)
<1>1. CASE OperatorClaims(j)
  BY <1>1 DEF OperatorClaims, Claim, Spared, BackfillInv, Types
<1>2. CASE OperatorConfirms(j)
  BY <1>2, ConfirmsSpares DEF OperatorConfirms
<1> QED
  BY <1>1, <1>2, StillSpares DEF OperatorSteps, OperatorTriggers, OperatorLeaves, rows

LEMMA SettlesSpare ==
    ASSUME BackfillInv, NEW j \in Jobs, Settles(j) PROVE \A k \in Jobs : Spared(k)
<1>1. JobKept(j) /\ job \in [Jobs -> JobRow] /\ fence[j] \in {"none", "open", "blocked"}
  BY DEF BackfillInv, JobsKept, Types
<1>2. CASE ResolveSuperseded(j)
  <2>1. \A k \in Jobs \ {j} : job'[k] = job[k]
    BY <1>1, <1>2 DEF ResolveSuperseded
  <2>2. job'[j].status = "resolved"
    BY <1>1, <1>2 DEF ResolveSuperseded, JobRow
  <2> QED
    BY <2>1, <2>2 DEF Spared
<1>3. CASE SettleUnreachable(j)
  BY <1>1, <1>3, BlockedRow DEF SettleUnreachable, Spared, JobKept
<1>4. CASE PurgeBegins(j)
  BY <1>1, <1>4 DEF PurgeBegins, Spared
<1> QED
  BY <1>2, <1>3, <1>4 DEF Settles

LEMMA TimeSpares == ASSUME BackfillInv, NEW j \in Jobs, Time(j) PROVE \A k \in Jobs : Spared(k)
BY TimeTicks DEF Ticks, Spared

LEMMA PassesSpare ==
    ASSUME BackfillBounds, BackfillInv, NEW p \in Passes,
           PassSteps(p) \/ LookFails(p) \/ CallFails(p) \/ PassDies(p) \/ \E j \in Jobs : RecoverStale(p, j) \/ Select(p, j)
    PROVE  \A k \in Jobs : Spared(k)
<1>1. CASE RecordFailure(p)
  <2>1. pass[p].job \in Jobs
    BY <1>1 DEF RecordFailure, BackfillInv, PassesKept, PassKept
  <2> QED
    BY <1>1, <2>1, StillSpares, AdvanceSpares DEF RecordFailure, JobStatus
<1>2. CASE ClaimRecovery(p)
  <2>1. PICK j \in Jobs : j = pass[p].job
    BY <1>2 DEF ClaimRecovery, BackfillInv, PassesKept, PassKept
  <2>2. CASE \E status \in Checkpoints(p) : Claim(j, status, pass[p].target)
    <3>1. PICK status \in Checkpoints(p) : Claim(j, status, pass[p].target)
      BY <2>2
    <3>2. status # "failed"
      BY <2>1, <3>1, CheckpointsProven DEF Nonterminal
    <3> QED
      BY <3>1, <3>2 DEF Claim, Spared, BackfillInv, Types
  <2> QED
    BY <1>2, <2>1, <2>2, StillSpares DEF ClaimRecovery
<1>3. CASE ConfirmRecovery(p)
  BY <1>3, ConfirmsSpares DEF ConfirmRecovery, BackfillInv, PassesKept, PassKept
<1>4. CASE \E j \in Jobs : RecoverStale(p, j)
  BY <1>4, ConfirmsSpares, StillSpares DEF RecoverStale
<1>5. CASE Look(p) \/ Call(p) \/ LookFails(p) \/ CallFails(p) \/ PassDies(p) \/ \E j \in Jobs : Select(p, j)
  BY <1>5, StillSpares DEF Look, LookFails, LookAs, Call, CallFails, PassDies, Select, rows
<1> QED
  BY <1>1, <1>2, <1>3, <1>4, <1>5 DEF PassSteps

LEMMA StepSpares ==
    ASSUME BackfillBounds, BackfillInv, Next PROVE NotWrittenOff
<1>1. \A k \in Jobs : Spared(k)
  <2>1. CASE \E j \in Jobs : InstanceErrs(j) \/ InstancePaused(j) \/ Hosts(j)
    BY <2>1, StillSpares DEF InstanceErrs, InstancePaused, Hosts, Replaces, Deletes, rows
  <2>2. CASE Close
    BY <2>2, StillSpares DEF Close, rows
  <2> QED
    BY <2>1, <2>2, RunSpares, OperatorSpares, SettlesSpare, TimeSpares, PassesSpare DEF Next,
       Steady, Faults, Picks
<1> QED
  BY <1>1 DEF NotWrittenOff, Spared

LEMMA StepConvertsOwn ==
    ASSUME BackfillInv, Next PROVE NewerCoverWins
<1>1. source \in [Jobs -> {"legacy", "replaced", "deleted", "converted"}]
  BY DEF BackfillInv, Types
<1>2. CASE source' = source
  BY <1>2 DEF NewerCoverWins
<1>3. CASE \E j \in Jobs : Commit(j) \/ Hosts(j)
  BY <1>1, <1>3 DEF NewerCoverWins, Commit, Publish, Admitted, Hosts, Replaces, Deletes
<1>4. CASE \E j \in Jobs : Preflight(j) \/ ReadFence(j) \/ Refuse(j) \/ Skip(j) \/ Start(j) \/ Normalize(j) \/ Freeze(j)
                           \/ Profile(j) \/ Finalize(j) \/ Checkpoint(j) \/ RunEnds(j) \/ NormalizeFails(j) \/ Unsupported(j)
  <2>1. source' = source
    BY <1>4 DEF Preflight, ReadFence, Refuse, Skip, Start, Normalize, Freeze, Profile, Finalize,
       Checkpoint, RunEnds,
       NormalizeFails, Unsupported, OnlyRun, OnlyJob, others
  <2> QED
    BY <1>2, <2>1
<1>5. CASE \E j \in Jobs : OperatorSteps(j) \/ OperatorLeaves(j) \/ InstanceErrs(j) \/ InstancePaused(j) \/ Settles(j) \/ Time(j)
  <2>1. source' = source
    BY <1>5 DEF OperatorSteps, OperatorClaims, OperatorTriggers, OperatorConfirms, OperatorLeaves,
       InstanceErrs,
       InstancePaused, Settles, ResolveSuperseded, SettleUnreachable, PurgeBegins, Time,
       MinuteEnds, Ages, WindowEnds, others
  <2> QED
    BY <1>2, <2>1
<1>6. CASE \E p \in Passes : PassSteps(p) \/ LookFails(p) \/ CallFails(p) \/ PassDies(p)
                             \/ \E j \in Jobs : RecoverStale(p, j) \/ Select(p, j)
  <2>1. source' = source
    BY <1>6 DEF PassSteps, Look, LookAs, LookFails, RecordFailure, ClaimRecovery, Call, CallFails,
       ConfirmRecovery,
       PassDies, RecoverStale, Select, others
  <2> QED
    BY <1>2, <2>1
<1>7. CASE Close
  BY <1>2, <1>7 DEF Close
<1> QED
  BY <1>3, <1>4, <1>5, <1>6, <1>7 DEF Next, Steady, Faults, RunSteps, Picks

-----------------------------------------------------------------------------
(* The budgets, of a run none of whose events is deleted.                  *)

Recent == {j \in Jobs : job[j].recent}
Charged == {j \in Jobs : job[j].dispatch \in Live /\ job[j].status \in Nonterminal}

\* An instance that converts is of a job that is charged.
WorksCharged(j) ==
    /\ run[j].pc \notin {"off", "preflight", "done"} => job[j].dispatch \in Live
    /\ run[j].pc \in {"fence", "start"} /\ run[j].status \in Nonterminal => job[j].status \in Nonterminal
    /\ run[j].pc \in {"normalize", "freeze", "profile", "finalize", "checkpoint", "commit"} => job[j].status \in Nonterminal

BudgetInv ==
    /\ \A j \in Jobs : /\ source[j] # "deleted" /\ WorksCharged(j)
                       /\ job[j].recent => fence[j] = "open"
    /\ Cardinality(Recent) <= PerMinute /\ Cardinality(Charged) <= InFlight

\* A step that spends nothing for the job k.
Calm(k) ==
    /\ source'[k] # "deleted" /\ (fence[k] = "open" => fence'[k] = "open")
    /\ job'[k].recent => job[k].recent
    /\ job'[k].dispatch \in Live /\ job'[k].status \in Nonterminal =>
         job[k].dispatch \in Live /\ job[k].status \in Nonterminal
    /\ WorksCharged(k)'

LEMMA FewRemain ==
    ASSUME NEW S, NEW T, NEW limit, IsFiniteSet(S), T \subseteq S, limit \in Nat, Cardinality(S) <= limit
    PROVE  Cardinality(T) <= limit
<1>1. Cardinality(T) <= Cardinality(S) /\ IsFiniteSet(T)
  BY FS_Subset
<1>2. Cardinality(T) \in Nat /\ Cardinality(S) \in Nat
  BY <1>1, FS_CardinalityType
<1> QED
  BY <1>1, <1>2

LEMMA OneMoreFits ==
    ASSUME NEW S, NEW j, NEW limit, IsFiniteSet(S), limit \in Nat, Cardinality(S) < limit
    PROVE  Cardinality(S \cup {j}) <= limit /\ IsFiniteSet(S \cup {j})
<1>1. IsFiniteSet(S \cup {j}) /\ Cardinality(S) \in Nat
      /\ (Cardinality(S \cup {j}) = Cardinality(S) \/ Cardinality(S \cup {j}) = Cardinality(S) + 1)
  BY FS_AddElement, FS_CardinalityType
<1> QED
  BY <1>1

LEMMA CalmKeeps ==
    ASSUME BackfillBounds, BudgetInv, \A k \in Jobs : Calm(k) PROVE BudgetInv'
<1>1. Recent' \subseteq Recent /\ Charged' \subseteq Charged
  BY DEF Calm, Recent, Charged
<1>2. IsFiniteSet(Recent) /\ IsFiniteSet(Charged) /\ PerMinute \in Nat /\ InFlight \in Nat
  BY FS_Subset DEF BackfillBounds, Recent, Charged
<1>3. Cardinality(Recent') <= PerMinute
  BY <1>1, <1>2, FewRemain DEF BudgetInv
<1>4. Cardinality(Charged') <= InFlight
  BY <1>1, <1>2, FewRemain DEF BudgetInv
<1> QED
  BY <1>3, <1>4 DEF BudgetInv, Calm

\* A claim spends what is left of both.
LEMMA ClaimSpends ==
    ASSUME BackfillBounds, BudgetInv, NEW j \in Jobs, Budget(j), UNCHANGED source, fence'[j] = "open",
           \A k \in Jobs \ {j} : job'[k] = job[k] /\ run'[k] = run[k] /\ fence'[k] = fence[k],
           job'[j].status \in Nonterminal, job'[j].dispatch \in Live
    PROVE  BudgetInv'
<1>1. IsFiniteSet(Jobs) /\ PerMinute \in Nat /\ InFlight \in Nat
  BY DEF BackfillBounds
<1>2. Cardinality(Recent') <= PerMinute
  <2>1. Recent = {k \in Jobs : fence[k] = "open" /\ job[k].recent} /\ Recent \subseteq Jobs
    BY DEF Recent, BudgetInv
  <2>2. Cardinality(Recent) < PerMinute /\ IsFiniteSet(Recent)
    BY <1>1, <2>1, FS_Subset DEF Budget
  <2>3. Recent' \subseteq Recent \cup {j}
    BY DEF Recent
  <2> QED
    BY <1>1, <2>2, <2>3, OneMoreFits, FewRemain
<1>3. Cardinality(Charged') <= InFlight
  <2> DEFINE elsewhere == {k \in Jobs \ {j} : job[k].dispatch \in Live /\ job[k].status \in Nonterminal}
  <2>1. Cardinality(elsewhere) < InFlight /\ IsFiniteSet(elsewhere)
    BY <1>1, FS_Subset DEF Budget
  <2>2. Charged' \subseteq elsewhere \cup {j}
    BY DEF Charged
  <2> HIDE DEF elsewhere
  <2> QED
    BY <1>1, <2>1, <2>2, OneMoreFits, FewRemain
<1>4. ASSUME NEW k \in Jobs
      PROVE  source'[k] # "deleted" /\ WorksCharged(k)' /\ (job'[k].recent => fence'[k] = "open")
  BY DEF BudgetInv, WorksCharged
<1> QED
  BY <1>2, <1>3, <1>4 DEF BudgetInv

LEMMA StillCalm ==
    ASSUME BudgetInv, NEW k \in Jobs, job'[k] = job[k], run'[k] = run[k], source'[k] = source[k], fence'[k] = fence[k]
    PROVE  Calm(k)
BY DEF BudgetInv, Calm, WorksCharged

\* A step of the instance of j, or of its job.
LEMMA CalmStep ==
    ASSUME BackfillBounds, BudgetInv, NEW j \in Jobs, UNCHANGED fence,
           \A k \in Jobs \ {j} : job'[k] = job[k] /\ run'[k] = run[k] /\ source'[k] = source[k],
           source'[j] # "deleted", job'[j].recent => job[j].recent,
           job'[j].dispatch \in Live /\ job'[j].status \in Nonterminal =>
             job[j].dispatch \in Live /\ job[j].status \in Nonterminal,
           WorksCharged(j)'
    PROVE  BudgetInv'
<1>1. Calm(j)
  BY DEF Calm
<1>2. \A k \in Jobs \ {j} : Calm(k)
  BY StillCalm
<1> QED
  BY <1>1, <1>2, CalmKeeps

LEMMA RecordsCalmly ==
    ASSUME BackfillBounds, BackfillInv, BudgetInv, NEW j \in Jobs, NEW seen, NEW status \in Over \cup {"retryable"},
           RecordTerminal(j, status, seen), Ends(j), OnlyJob
    PROVE  BudgetInv'
<1>1. Recorded(j, status, seen)
  BY TerminalRecords
<1>2. (\A k \in Jobs \ {j} : run'[k] = run[k]) /\ run'[j].pc = "done"
  BY RunEndsDone
<1>3. UNCHANGED <<source, fence>>
  BY DEF OnlyJob, others
<1>4. /\ job'[j].recent => job[j].recent
      /\ job'[j].dispatch \in Live /\ job'[j].status \in Nonterminal =>
             job[j].dispatch \in Live /\ job[j].status \in Nonterminal
  BY <1>1 DEF Recorded, Over, Nonterminal
<1>5. WorksCharged(j)'
  BY <1>2 DEF WorksCharged
<1> QED
  BY <1>1, <1>2, <1>3, <1>4, <1>5, CalmStep DEF BudgetInv, Recorded

\* A run that ends, or begins its finalization again.
LEMMA EndsCalmly ==
    ASSUME BackfillBounds, BackfillInv, BudgetInv, NEW j \in Jobs, UNCHANGED <<job, source, fence>>,
           \/ Ends(j)
           \/ Restarts(j) /\ run[j].pc \in {"profile", "checkpoint", "commit"}
    PROVE  BudgetInv'
<1>1. CASE Ends(j)
  <2>1. (\A k \in Jobs \ {j} : run'[k] = run[k]) /\ run'[j].pc = "done"
    BY <1>1, RunEndsDone
  <2>2. WorksCharged(j)'
    BY <2>1 DEF WorksCharged
  <2> QED
    BY <2>1, <2>2, CalmStep DEF BudgetInv
<1>2. CASE Restarts(j) /\ run[j].pc \in {"profile", "checkpoint", "commit"}
  <2>1. (\A k \in Jobs \ {j} : run'[k] = run[k]) /\ run'[j].pc = "finalize"
    BY <1>2, RunRestarts
  <2>2. WorksCharged(j)'
    BY <1>2, <2>1 DEF WorksCharged, BudgetInv
  <2> QED
    BY <2>1, <2>2, CalmStep DEF BudgetInv
<1> QED
  BY <1>1, <1>2

LEMMA RefusedCalmly ==
    ASSUME BackfillBounds, BackfillInv, BudgetInv, NEW j \in Jobs, run[j].pc \in {"checkpoint", "commit"}, Refused(j), OnlyJob
    PROVE  BudgetInv'
<1>1. UNCHANGED <<source, fence>>
  BY DEF OnlyJob, others
<1>2. CASE RecordTerminal(j, "skipped", Seen(j)) /\ Ends(j)
  BY <1>2, RecordsCalmly DEF Over
<1> QED
  BY <1>1, <1>2, EndsCalmly DEF Refused

\* A claim is confirmed, and its instance goes on, stops or begins.
LEMMA ConfirmsCalmly ==
    ASSUME BackfillBounds, BackfillInv, BudgetInv, NEW j \in Jobs, NEW from \in ClaimState, Confirmed(j, from),
           UNCHANGED <<source, fence>>, \A k \in Jobs \ {j} : run'[k] = run[k],
           \/ run'[j].pc \in {"off", "preflight", "done"}
           \/ run'[j] = run[j]
           \/ /\ run'[j].pc = "fence" /\ job'[j].dispatch \in Live
              /\ run'[j].status \in Nonterminal => job'[j].status \in Nonterminal
    PROVE  BudgetInv'
<1>1. fence[j] # "blocked"
  BY DEF BackfillInv, JobsKept, JobKept, BudgetInv
<1>2. /\ job'[j].status = job[j].status /\ job'[j].recent = job[j].recent
      /\ job'[j].dispatch = job[j].dispatch \/ (job[j].dispatch \in Live /\ job'[j].dispatch = "confirmed")
  BY <1>1 DEF Confirmed, Live
<1>3. WorksCharged(j)'
  BY <1>2 DEF WorksCharged, BudgetInv, Live
<1> QED
  BY <1>2, <1>3, CalmStep DEF BudgetInv, Confirmed

\* A run that goes on to pc while its job stays what it is.
LEMMA MovesCalmly ==
    ASSUME BackfillBounds, BackfillInv, BudgetInv, NEW j \in Jobs, UNCHANGED <<job, source, fence>>,
           NEW pc, NEW fresh, NEW status, NEW next, RunMoves(j, pc, fresh, status, next),
           run[j].pc \notin {"off", "preflight", "done"},
           pc \in {"fence", "start"} /\ status \in Nonterminal => job[j].status \in Nonterminal,
           pc \in {"normalize", "freeze", "profile", "finalize", "checkpoint", "commit"} => job[j].status \in Nonterminal
    PROVE  BudgetInv'
<1>1. WorksCharged(j)'
  BY DEF WorksCharged, BudgetInv, RunMoves
<1> QED
  BY <1>1, CalmStep DEF BudgetInv, RunMoves

\* A job that advances under a run that goes on, or ends it.
LEMMA AdvancesCalmly ==
    ASSUME BackfillBounds, BackfillInv, BudgetInv, NEW j \in Jobs, UNCHANGED fence, source'[j] # "deleted",
           \A k \in Jobs \ {j} : source'[k] = source[k],
           NEW status, Advanced(j, status), \A k \in Jobs \ {j} : run'[k] = run[k],
           job[j].status \in Nonterminal, run[j].pc \notin {"off", "preflight", "done"},
           run'[j].pc = "done" \/ (run'[j].pc \in {"normalize", "profile", "commit"} /\ status \in Nonterminal)
    PROVE  BudgetInv'
<1>1. WorksCharged(j)'
  BY DEF WorksCharged, BudgetInv, Advanced
<1> QED
  BY <1>1, CalmStep DEF BudgetInv, Advanced

LEMMA RunCalm ==
    ASSUME BackfillBounds, BackfillInv, BudgetInv, NEW j \in Jobs, RunSteps(j) \/ NormalizeFails(j) \/ Unsupported(j)
    PROVE  BudgetInv'
<1>1. WorksCharged(j) /\ source[j] # "deleted"
  BY DEF BudgetInv
<1>2. CASE Preflight(j)
  <2>1. Confirmed(j, "creating") /\ UNCHANGED <<source, fence>>
    BY <1>2, ConfirmsConfirmed DEF Preflight, OnlyJob, others
  <2>2. CASE Ends(j)
    <3>1. (\A k \in Jobs \ {j} : run'[k] = run[k]) /\ run'[j].pc = "done"
      BY <2>2, RunEndsDone
    <3> QED
      BY <2>1, <3>1, ConfirmsCalmly DEF ClaimState
  <2>3. CASE /\ job'[j].status \in Nonterminal \cup {"retryable"} /\ job'[j].dispatch \in Live
             /\ run' = [run EXCEPT ![j] = [Seen(j) EXCEPT !.pc = "fence", !.dispatch = job'[j].dispatch]]
    <3>1. Seen(j) \in RunRow /\ Seen(j).status = job[j].status
      BY SeenRow DEF RunPcs
    <3>2. /\ [Seen(j) EXCEPT !.pc = "fence", !.dispatch = job'[j].dispatch].pc = "fence"
          /\ [Seen(j) EXCEPT !.pc = "fence", !.dispatch = job'[j].dispatch].status = job[j].status
      BY <3>1 DEF RunRow
    <3>3. /\ (\A k \in Jobs \ {j} : run'[k] = run[k])
          /\ run'[j].pc = "fence" /\ run'[j].status = job[j].status
      BY <2>3, <3>2 DEF BackfillInv, Types
    <3>4. fence[j] # "blocked"
      BY <1>1 DEF BackfillInv, JobsKept, JobKept
    <3>5. job'[j].status = job[j].status
      BY <2>1, <3>4 DEF Confirmed
    <3> QED
      BY <2>1, <2>3, <3>3, <3>5, ConfirmsCalmly DEF ClaimState
  <2> QED
    BY <1>2, <2>2, <2>3 DEF Preflight
<1>3. CASE ReadFence(j)
  <2>1. PICK pc \in {"refuse", "start", "skip"} : Goes(j, pc)
    BY <1>3 DEF ReadFence
  <2>2. RunMoves(j, pc, run[j].fresh, run[j].status, run[j].next)
    BY <2>1, RunGoes DEF RunPcs
  <2>3. UNCHANGED <<job, source, fence>> /\ run[j].pc = "fence"
    BY <1>3 DEF ReadFence, At, OnlyRun, rows, others
  <2> QED
    BY <1>1, <2>2, <2>3, MovesCalmly DEF WorksCharged
<1>4. CASE Refuse(j) \/ Skip(j) \/ Unsupported(j) \/ NormalizeFails(j)
  BY <1>4, RecordsCalmly DEF Refuse, Skip, Unsupported, NormalizeFails, Over
<1>5. CASE Start(j)
  <2>1. UNCHANGED <<source, fence>> /\ run[j].pc = "start"
    BY <1>5 DEF Start, At, OnlyJob, others
  <2>2. CASE run[j].status \in {"rendering", "finalizing"} /\ Goes(j, "normalize") /\ UNCHANGED job
    <3>1. RunMoves(j, "normalize", run[j].fresh, run[j].status, run[j].next)
      BY <2>2, RunGoes DEF RunPcs
    <3> QED
      BY <1>1, <2>1, <2>2, <3>1, MovesCalmly DEF WorksCharged, Nonterminal
  <2>3. CASE /\ job[j].status \in {"queued", "normalizing"} /\ job' = [job EXCEPT ![j].status = "normalizing"]
             /\ Goes(j, "normalize")
    <3>1. Advanced(j, "normalizing") /\ job[j].status \in Nonterminal
      BY <2>3, StatusAdvances DEF JobStatus, Nonterminal
    <3>2. (\A k \in Jobs \ {j} : run'[k] = run[k]) /\ run'[j].pc = "normalize"
      BY <2>3, RunGoes DEF RunPcs, RunMoves
    <3> QED
      BY <1>1, <2>1, <3>1, <3>2, AdvancesCalmly DEF Nonterminal
  <2>4. CASE Ends(j) /\ UNCHANGED job
    BY <2>1, <2>4, EndsCalmly
  <2> QED
    BY <1>5, <2>2, <2>3, <2>4 DEF Start
<1>6. CASE Normalize(j)
  <2>1. UNCHANGED <<job, source, fence>> /\ run[j].pc = "normalize"
    BY <1>6 DEF Normalize, At, OnlyRun, rows, others
  <2>2. CASE Ends(j)
    BY <2>1, <2>2, EndsCalmly
  <2>3. CASE \E pc \in {"profile", "freeze", "skip"} : Reads(j, pc)
    <3>1. PICK pc \in {"profile", "freeze", "skip"} : Reads(j, pc)
      BY <2>3
    <3>2. RunMoves(j, pc, TRUE, job[j].status, 1)
      BY <3>1, RunReads DEF RunPcs
    <3> QED
      BY <1>1, <2>1, <3>2, MovesCalmly DEF WorksCharged
  <2> QED
    BY <1>6, <2>2, <2>3 DEF Normalize
<1>7. CASE Freeze(j)
  <2>1. UNCHANGED <<source, fence>> /\ run[j].pc = "freeze"
    BY <1>7 DEF Freeze, At, OnlyJob, others
  <2>2. CASE Ends(j) /\ UNCHANGED job
    BY <2>1, <2>2, EndsCalmly
  <2>3. CASE job[j].status = "normalizing" /\ job' = [job EXCEPT ![j].status = "rendering"] /\ Goes(j, "profile")
    <3>1. Advanced(j, "rendering") /\ job[j].status \in Nonterminal
      BY <2>3, StatusAdvances DEF JobStatus, Nonterminal
    <3>2. (\A k \in Jobs \ {j} : run'[k] = run[k]) /\ run'[j].pc = "profile"
      BY <2>3, RunGoes DEF RunPcs, RunMoves
    <3> QED
      BY <1>1, <2>1, <3>1, <3>2, AdvancesCalmly DEF Nonterminal
  <2> QED
    BY <1>7, <2>2, <2>3 DEF Freeze
<1>8. CASE Profile(j)
  <2>1. UNCHANGED <<job, source, fence>> /\ run[j].pc = "profile"
    BY <1>8 DEF Profile, At, rows
  <2>2. CASE Restarts(j)
    BY <2>1, <2>2, EndsCalmly
  <2>3. CASE run' = [run EXCEPT ![j] = [IdleRun EXCEPT !.pc = "profile", !.next = run[j].next + 1]]
    <3>1. [IdleRun EXCEPT !.pc = "profile", !.next = run[j].next + 1].pc = "profile"
      BY RestRows DEF RunRow
    <3>2. (\A k \in Jobs \ {j} : run'[k] = run[k]) /\ run'[j].pc = "profile"
      BY <2>3, <3>1 DEF BackfillInv, Types
    <3>3. WorksCharged(j)'
      BY <1>1, <2>1, <3>2 DEF WorksCharged
    <3> QED
      BY <1>1, <2>1, <3>2, <3>3, CalmStep DEF BudgetInv
  <2> QED
    BY <1>8, <2>2, <2>3 DEF Profile
<1>9. CASE Finalize(j)
  <2>1. UNCHANGED <<job, source, fence>> /\ run[j].pc = "finalize"
    BY <1>9 DEF Finalize, At, OnlyRun, rows, others
  <2>2. CASE Ends(j)
    BY <2>1, <2>2, EndsCalmly
  <2>3. CASE \E pc \in {"skip", "commit", "checkpoint"} : Reads(j, pc)
    <3>1. PICK pc \in {"skip", "commit", "checkpoint"} : Reads(j, pc)
      BY <2>3
    <3>2. RunMoves(j, pc, TRUE, job[j].status, 1)
      BY <3>1, RunReads DEF RunPcs
    <3> QED
      BY <1>1, <2>1, <3>2, MovesCalmly DEF WorksCharged
  <2> QED
    BY <1>9, <2>2, <2>3 DEF Finalize
<1>10. CASE Checkpoint(j)
  <2>1. OnlyJob /\ UNCHANGED <<source, fence>> /\ run[j].pc = "checkpoint"
    BY <1>10 DEF Checkpoint, At, OnlyJob, others
  <2>2. CASE RecordTerminal(j, "failed", run[j]) /\ Ends(j)
    BY <2>1, <2>2, RecordsCalmly DEF Over
  <2>3. CASE Refused(j)
    BY <2>1, <2>3, RefusedCalmly
  <2>4. CASE job' = [job EXCEPT ![j].status = "finalizing"] /\ Goes(j, "commit")
    <3>1. Advanced(j, "finalizing") /\ job[j].status \in Nonterminal
      BY <1>1, <2>1, <2>4, StatusAdvances DEF JobStatus, Nonterminal, WorksCharged
    <3>2. (\A k \in Jobs \ {j} : run'[k] = run[k]) /\ run'[j].pc = "commit"
      BY <2>4, RunGoes DEF RunPcs, RunMoves
    <3> QED
      BY <1>1, <2>1, <3>1, <3>2, AdvancesCalmly DEF Nonterminal
  <2> QED
    BY <1>10, <2>2, <2>3, <2>4 DEF Checkpoint
<1>11. CASE Commit(j)
  <2>1. UNCHANGED fence /\ run[j].pc = "commit"
    BY <1>11 DEF Commit, At
  <2>2. CASE Refused(j) /\ UNCHANGED source
    BY <1>11, <2>1, <2>2, RefusedCalmly DEF Commit, OnlyJob, others
  <2>3. CASE /\ job' = [job EXCEPT ![j].status = "applied"] /\ source' = [source EXCEPT ![j] = "converted"] /\ Ends(j)
    <3>1. Advanced(j, "applied") /\ job[j].status \in Nonterminal
      BY <1>1, <2>1, <2>3, StatusAdvances DEF JobStatus, WorksCharged
    <3>2. (\A k \in Jobs \ {j} : run'[k] = run[k]) /\ run'[j].pc = "done"
      BY <2>3, RunEndsDone
    <3>3. source'[j] # "deleted" /\ \A k \in Jobs \ {j} : source'[k] = source[k]
      BY <2>3 DEF BackfillInv, Types
    <3> QED
      BY <2>1, <3>1, <3>2, <3>3, AdvancesCalmly
  <2> QED
    BY <1>11, <2>2, <2>3 DEF Commit
<1>12. CASE RunEnds(j)
  <2>1. UNCHANGED <<job, source, fence>> /\ (\A k \in Jobs \ {j} : run'[k] = run[k]) /\ run'[j].pc = "off"
    BY <1>12, RestRows DEF RunEnds, others, rows, BackfillInv, Types
  <2>2. WorksCharged(j)'
    BY <2>1 DEF WorksCharged
  <2> QED
    BY <1>1, <2>1, <2>2, CalmStep DEF BudgetInv
<1> QED
  BY <1>2, <1>3, <1>4, <1>5, <1>6, <1>7, <1>8, <1>9, <1>10, <1>11, <1>12 DEF RunSteps

\* The platform, called or by itself.
LEMMA EffectedCalmly ==
    ASSUME BackfillBounds, BackfillInv, BudgetInv, NEW j \in Jobs, UNCHANGED <<job, source, fence>>,
           \A k \in Jobs \ {j} : run'[k] = run[k],
           run'[j].pc \in {"off", "preflight"} \/ run'[j] = run[j]
    PROVE  BudgetInv'
<1>1. WorksCharged(j)'
  BY DEF WorksCharged, BudgetInv
<1> QED
  BY <1>1, CalmStep DEF BudgetInv

LEMMA PlatformCalm ==
    ASSUME BackfillBounds, BackfillInv, BudgetInv, NEW j \in Jobs, InstanceErrs(j) \/ InstancePaused(j) \/ OperatorTriggers(j)
    PROVE  BudgetInv'
<1>1. UNCHANGED <<job, source, fence>>
  BY DEF InstanceErrs, InstancePaused, OperatorTriggers, others, rows
<1>2. CASE InstanceErrs(j) \/ InstancePaused(j)
  <2>1. (\A k \in Jobs \ {j} : run'[k] = run[k]) /\ (run'[j].pc = "off" \/ run'[j] = run[j])
    BY <1>2, RestRows DEF InstanceErrs, InstancePaused, BackfillInv, Types
  <2> QED
    BY <1>1, <2>1, EffectedCalmly
<1>3. CASE OperatorTriggers(j)
  <2>1. Effected(j, "creating")
    BY <1>3, EffectBounded DEF OperatorTriggers
  <2> QED
    BY <1>1, <2>1, EffectedCalmly DEF Effected
<1> QED
  BY <1>2, <1>3

LEMMA OperatorCalm ==
    ASSUME BackfillBounds, BackfillInv, BudgetInv, NEW j \in Jobs, OperatorClaims(j) \/ OperatorConfirms(j)
    PROVE  BudgetInv'
<1>1. CASE OperatorClaims(j)
  <2>1. Budget(j) /\ UNCHANGED source
    BY <1>1 DEF OperatorClaims, others
  <2>2. /\ \A k \in Jobs \ {j} : job'[k] = job[k] /\ run'[k] = run[k] /\ fence'[k] = fence[k]
        /\ fence'[j] = "open" /\ job'[j].status = "queued" /\ job'[j].dispatch = "creating"
    BY <1>1 DEF OperatorClaims, Claim, BackfillInv, Types
  <2> QED
    BY <2>1, <2>2, ClaimSpends DEF Nonterminal, Live, ClaimState
<1>2. CASE OperatorConfirms(j)
  <2>1. Confirmed(j, "creating") /\ UNCHANGED <<source, fence>>
    BY <1>2, ConfirmsConfirmed DEF OperatorConfirms, others
  <2>2. (\A k \in Jobs \ {j} : run'[k] = run[k]) /\ (run'[j].pc = "off" \/ run'[j] = run[j])
    BY <1>2, RestRows DEF OperatorConfirms, BackfillInv, Types
  <2> QED
    BY <2>1, <2>2, ConfirmsCalmly DEF ClaimState
<1> QED
  BY <1>1, <1>2

LEMMA SettlesCalm ==
    ASSUME BackfillBounds, BackfillInv, BudgetInv, NEW j \in Jobs, Settles(j) PROVE BudgetInv'
<1>1. JobKept(j) /\ job \in [Jobs -> JobRow] /\ fence[j] \in {"none", "open", "blocked"}
  BY DEF BackfillInv, JobsKept, Types
<1>2. WorksCharged(j) /\ source[j] # "deleted"
  BY DEF BudgetInv
<1>3. CASE ResolveSuperseded(j)
  <2>1. /\ UNCHANGED <<run, source, fence>> /\ \A k \in Jobs \ {j} : job'[k] = job[k]
        /\ job[j].status \notin Nonterminal
    BY <1>1, <1>3 DEF ResolveSuperseded, others, Nonterminal
  <2>2. job'[j].status = "resolved" /\ job'[j].dispatch = job[j].dispatch /\ job'[j].recent = job[j].recent
    BY <1>1, <1>3 DEF ResolveSuperseded, JobRow
  <2>3. WorksCharged(j)'
    BY <1>2, <2>1, <2>2 DEF WorksCharged
  <2> QED
    BY <1>2, <2>1, <2>2, <2>3, CalmStep DEF Nonterminal
<1>4. ~SettleUnreachable(j) /\ ~PurgeBegins(j)
  BY <1>1, <1>2 DEF SettleUnreachable, PurgeBegins, JobKept
<1> QED
  BY <1>3, <1>4 DEF Settles

LEMMA SurroundingsCalm ==
    ASSUME BackfillBounds, BackfillInv, BudgetInv, "delete" \notin Hazards,
           Close \/ \E j \in Jobs : Hosts(j) \/ OperatorLeaves(j) \/ Time(j)
    PROVE  BudgetInv'
<1>1. CASE Close \/ \E j \in Jobs : OperatorLeaves(j)
  <2>1. UNCHANGED <<job, run, source, fence>>
    BY <1>1 DEF Close, OperatorLeaves, rows, others
  <2> QED
    BY <2>1, StillCalm, CalmKeeps
<1>2. ASSUME NEW j \in Jobs, Hosts(j) PROVE BudgetInv'
  <2>1. UNCHANGED <<job, run, fence>> /\ source'[j] = "replaced" /\ \A k \in Jobs \ {j} : source'[k] = source[k]
    BY <1>2 DEF Hosts, Replaces, Deletes, rows, BackfillInv, Types
  <2>2. WorksCharged(j)'
    BY <2>1 DEF WorksCharged, BudgetInv
  <2> QED
    BY <2>1, <2>2, CalmStep
<1>3. ASSUME NEW j \in Jobs, Time(j) PROVE BudgetInv'
  <2>1. UNCHANGED <<run, source, fence>>
    BY <1>3 DEF Time, MinuteEnds, Ages, WindowEnds, others
  <2>2. /\ \A k \in Jobs \ {j} : job'[k] = job[k]
        /\ job'[j].status = job[j].status /\ job'[j].dispatch = job[j].dispatch
        /\ job'[j].recent => job[j].recent
    BY <1>3, TimeTicks DEF Ticks
  <2>3. WorksCharged(j)'
    BY <2>1, <2>2 DEF WorksCharged, BudgetInv
  <2> QED
    BY <2>1, <2>2, <2>3, CalmStep DEF BudgetInv
<1> QED
  BY <1>1, <1>2, <1>3

LEMMA PassesCalm ==
    ASSUME BackfillBounds, BackfillInv, BudgetInv, NEW p \in Passes,
           PassSteps(p) \/ LookFails(p) \/ CallFails(p) \/ PassDies(p) \/ \E j \in Jobs : RecoverStale(p, j) \/ Select(p, j)
    PROVE  BudgetInv'
<1>1. CASE RecordFailure(p)
  <2>1. UNCHANGED <<run, source, fence>> /\ pass[p].pc = "record"
    BY <1>1 DEF RecordFailure, others
  <2>2. PICK j \in Jobs : j = pass[p].job
    BY <2>1 DEF BackfillInv, PassesKept, PassKept
  <2>3. run[j].pc = "off"
    BY <2>1, <2>2 DEF BackfillInv, PassesKept, PassKept, JobsKept, RunKept
  <2>4. CASE job' = job
    BY <2>1, <2>4, StillCalm, CalmKeeps
  <2>5. CASE job' = [job EXCEPT ![j].status = "retryable"]
    <3>1. Advanced(j, "retryable")
      BY <2>5, StatusAdvances DEF JobStatus
    <3>2. WorksCharged(j)'
      BY <2>1, <2>3 DEF WorksCharged
    <3> QED
      BY <2>1, <3>1, <3>2, CalmStep DEF BudgetInv, Advanced, Nonterminal
  <2> QED
    BY <1>1, <2>2, <2>4, <2>5 DEF RecordFailure
<1>2. CASE ClaimRecovery(p)
  <2>1. UNCHANGED <<source, fence>> /\ pass[p].pc = "claim"
    BY <1>2 DEF ClaimRecovery, others
  <2>2. PICK j \in Jobs : j = pass[p].job
    BY <2>1 DEF BackfillInv, PassesKept, PassKept
  <2>3. CASE UNCHANGED <<job, run>>
    BY <2>1, <2>3, StillCalm, CalmKeeps
  <2>4. CASE \E status \in Checkpoints(p) : fence[j] = "open" /\ Budget(j) /\ Claim(j, status, pass[p].target)
    <3>1. PICK status \in Checkpoints(p) : fence[j] = "open" /\ Budget(j) /\ Claim(j, status, pass[p].target)
      BY <2>4
    <3>2. status \in Nonterminal /\ pass[p].target \in Live
      BY <2>2, <3>1, CheckpointsProven DEF BackfillInv, Types, PassRow, Live
    <3>3. /\ \A k \in Jobs \ {j} : job'[k] = job[k] /\ run'[k] = run[k]
          /\ job'[j].status = status /\ job'[j].dispatch = pass[p].target
      BY <3>1 DEF Claim, BackfillInv, Types
    <3> QED
      BY <2>1, <3>1, <3>2, <3>3, ClaimSpends
  <2> QED
    BY <1>2, <2>2, <2>3, <2>4 DEF ClaimRecovery
<1>3. CASE ConfirmRecovery(p)
  <2>1. UNCHANGED <<run, source, fence>> /\ pass[p].pc = "confirm"
    BY <1>3 DEF ConfirmRecovery, others
  <2>2. pass[p].job \in Jobs /\ pass[p].target \in ClaimState
    BY <2>1 DEF BackfillInv, PassesKept, PassKept, Types, PassRow
  <2>3. Confirmed(pass[p].job, pass[p].target)
    BY <1>3, <2>2, ConfirmsConfirmed DEF ConfirmRecovery
  <2> QED
    BY <2>1, <2>2, <2>3, ConfirmsCalmly
<1>4. CASE Call(p) \/ CallFails(p)
  <2>1. UNCHANGED <<job, source, fence>> /\ pass[p].pc = "call"
    BY <1>4 DEF Call, CallFails, others, rows
  <2>2. pass[p].job \in Jobs
    BY <2>1 DEF BackfillInv, PassesKept, PassKept
  <2>3. CASE UNCHANGED run
    BY <2>1, <2>3, StillCalm, CalmKeeps
  <2>4. CASE Effect(pass[p].job, pass[p].target)
    <3>1. Effected(pass[p].job, pass[p].target)
      BY <2>2, <2>4, EffectBounded
    <3> QED
      BY <2>1, <2>2, <3>1, EffectedCalmly DEF Effected
  <2> QED
    BY <1>4, <2>3, <2>4 DEF Call, CallFails
<1>5. ASSUME NEW j \in Jobs, RecoverStale(p, j) PROVE BudgetInv'
  <2>1. UNCHANGED <<run, source, fence>>
    BY <1>5 DEF RecoverStale, others
  <2>2. CASE UNCHANGED job
    BY <2>1, <2>2, StillCalm, CalmKeeps
  <2>3. CASE Confirms(j, "creating")
    BY <2>1, <2>3, ConfirmsConfirmed, ConfirmsCalmly DEF ClaimState
  <2> QED
    BY <1>5, <2>2, <2>3 DEF RecoverStale
<1>6. CASE Look(p) \/ LookFails(p) \/ PassDies(p) \/ \E j \in Jobs : Select(p, j)
  <2>1. UNCHANGED <<job, run, source, fence>>
    BY <1>6 DEF Look, LookFails, LookAs, PassDies, Select, rows, others
  <2> QED
    BY <2>1, StillCalm, CalmKeeps
<1> QED
  BY <1>1, <1>2, <1>3, <1>4, <1>5, <1>6 DEF PassSteps

LEMMA BudgetStarts == BackfillBounds /\ Init => BudgetInv
<1> SUFFICES ASSUME BackfillBounds, Init PROVE BudgetInv
  OBVIOUS
<1>1. Recent = {} /\ Charged = {} /\ Cardinality({}) = 0
  BY FS_EmptySet DEF Init, Recent, Charged, Live, ClaimState
<1>2. \A j \in Jobs : source[j] # "deleted" /\ WorksCharged(j) /\ (job[j].recent => fence[j] = "open")
  BY DEF Init, WorksCharged, IdleRun
<1> QED
  BY <1>1, <1>2 DEF BudgetInv, BackfillBounds

LEMMA BudgetGoesOn ==
    BackfillBounds /\ "delete" \notin Hazards /\ BackfillInv /\ BudgetInv /\ [Next]_vars => BudgetInv'
<1> SUFFICES ASSUME BackfillBounds, "delete" \notin Hazards, BackfillInv, BudgetInv, [Next]_vars PROVE BudgetInv'
  OBVIOUS
<1>1. CASE UNCHANGED vars
  BY <1>1, StillCalm, CalmKeeps DEF vars
<1>2. CASE Next
  BY <1>2, RunCalm, PlatformCalm, OperatorCalm, SettlesCalm, SurroundingsCalm, PassesCalm
     DEF Next, Steady, Faults, OperatorSteps, Picks
<1> QED
  BY <1>1, <1>2

LEMMA BudgetGives == ASSUME BackfillBounds, BudgetInv PROVE InFlightBounded /\ MinuteBounded
<1>1. {j \in Jobs : Working(j)} \subseteq Charged
  BY DEF Working, Charged, BudgetInv, WorksCharged
<1>2. IsFiniteSet(Charged) /\ InFlight \in Nat
  BY FS_Subset DEF BackfillBounds, Charged
<1>3. Cardinality({j \in Jobs : Working(j)}) <= InFlight
  BY <1>1, <1>2, FewRemain DEF BudgetInv
<1> QED
  BY <1>3 DEF InFlightBounded, MinuteBounded, BudgetInv, Recent

-----------------------------------------------------------------------------
(* The run as a whole.                                                      *)

\* What is settled is not taken up again, whoever passes over it and whatever fails
\* (cover-backfill.ts closeCoverBackfillRuns).
THEOREM SettledForGood == ASSUME BackfillBounds PROVE Spec => [](TypeOK /\ ClosedForGood)
<1>1. BackfillInv => TypeOK /\ ClosedForGood
  BY InvGives
<1>2. Init => BackfillInv
  BY BackfillStarts
<1>3. BackfillInv /\ [Next]_vars => BackfillInv'
  BY BackfillGoesOn
<1> QED
  BY <1>1, <1>2, <1>3, PTL DEF Spec

\* Neither budget is overspent while no event is deleted
\* (cover-dispatch.ts coverBackfillInFlightBudgetSql, coverBackfillMinuteBudgetSql).
THEOREM BudgetsAreBounds ==
    ASSUME BackfillBounds, "delete" \notin Hazards PROVE Spec => [](InFlightBounded /\ MinuteBounded)
<1>1. BudgetInv => InFlightBounded /\ MinuteBounded
  BY BudgetGives
<1>2. Init => BackfillInv /\ BudgetInv
  BY BackfillStarts, BudgetStarts
<1>3. BackfillInv /\ BudgetInv /\ [Next]_vars => BackfillInv' /\ BudgetInv'
  BY BackfillGoesOn, BudgetGoesOn
<1> QED
  BY <1>1, <1>2, <1>3, PTL DEF Spec
==============================================================================
