------------------------------ MODULE MCEndings ------------------------------
(***************************************************************************)
(* What must end, on small instances, each behaviour of one of them: a     *)
(* transfer and what its ending leaves behind; a transfer whose photo is   *)
(* being completed; an archive of the collection; a selection; and a       *)
(* guest who answers.  The others rest in their initial state.             *)
(***************************************************************************)
EXTENDS UploadCompletion

CONSTANT People         \* who is in the household that answers

VARIABLES
    subject,
    archive, eventLive, linksOver, objects, attemptOf, callback, retrier, sweep,
    selection, deliveries, reader, asker, authorized,
    event, house, host, batch, serve, session, current, device, sub

archiveVars == <<archive, eventLive, linksOver, objects, attemptOf, callback, retrier, sweep>>
selectionVars == <<selection, deliveries, reader, asker, authorized>>
guestVars == <<event, house, host, batch, serve, session, current, device, sub>>

Attempts == INSTANCE ExportAttempts
    WITH MaxAttempts <- 2, NumParts <- 2, Overlap <- FALSE,
         job <- archive, instance <- attemptOf, exec <- callback, handler <- retrier,
         cleaner <- sweep

Selections == INSTANCE SelectionExports
    WITH Device <- {"device"}, Archive <- {"archive"}, Media <- {"photo"},
         Readers <- {"reader"}, MaxReads <- 1, MaxAttempts <- 1, NoOne <- "none",
         job <- selection, handler <- asker

Guests == INSTANCE RsvpGuests
    WITH Households <- {"house"}, Names <- People, Slots <- {1}, Capacity <- 2,
         Hosts <- {"host"}, Asks <- {"opening", "update"}, Workers <- {},
         Devices <- {"phone"}, Tries <- {1}, Scheduled <- FALSE, NoHouse <- "none"

EndingsInit ==
    /\ subject \in {"transfer", "completion", "archive", "selection", "guest"}
    /\ IF subject = "completion" THEN AllPartsSent ELSE Init
    /\ Attempts!Init /\ Selections!Init /\ Guests!Init

EndingsNext ==
    \/ /\ subject = "transfer" /\ Next
       /\ UNCHANGED <<subject, archiveVars, selectionVars, guestVars>>
    \/ /\ subject = "completion" /\ Next /\ Steady
       /\ UNCHANGED <<subject, archiveVars, selectionVars, guestVars>>
    \/ /\ subject = "archive" /\ Attempts!Next
       /\ UNCHANGED <<subject, vars, selectionVars, guestVars>>
    \/ /\ subject = "selection" /\ Selections!Next
       /\ UNCHANGED <<subject, vars, archiveVars, guestVars>>
    \/ /\ subject = "guest" /\ Guests!GuestNext
       /\ UNCHANGED <<subject, vars, archiveVars, selectionVars>>

\* Fairness, of the machine under way.  Crons keep coming; runs start and end, calls
\* land, failures stop in the end; nothing forces uploaders, hosts or deadlines.
Uploading == subject \in {"transfer", "completion"}
CleanupFairness ==
    /\ WF_vars(Uploading /\ FailTerminal) /\ WF_vars(Uploading /\ RetireCompleted)
    /\ WF_vars(Uploading /\ RetireUnclaimed) /\ WF_vars(Uploading /\ AbortMultipart)
    /\ WF_vars(Uploading /\ MarkClosed) /\ WF_vars(Uploading /\ SettleByPlatform)
    /\ WF_vars(Uploading /\ DeleteAssembly) /\ WF_vars(Uploading /\ MarkAbsent)

Completing == subject = "completion"
CompletionFairness ==
    /\ <>[][Completing => Sound]_vars
    /\ WF_vars(Completing /\ FenceIfUnwritable) /\ WF_vars(Completing /\ Dispatch)
    /\ WF_vars(Completing /\ Restart) /\ WF_vars(Completing /\ InstanceEnds)
    /\ WF_vars(Completing /\ LeaseLapses) /\ WF_vars(Completing /\ CompleteLands)
    /\ WF_vars(Completing /\ PutLands)
    /\ \A x \in Execs :
          SF_vars(Completing /\ BeginCompletion(x)) /\ WF_vars(Completing /\ ExecStep(x))

\* Requests may die for ever; the platform and the cron go on.
Archiving == subject = "archive"
ArchiveFairness ==
    /\ \A h \in Handlers : WF_archiveVars(Archiving /\ Attempts!HandlerStep(h))
    /\ \A x \in Execs : WF_archiveVars(Archiving /\ Attempts!ExecStep(x))
    /\ WF_archiveVars(Archiving /\ Attempts!CleanerStep)
    /\ <>[][Archiving => Attempts!Sound]_archiveVars

\* The cron runs and leases lapse; nobody else need ever act again, and no deadline
\* of an export need pass.
Selecting == subject = "selection"
SelectionFairness ==
    /\ \A j \in {"device", "archive"} : WF_selectionVars(Selecting /\ Selections!Expire(j))
    /\ WF_selectionVars(Selecting /\ Selections!LeaseLapses("device", "photo"))

\* In the end hosts stop writing, answers stop being lost and the guest does
\* nothing but answer.
Answering == subject = "guest"
GuestFairness ==
    /\ WF_guestVars(Answering /\ Guests!Persists("phone"))
    /\ <>[][Answering => Guests!Persists("phone")]_guestVars

EndingsSpec ==
    /\ EndingsInit
    /\ [][EndingsNext]_<<subject, vars, archiveVars, selectionVars, guestVars>>
    /\ CleanupFairness /\ CompletionFairness
    /\ ArchiveFairness /\ SelectionFairness /\ GuestFairness

-----------------------------------------------------------------------------
\* A transfer gives its reservation back and leaves nothing in R2 that its row does
\* not account for; an accepted completion ends without waiting for a deadline,
\* wherever and however often executions died, failed or lost an answer before.
TransfersEnd ==
    /\ subject = "transfer" => ReservationReleased /\ InventoryGoes
    /\ subject = "completion" =>
         (tr.state \in {"processing", "retryable"} ~> tr.state \notin {"processing", "retryable"})

\* A running export ends and the archives of an expired one go; a selection ends
\* though its host never returns, once its time has passed or its event is gone.
ExportsEnd ==
    /\ subject = "archive" => Attempts!RunEnds /\ Attempts!ExpiredGoes
    /\ subject = "selection" => Selections!EndsUnattended

\* A guest who sends the form hears what stands.
GuestsAreHeard == subject = "guest" => Guests!GuestIsHeard
=============================================================================
