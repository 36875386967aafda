------------------------------ MODULE MCExports ------------------------------
(***************************************************************************)
(* An export of the whole collection, or exports of a selection, on small  *)
(* instances: each behaviour is of one of the two, and the other rests.    *)
(* They meet in nothing but the event's one active export, which           *)
(* SelectionExports counts.                                                *)
(***************************************************************************)
EXTENDS SelectionExports, TLC

CONSTANTS NumParts,                \* of the archive
          Callbacks, Retriers,     \* of its Workflow, of its routes
          Overlap                  \* may two callbacks meet?

VARIABLES subject, archive, eventLive, linksOver, objects, attemptOf, callback, retrier, cleaner

archiveVars == <<archive, eventLive, linksOver, objects, attemptOf, callback, retrier, cleaner>>

Attempts == INSTANCE ExportAttempts
    WITH Execs <- Callbacks, Handlers <- Retriers, job <- archive,
         instance <- attemptOf, exec <- callback, handler <- retrier
ASSUME ArchiveSizes == Attempts!ExportSizes

ExportsInit == subject \in {"selection", "archive"} /\ Init /\ Attempts!Init
ExportsNext ==
    \/ subject = "selection" /\ Next /\ UNCHANGED <<subject, archiveVars>>
    \/ subject = "archive" /\ Attempts!Next /\ UNCHANGED <<subject, vars>>
ExportsSpec == ExportsInit /\ [][ExportsNext]_<<subject, vars, archiveVars>>

\* Interchangeable in what is checked; the rest are few.
Symmetry == Permutations(Media) \cup Permutations(Readers)

\* Of an archive: a ready one is complete, an expired one is not forgotten.
ArchivesSound == Attempts!ArchivesSound
=============================================================================
