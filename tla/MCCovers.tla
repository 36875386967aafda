------------------------------ MODULE MCCovers ------------------------------
(***************************************************************************)
(* Covers on small instances, each behaviour of one of: two requests that  *)
(* publish one draft; and two drafts whose uploads, inspections and sweep  *)
(* meet under caps that admit one of them.                                 *)
(***************************************************************************)
EXTENDS CoverPublication, TLC

CONSTANTS Puts, Inspectors, Masters, MaxLive, RawCap, NoOne   \* of the studio, as many drafts as requests

VARIABLES subject, drafts, raw, masterRow, masterObject, active, put, inspector, sweep

draftVars == <<drafts, raw, masterRow, masterObject, active, put, inspector, sweep>>

Studio == INSTANCE CoverDrafts WITH Drafts <- Requests, draft <- drafts
ASSUME StudioSizes == Studio!CoverSizes

CoversInit == subject \in {"publication", "studio"} /\ Init /\ Studio!Init
CoversNext ==
    \/ subject = "publication" /\ Next /\ UNCHANGED <<subject, draftVars>>
    \/ subject = "studio" /\ Studio!Next /\ UNCHANGED <<subject, vars>>
CoversSpec == CoversInit /\ [][CoversNext]_<<subject, vars, draftVars>>

Symmetry == Permutations(Requests) \cup Permutations(Inspectors)

\* Drafts keep what can still be published, within what the event may store.
DraftsKept == Studio!TypeOK /\ Studio!LiveMasterKept /\ Studio!StoredBounded
=============================================================================
