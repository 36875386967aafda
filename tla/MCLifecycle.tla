---------------------------- MODULE MCLifecycle ----------------------------
(***************************************************************************)
(* Instances of MediaLifecycle for TLC: what the photos weigh, which       *)
(* processes are interchangeable (their names only meet in claim tokens),  *)
(* and how many of them are under way at once.                             *)
(***************************************************************************)
EXTENDS MediaLifecycle
LOCAL INSTANCE TLC

UnitWeight == [S \in SUBSET Media |-> Cardinality(S)]

Interchangeable == Permutations(Requests) \cup Permutations(Passes)

\* Handlers and promoter passes, of either kind, meet two at a time.
UnderWay ==
    {w \in Requests : req[w] # IdleRequest} \cup {p \in Passes : pass[p] # IdlePass}
PairsSpec == Init /\ [][Next /\ Cardinality(UnderWay') <= 2]_vars

\* What a photo leaves behind, or holds on to, goes in the end.
PhotosEnd == DeletedBytesGo /\ ReservationsResolve /\ UnsuppressedLegacyMoves
PurgeEnds == PurgeCompletes /\ PurgeLeavesNothing
=============================================================================
