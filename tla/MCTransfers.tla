---------------------------- MODULE MCTransfers ----------------------------
(***************************************************************************)
(* Instances of UploadCompletion for TLC: handlers and executions,         *)
(* interchangeable among themselves, meet two at a time.                   *)
(***************************************************************************)
EXTENDS UploadCompletion
LOCAL INSTANCE TLC

Interchangeable == Permutations(Handlers) \cup Permutations(Execs)

UnderWay == {h \in Handlers : handler[h].pc # "idle"} \cup {x \in Execs : exec[x] # "idle"}
PairsSpec == Init /\ [][Next /\ Cardinality(UnderWay') <= 2]_vars
=============================================================================
