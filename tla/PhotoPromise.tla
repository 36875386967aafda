---------------------------- MODULE PhotoPromise ----------------------------
(***************************************************************************)
(* What an event promises of its photographs to those who see it: a photo  *)
(* is reserved within the event's capacity, delivered once, and from then  *)
(* on shows the same bytes, through Recently deleted and back, until it is *)
(* removed; a removed photo never returns, and the end of the event        *)
(* removes them all at once.  Nothing is said here of buckets, keys,       *)
(* promotions or tombstones: where the bytes are is nobody's business.     *)
(***************************************************************************)
EXTENDS Integers, FiniteSets

CONSTANTS Media, LegacyMedia, Weight, MaxCount, MaxBytes, Digests, LegacyDigest, NoBytes

VARIABLES
    stage,      \* where each photo stands
    content     \* what the event shows, or could restore, of it

Stages == {"new", "reserved", "failed", "delivered", "trashed", "gone"}

\* What counts against the event's capacity.
Occupied == {m \in Media : stage[m] \in {"reserved", "delivered", "trashed"}}

Init == \E old \in SUBSET LegacyMedia :
    /\ stage = [m \in Media |-> IF m \in old THEN "delivered" ELSE "new"]
    /\ content = [m \in Media |-> IF m \in old THEN LegacyDigest ELSE NoBytes]

Moves(m, from, to) ==
    /\ stage[m] \in from
    /\ stage' = [stage EXCEPT ![m] = to]

Reserve(m) ==
    /\ Moves(m, {"new", "failed"}, "reserved")
    /\ Cardinality(Occupied \cup {m}) <= MaxCount
    /\ Weight[Occupied \cup {m}] <= MaxBytes
    /\ UNCHANGED content

Fail(m) == Moves(m, {"reserved"}, "failed") /\ UNCHANGED content

Deliver(m, d) ==
    /\ Moves(m, {"reserved"}, "delivered")
    /\ content' = [content EXCEPT ![m] = d]

Trash(m) == Moves(m, {"delivered"}, "trashed") /\ UNCHANGED content
Restore(m) == Moves(m, {"trashed"}, "delivered") /\ UNCHANGED content

Remove(m) ==
    /\ Moves(m, {"reserved", "failed", "delivered", "trashed"}, "gone")
    /\ content' = [content EXCEPT ![m] = NoBytes]

EndEvent ==
    /\ stage' = [m \in Media |-> "gone"]
    /\ content' = [m \in Media |-> NoBytes]

Next ==
    \/ \E m \in Media :
        \/ Reserve(m) \/ Fail(m) \/ Trash(m) \/ Restore(m) \/ Remove(m)
        \/ \E d \in Digests : Deliver(m, d)
    \/ EndEvent

Spec == Init /\ [][Next]_<<stage, content>>
=============================================================================
