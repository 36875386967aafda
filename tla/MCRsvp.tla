------------------------------- MODULE MCRsvp -------------------------------
(***************************************************************************)
(* One guest list on small instances, each behaviour of one of them: hosts *)
(* that race; a staged batch sent twice beside a host; and one household   *)
(* that answers - from one device while a host edits it, with two requests *)
(* in flight, from two devices, and across the deadline and the stop.      *)
(* Their names are reused: the two devices are named as the two hosts are. *)
(***************************************************************************)
EXTENDS TLC

CONSTANTS Households, Names, Slots, Capacity, Hosts, Asks, Workers, Devices, Scheduled,
          NoHouse, Tries,   \* of the hosts that race
          Some,          \* another host, where there is one
          Senders,       \* requests of the batch
          Family, Guest1 \* the household that answers, and who is in it

VARIABLES subject, event, house, host, batch, serve, session, current, device, sub

Race == INSTANCE RsvpGuests

Batch == INSTANCE RsvpGuests
    WITH Hosts <- Some, Workers <- Senders, Capacity <- 2,
         Asks <- {"create", "update", "archive"}, Scheduled <- FALSE

Edits == INSTANCE RsvpGuests
    WITH Households <- Family, Names <- Guest1, Slots <- {1}, Capacity <- 2,
         Hosts <- Some, Asks <- {"update", "correct", "opening"}, Workers <- {},
         Devices <- {1}, Scheduled <- FALSE, Tries <- {1}

Retries == INSTANCE RsvpGuests
    WITH Households <- Family, Names <- Guest1, Slots <- {}, Capacity <- 2,
         Hosts <- Some, Asks <- {"correct", "opening"}, Workers <- {},
         Devices <- {1}, Scheduled <- FALSE, Tries <- {1, 2}

Together == INSTANCE RsvpGuests
    WITH Households <- Family, Names <- Guest1, Slots <- {}, Capacity <- 2,
         Hosts <- Some, Asks <- {"opening"}, Workers <- {},
         Devices <- Hosts, Scheduled <- FALSE, Tries <- {1}

Window == INSTANCE RsvpGuests
    WITH Households <- Family, Names <- Guest1, Slots <- {}, Capacity <- 2,
         Hosts <- Some, Asks <- {"opening", "close", "archive"}, Workers <- {},
         Devices <- {1}, Scheduled <- TRUE, Tries <- {1}

ASSUME Race!RosterAssumption /\ Retries!TriesAssumption

RsvpInit ==
    \/ subject = "hosts" /\ Race!Init
    \/ subject = "batch" /\ Batch!Init
    \/ subject = "edits" /\ Edits!Init
    \/ subject = "retries" /\ Retries!Init
    \/ subject = "together" /\ Together!Init
    \/ subject = "window" /\ Window!Init
RsvpNext ==
    \/ subject = "hosts" /\ Race!GuestNext /\ UNCHANGED subject
    \/ subject = "batch" /\ Batch!GuestNext /\ UNCHANGED subject
    \/ subject = "edits" /\ Edits!GuestNext /\ UNCHANGED subject
    \/ subject = "retries" /\ Retries!GuestNext /\ UNCHANGED subject
    \/ subject = "together" /\ Together!GuestNext /\ UNCHANGED subject
    \/ subject = "window" /\ Window!GuestNext /\ UNCHANGED subject
RsvpSpec == RsvpInit /\ [][RsvpNext]_<<subject, Race!vars>>

Symmetry ==
    Permutations(Hosts) \cup Permutations(Names) \cup Permutations(Households)

\* What the list keeps, whoever changes it: every household can be found, nobody
\* is invited past the limit, a batch is saved once, an answer is whole.
RosterKept ==
    /\ subject = "hosts" => Race!TypeOK /\ Race!RosterReachable /\ Race!WithinCapacity
    /\ subject = "batch" => Batch!RosterReachable /\ Batch!BatchOnce
    /\ subject = "edits" => Edits!TypeOK /\ Edits!RespondedComplete
    /\ subject = "retries" => Retries!TypeOK

\* What no step does to those who answer: write over what they have not seen, ask
\* again for what was saved, drop who comes, take an answer when it is over; and
\* RSVP does not open on an empty list.
GuestsRespected ==
    [][/\ subject = "hosts" => Race!OpensOnAList
       /\ subject = "edits" =>
            Edits!ReplacesWhatWasSeen /\ Edits!NeverAskedTwice /\ Edits!AttendingKept
       /\ subject = "retries" => Retries!ReplacesWhatWasSeen /\ Retries!NeverAskedTwice
       /\ subject = "together" => Together!ReplacesWhatWasSeen
       /\ subject = "window" => Window!ClosedIsClosed]_<<subject, Race!vars>>
=============================================================================
