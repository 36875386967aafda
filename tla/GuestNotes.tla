----------------------------- MODULE GuestNotes -----------------------------
(***************************************************************************)
(* The notes guests write into one guestbook (worker/db/messages.ts,       *)
(* worker/routes/messages.ts, src/features/guestbook/Guestbook.tsx): the   *)
(* composer of each guest's page, which repeats a send it did not hear of  *)
(* under the same key; the batch that inserts a note within its limits;    *)
(* the reads that explain why it did not; and the hosts who share, hide,   *)
(* delete, restore and purge what they saw on their lists.                 *)
(*                                                                         *)
(* A note is named by its guest and its key; all guests share one address  *)
(* of the network.  A request goes on when the page stops waiting for it.  *)
(***************************************************************************)
EXTENDS Integers, FiniteSets

CONSTANTS
    Guests,
    Requests,       \* POST requests under way
    Hosts,
    MaxKeys,        \* bound: drafts of one guest
    SessionLimit,   \* MAX_GUEST_NOTES_PER_SESSION_WINDOW
    AddressLimit,   \* MAX_GUEST_NOTES_PER_IP_WINDOW
    NoteLimit       \* MAX_EVENT_GUEST_NOTES

VARIABLES
    note,       \* the guest_messages rows: moderation_status, and deleted_at
    receipts,   \* guest_message_purge_receipts
    clock,      \* the window of the rate limits
    rate,       \* the guest_message_rate_events rows
    open,       \* GUEST_READ_SURFACES_AVAILABLE_SQL of the event
    moderated,  \* events.moderation_required
    composer,   \* guest -> the draft on its page
    request,    \* request -> what the Worker does for it
    host,       \* host -> the note they look at, and the state their list shows
    confirmed,  \* ghost: notes whose guest was told "Safely sent"
    made        \* ghost: the notes inserted, by window and guest

vars == <<note, receipts, clock, rate, open, moderated, composer, request, host, confirmed, made>>

Notes == Guests \X (1..MaxKeys)
Windows == {1, 2}
NoNote == [state |-> "none", deleted |-> FALSE]
NoRequest == [pc |-> "idle", note |-> <<>>, window |-> 1, heard |-> FALSE, out |-> "none"]
Unseen == [note |-> <<>>, seen |-> "none"]
NoneYet == [w \in Windows |-> [g \in Guests |-> 0]]

Init ==
    /\ note = [n \in Notes |-> NoNote] /\ receipts = {}
    /\ clock = 1 /\ rate = {} /\ made = NoneYet
    /\ open = TRUE /\ moderated \in BOOLEAN
    /\ composer = [g \in Guests |-> [key |-> 1, status |-> "draft", off |-> FALSE]]
    /\ request = [r \in Requests |-> NoRequest]
    /\ host = [h \in Hosts |-> Unseen]
    /\ confirmed = {}

Stored == {n \in Notes : note[n].state # "none"}
Shared(n) == note[n].state = "approved" /\ ~note[n].deleted
State(n) == IF note[n].deleted THEN "deleted" ELSE note[n].state
RowsOf(w) == {e \in rate : e.window = w}
AddressCount(w) == Cardinality(RowsOf(w))
SessionCount(w, g) == Cardinality({e \in RowsOf(w) : e.guest = g})

-----------------------------------------------------------------------------
(* The composer.                                                           *)

\* sendNote: a failed draft goes again under the key it failed with.
Send(g, r) ==
    LET c == composer[g]
    IN /\ c.status \in {"draft", "failed"} /\ ~c.off /\ c.key <= MaxKeys
       /\ request[r].pc = "idle"
       /\ request' = [request EXCEPT ![r] =
              [pc |-> "insert", note |-> <<g, c.key>>, window |-> clock, heard |-> TRUE, out |-> "none"]]
       /\ composer' = [composer EXCEPT ![g].status = "sending"]
       /\ UNCHANGED <<note, receipts, clock, rate, open, moderated, host, confirmed, made>>

NextDraft(g) == [composer[g] EXCEPT !.key = @ + 1, !.status = "draft"]

\* The text of a failed draft is changed: it is another note.
Edit(g) ==
    /\ composer[g].status = "failed"
    /\ composer' = [composer EXCEPT ![g] = NextDraft(g)]
    /\ UNCHANGED <<note, receipts, clock, rate, open, moderated, request, host, confirmed, made>>

Silenced(g) ==
    [r \in Requests |-> IF request[r].heard /\ request[r].note[1] = g THEN [request[r] EXCEPT !.heard = FALSE] ELSE request[r]]

\* The page is closed and opened again.
Remount(g) ==
    /\ composer[g].key <= MaxKeys
    /\ composer' = [composer EXCEPT ![g] = [NextDraft(g) EXCEPT !.off = FALSE]]
    /\ request' = Silenced(g)
    /\ UNCHANGED <<note, receipts, clock, rate, open, moderated, host, confirmed, made>>

\* The answer is lost, or given up; the request goes on.
Lost(g) ==
    /\ composer[g].status = "sending"
    /\ composer' = [composer EXCEPT ![g].status = "failed"]
    /\ request' = Silenced(g)
    /\ UNCHANGED <<note, receipts, clock, rate, open, moderated, host, confirmed, made>>

-----------------------------------------------------------------------------
(* A request.                                                              *)

Answered(r, out) == [request EXCEPT ![r].pc = "answer", ![r].out = out]

\* The route's own check of the event, before the batch.
TurnedAway(r) ==
    /\ request[r].pc = "insert" /\ ~open
    /\ request' = Answered(r, "closed")
    /\ UNCHANGED <<note, receipts, clock, rate, open, moderated, composer, host, confirmed, made>>

\* The SELECT of the insert, whose conflict with a stored note does nothing.
Insertable(r) ==
    LET n == request[r].note
        w == request[r].window
    IN /\ open
       /\ n \notin receipts
       /\ SessionCount(w, n[1]) < SessionLimit
       /\ AddressCount(w) < AddressLimit
       /\ Cardinality(Stored) < NoteLimit
       /\ n \notin Stored

Event(r) == [window |-> request[r].window, guest |-> request[r].note[1],
             id |-> AddressCount(request[r].window) + 1]

\* Mutant of Charged: a repeated send is charged too.
ChargedAlways(r, inserted) == {Event(r)}
\* The rate event is charged when the statement before it changed a row.
Charged(r, inserted) == IF inserted THEN {Event(r)} ELSE {}

\* The batch of createBounded.
Insert(r) ==
    LET n == request[r].note
        w == request[r].window
        inserted == Insertable(r)
    IN /\ request[r].pc = "insert"
       /\ note' = IF inserted
                  THEN [note EXCEPT ![n] = [state |-> IF moderated THEN "pending" ELSE "approved", deleted |-> FALSE]]
                  ELSE note
       /\ rate' = rate \cup Charged(r, inserted)
       /\ made' = [made EXCEPT ![w][n[1]] = @ + (IF inserted THEN 1 ELSE 0)]
       /\ request' = [request EXCEPT ![r].pc = IF inserted THEN "reread" ELSE "guards"]
       /\ UNCHANGED <<receipts, clock, open, moderated, composer, host, confirmed>>

\* getById of what was inserted; without a row the request fails.
Reread(r) ==
    /\ request[r].pc = "reread"
    /\ request' = Answered(r, IF request[r].note \in Stored THEN "sent" ELSE "refused")
    /\ UNCHANGED <<note, receipts, clock, rate, open, moderated, composer, host, confirmed, made>>

\* The counts are read with the phase, and decide last.
ReadGuards(r) ==
    /\ request[r].pc = "guards"
    /\ request' = IF open
                  THEN [request EXCEPT ![r].pc = "existing",
                                       ![r].out = IF Cardinality(Stored) >= NoteLimit
                                                     /\ SessionCount(request[r].window, request[r].note[1]) < SessionLimit
                                                     /\ AddressCount(request[r].window) < AddressLimit
                                                  THEN "full" ELSE "refused"]
                  ELSE Answered(r, "closed")
    /\ UNCHANGED <<note, receipts, clock, rate, open, moderated, composer, host, confirmed, made>>

\* A stored note of that key is answered as the one sent now.
ReadExisting(r) ==
    /\ request[r].pc = "existing"
    /\ request' = IF request[r].note \in Stored
                  THEN Answered(r, "sent")
                  ELSE [request EXCEPT ![r].pc = "receipt"]
    /\ UNCHANGED <<note, receipts, clock, rate, open, moderated, composer, host, confirmed, made>>

\* A purged one is refused for good.
ReadReceipt(r) ==
    /\ request[r].pc = "receipt"
    /\ request' = Answered(r, IF request[r].note \in receipts THEN "refused" ELSE request[r].out)
    /\ UNCHANGED <<note, receipts, clock, rate, open, moderated, composer, host, confirmed, made>>

\* The page hears the answer, or nobody does.
Answer(r) ==
    LET n == request[r].note
        g == n[1]
    IN /\ request[r].pc = "answer"
       /\ IF ~request[r].heard
            THEN UNCHANGED <<composer, confirmed>>
          ELSE IF request[r].out = "sent"
            THEN /\ composer' = [composer EXCEPT ![g] = NextDraft(g)]
                 /\ confirmed' = confirmed \cup {n}
            ELSE /\ composer' = [composer EXCEPT ![g].status = "failed", ![g].off = @ \/ request[r].out \in {"closed", "full"}]
                 /\ UNCHANGED confirmed
       /\ request' = [request EXCEPT ![r] = NoRequest]
       /\ UNCHANGED <<note, receipts, clock, rate, open, moderated, host, made>>

-----------------------------------------------------------------------------
(* The hosts, and time.                                                    *)

HostLoads(h, n) ==
    /\ n \in Stored
    /\ host' = [host EXCEPT ![h] = [note |-> n, seen |-> State(n)]]
    /\ UNCHANGED <<note, receipts, clock, rate, open, moderated, composer, request, confirmed, made>>

\* 'restore' returns a note hidden.
Restored(n) == [state |-> "rejected", deleted |-> FALSE]

\* changeState: every action is a compare-and-swap on the state the list showed.
ChangeState(h) ==
    LET n == host[h].note
    IN /\ host[h].seen # "none" /\ n \in Stored
       /\ IF host[h].seen # State(n) THEN UNCHANGED note
          ELSE IF host[h].seen = "deleted"
            THEN note' = [note EXCEPT ![n] = Restored(n)]
            ELSE \/ \E to \in {"approved", "rejected"} : note' = [note EXCEPT ![n].state = to]
                 \/ note' = [note EXCEPT ![n].deleted = TRUE]
       /\ host' = [host EXCEPT ![h] = Unseen]
       /\ UNCHANGED <<receipts, clock, rate, open, moderated, composer, request, confirmed, made>>

\* purgeDeleted: the receipt and the deletion, one batch.
PurgeDeleted(h) ==
    LET n == host[h].note
    IN /\ host[h].seen = "deleted" /\ n \in Stored
       /\ IF note[n].deleted
            THEN /\ note' = [note EXCEPT ![n] = NoNote]
                 /\ receipts' = receipts \cup {n}
            ELSE UNCHANGED <<note, receipts>>
       /\ host' = [host EXCEPT ![h] = Unseen]
       /\ UNCHANGED <<clock, rate, open, moderated, composer, request, confirmed, made>>

\* The settings open and close the guests' surfaces, and moderation.
Settings ==
    /\ \/ open' = ~open /\ UNCHANGED moderated
       \/ moderated' = ~moderated /\ UNCHANGED open
    /\ UNCHANGED <<note, receipts, clock, rate, composer, request, host, confirmed, made>>

WindowTurns ==
    /\ clock = 1 /\ clock' = 2
    /\ UNCHANGED <<note, receipts, rate, open, moderated, composer, request, host, confirmed, made>>

\* cleanupGuestMessageRateEvents; a request of that window may still be under way.
CleanRates ==
    /\ clock = 2 /\ AddressCount(1) > 0
    /\ rate' = rate \ RowsOf(1)
    /\ UNCHANGED <<note, receipts, clock, open, moderated, composer, request, host, confirmed, made>>

Next ==
    \/ \E g \in Guests : (\E r \in Requests : Send(g, r)) \/ Edit(g) \/ Remount(g) \/ Lost(g)
    \/ \E r \in Requests :
        \/ TurnedAway(r) \/ Insert(r) \/ Reread(r) \/ ReadGuards(r) \/ ReadExisting(r) \/ ReadReceipt(r) \/ Answer(r)
    \/ \E h \in Hosts : (\E n \in Notes : HostLoads(h, n)) \/ ChangeState(h) \/ PurgeDeleted(h)
    \/ Settings \/ WindowTurns \/ CleanRates

Spec == Init /\ [][Next]_vars

-----------------------------------------------------------------------------
(* Properties.                                                             *)

\* A note its guest was told is sent is kept until a host purges it, and stays
\* purged whatever is still under way; a new draft is no note yet; a repeated send
\* costs nothing, and the limits hold.
NotesKept ==
    /\ confirmed \subseteq Stored \cup receipts /\ receipts \cap Stored = {}
    /\ \A g \in Guests : composer[g].status = "draft" =>
           /\ <<g, composer[g].key>> \notin Stored \cup receipts
           /\ \A r \in Requests : request[r].note # <<g, composer[g].key>>
    /\ \A g \in Guests : SessionCount(clock, g) = made[clock][g]
    /\ Cardinality(Stored) <= NoteLimit
    /\ \A w \in Windows : AddressCount(w) <= AddressLimit /\ \A g \in Guests : SessionCount(w, g) <= SessionLimit

\* Guests see a note because it came while nothing was moderated, or because a host
\* who saw it as it stood shared it.
RespectsNotes ==
    \A n \in Notes : ~Shared(n) /\ Shared(n)' =>
       \/ n \notin Stored /\ ~moderated
       \/ \E h \in Hosts : host[h].note = n /\ host[h].seen = State(n) /\ host[h].seen # "deleted"
NotesRespected == [][RespectsNotes]_vars
=============================================================================
