----------------------------- MODULE EventEntry -----------------------------
(***************************************************************************)
(* How guests get into one event.  The code printed on its invitations is  *)
(* the entry credential (worker/services/event-entry.ts); a scan trades it *)
(* for a session under the event's current guest grant, an access token a  *)
(* host may replace to sign every phone out; the emergency stop ends all   *)
(* of it, the intakes included, for good.                                  *)
(*                                                                         *)
(* Grants are numbered in the order of their creation.  An event made      *)
(* before migration 0008 has no entry row: whoever comes first adopts the  *)
(* newest live grant, the one its invitations carry, as the entry.  Every  *)
(* statement is one step; a request may end between any two.               *)
(***************************************************************************)
EXTENDS Integers, FiniteSetsExt, Sequences

CONSTANTS
    Hosts,      \* requests of hosts under way
    Phones,     \* devices of guests
    MaxGrants   \* bound: grants an event ever has

VARIABLES
    entry,      \* the event_entry_credentials row: its state, and the grant it copies (0: minted)
    grants,     \* the guest access tokens, TRUE while not revoked
    rsvp,       \* events.rsvp_enabled
    uploads,    \* events.uploads_enabled
    early,      \* events.photos_open_from is set
    started,    \* events.event_start_at has come
    host,       \* host -> where its request is
    scan,       \* phone -> where its scan is
    session,    \* phone -> the event session of its cookie
    printed,    \* ghost: what the invitations carry
    cut,        \* ghost: the grants there were when phones were last signed out
    dropped,    \* ghost: a rotation ended between its two statements
    overlapped  \* ghost: a rotation that had passed the entry check met the stop

grantVars == <<entry, grants, printed, cut, dropped, overlapped>>
intakeVars == <<rsvp, uploads, early, started>>
vars == <<grantVars, intakeVars, host, scan, session>>

Idle == [pc |-> "idle", grant |-> 0, next |-> "idle"]
NoSession == [grant |-> 0, live |-> FALSE]
Purposes == {"rotate", "reopen", "scan"}

\* getActiveForRole: the newest grant not revoked, 0 if there is none.
Newest == Max({0} \cup {i \in DOMAIN grants : grants[i]})

\* resolve: the session's token is judged first, then the session.
Resolves(g) ==
    session[g].grant # 0 /\ grants[session[g].grant] /\ session[g].live

Init ==
    /\ \/ \* An event of today: its entry is minted with it.
          /\ entry = [state |-> "open", grant |-> 0]
          /\ grants = <<TRUE>>
       \/ \* One of before, whose link may have been replaced then.
          /\ entry = [state |-> "none", grant |-> 0]
          /\ grants \in {<<TRUE>>, <<FALSE, TRUE>>}
    /\ printed = IF entry.state = "open" THEN 0 ELSE Len(grants)
    /\ rsvp = FALSE /\ uploads = TRUE /\ early = FALSE /\ started \in BOOLEAN
    /\ host = [h \in Hosts |-> Idle]
    /\ scan = [g \in Phones |-> Idle]
    /\ session = [g \in Phones |-> NoSession]
    /\ cut = 0 /\ dropped = FALSE /\ overlapped = FALSE

-----------------------------------------------------------------------------
(* Adoption, of a host's request or of a scan.                             *)

\* What a caller `who` that wants `purpose` knows after its read of the entry.
AfterRead(purpose) ==
    CASE entry.state = "open" -> [Idle EXCEPT !.pc = purpose]
      [] entry.state = "none" /\ Newest # 0 -> [pc |-> "adopting", grant |-> Newest, next |-> purpose]
      [] OTHER -> Idle

\* createLegacyAdoptionStatement inserts while the token it copies is live and
\* the event has no row.
Adopts(token) == entry.state = "none" /\ grants[token]

Adopted(token) == IF Adopts(token) THEN [state |-> "open", grant |-> token] ELSE entry

\* requireOpenEntry of a host's request, which goes on to `purpose`.
HostReads(h) ==
    /\ host[h].pc = "idle"
    /\ \E purpose \in Purposes \ {"scan"} : host' = [host EXCEPT ![h] = AfterRead(purpose)]
    /\ UNCHANGED <<grantVars, intakeVars, scan, session>>

HostAdopts(h) ==
    /\ host[h].pc = "adopting"
    /\ entry' = Adopted(host[h].grant)
    /\ host' = [host EXCEPT ![h] = IF entry'.state = "open" THEN [Idle EXCEPT !.pc = host[h].next] ELSE Idle]
    /\ UNCHANGED <<grants, printed, cut, dropped, overlapped, intakeVars, scan, session>>

\* The request ends where it is.
HostEnds(h) ==
    /\ host[h].pc # "idle"
    /\ host' = [host EXCEPT ![h] = Idle]
    /\ dropped' = (dropped \/ host[h].pc = "revoked")
    /\ UNCHANGED <<entry, grants, printed, cut, overlapped, intakeVars, scan, session>>

-----------------------------------------------------------------------------
(* Signing the phones out, and the stop.                                   *)

SignedOutAll == [g \in Phones |-> [session[g] EXCEPT !.live = FALSE]]

\* revokeRole: tokens and sessions in one batch.
Revoke(h) ==
    /\ host[h].pc = "rotate" /\ Len(grants) < MaxGrants
    /\ grants' = [i \in DOMAIN grants |-> FALSE]
    /\ session' = SignedOutAll
    /\ cut' = Len(grants)
    /\ host' = [host EXCEPT ![h].pc = "revoked"]
    /\ UNCHANGED <<entry, printed, dropped, overlapped, intakeVars, scan>>

\* The replacement, a statement of its own.
Replace(h) ==
    /\ host[h].pc = "revoked" /\ Len(grants) < MaxGrants
    /\ grants' = Append(grants, TRUE)
    /\ host' = [host EXCEPT ![h] = Idle]
    /\ UNCHANGED <<entry, printed, cut, dropped, overlapped, intakeVars, scan, session>>

\* createDisabledLegacyStatement gives an event without an entry its tombstone.
Tombstone == [state |-> "disabled", grant |-> IF entry.state = "none" THEN Len(grants) ELSE entry.grant]

\* disable, one batch.
Disable ==
    /\ entry.state # "disabled"
    /\ entry' = Tombstone
    /\ grants' = [i \in DOMAIN grants |-> FALSE]
    /\ session' = SignedOutAll
    /\ rsvp' = FALSE /\ uploads' = FALSE
    /\ cut' = Len(grants)
    /\ overlapped' = \E h \in Hosts : host[h].pc \in {"rotate", "revoked"}
    /\ UNCHANGED <<printed, dropped, early, started, host, scan>>

-----------------------------------------------------------------------------
(* The intakes.                                                            *)

\* Mutant of EntryOpen: the earlier check of the route is enough.
EntryChecked == TRUE
\* The EXISTS both intake statements carry: a printed entry that stands.
EntryOpen == entry.state = "open"

\* updateSettings opens or closes RSVP; `reopen` passed requireOpenEntry.
OpenRsvp(h) ==
    /\ host[h].pc = "reopen"
    /\ rsvp' = (rsvp \/ EntryOpen)
    /\ host' = [host EXCEPT ![h] = Idle]
    /\ UNCHANGED <<grantVars, uploads, early, started, scan, session>>

\* applyPhotoIntake, 'reopen', behind the same check.
ReopenUploads(h) ==
    /\ host[h].pc = "reopen"
    /\ uploads' = (uploads \/ (started /\ EntryOpen))
    /\ host' = [host EXCEPT ![h] = Idle]
    /\ UNCHANGED <<grantVars, rsvp, early, started, scan, session>>

\* applyPhotoIntake, the transitions that need no check before the statement.
OpenEarly ==
    /\ ~started /\ uploads /\ ~early /\ EntryOpen
    /\ early' = TRUE
    /\ UNCHANGED <<grantVars, rsvp, uploads, started, host, scan, session>>

ReturnToSchedule ==
    /\ ~started /\ uploads /\ early
    /\ early' = FALSE
    /\ UNCHANGED <<grantVars, rsvp, uploads, started, host, scan, session>>

Pause ==
    /\ started /\ uploads
    /\ uploads' = FALSE
    /\ UNCHANGED <<grantVars, rsvp, early, started, host, scan, session>>

\* updateSettings moves the start, or closes RSVP: a start moved back into the
\* future ends a pause while the printed entry stands.
MoveStart ==
    \E future \in BOOLEAN :
        LET reopened == ~uploads /\ future /\ EntryOpen
        IN /\ started' = ~future
           /\ uploads' = (uploads \/ reopened)
           /\ early' = (early /\ ~reopened)
           /\ rsvp' \in {rsvp, FALSE}
           /\ UNCHANGED <<grantVars, host, scan, session>>

\* event_start_at comes.
StartComes ==
    /\ ~started /\ started' = TRUE
    /\ UNCHANGED <<grantVars, rsvp, uploads, early, host, scan, session>>

-----------------------------------------------------------------------------
(* A scan.                                                                 *)

\* adoptPrintedToken, for a code of the path form that no entry carries yet: the
\* token it names must be live, and the newest live one is adopted.
ScanAdopts(g) ==
    /\ scan[g].pc = "idle"
    /\ entry.state = "none" /\ printed # 0 /\ grants[printed]
    /\ scan' = [scan EXCEPT ![g] = AfterRead("scan")]
    /\ UNCHANGED <<grantVars, intakeVars, host, session>>

AdoptScanned(g) ==
    /\ scan[g].pc = "adopting"
    /\ entry' = Adopted(scan[g].grant)
    /\ scan' = [scan EXCEPT ![g] = Idle]
    /\ UNCHANGED <<grants, printed, cut, dropped, overlapped, intakeVars, host, session>>

\* exchangeEntry reads the entry the code names.
ScanReads(g) ==
    /\ scan[g].pc = "idle"
    /\ entry.state = "open" /\ entry.grant = printed
    /\ scan' = [scan EXCEPT ![g].pc = "scan"]
    /\ UNCHANGED <<grantVars, intakeVars, host, session>>

\* Then the current guest grant; without one the answer is EVENT_EXPIRED.
ScanFindsGrant(g) ==
    /\ scan[g].pc = "scan"
    /\ scan' = [scan EXCEPT ![g] = IF Newest = 0 THEN Idle ELSE [@ EXCEPT !.pc = "minting", !.grant = Newest]]
    /\ UNCHANGED <<grantVars, intakeVars, host, session>>

\* createEventSession inserts the session under the grant it read, and the cookie
\* replaces the one before.
MintSession(g) ==
    /\ scan[g].pc = "minting"
    /\ session' = [session EXCEPT ![g] = [grant |-> scan[g].grant, live |-> TRUE]]
    /\ scan' = [scan EXCEPT ![g] = Idle]
    /\ UNCHANGED <<grantVars, intakeVars, host>>

ScanEnds(g) ==
    /\ scan[g].pc # "idle"
    /\ scan' = [scan EXCEPT ![g] = Idle]
    /\ UNCHANGED <<grantVars, intakeVars, host, session>>

Next ==
    \/ \E h \in Hosts :
        \/ HostReads(h) \/ HostAdopts(h) \/ HostEnds(h)
        \/ Revoke(h) \/ Replace(h) \/ OpenRsvp(h) \/ ReopenUploads(h)
    \/ Disable \/ OpenEarly \/ ReturnToSchedule \/ Pause \/ MoveStart \/ StartComes
    \/ \E g \in Phones :
        ScanAdopts(g) \/ AdoptScanned(g) \/ ScanReads(g) \/ ScanFindsGrant(g) \/ MintSession(g) \/ ScanEnds(g)

Spec == Init /\ [][Next]_vars

-----------------------------------------------------------------------------
(* Properties.                                                             *)

\* The stop is complete: the intakes stay closed whatever request was under way,
\* and no phone stays or comes in, except through a rotation that had passed the
\* entry check when the stop came and creates its grant after it.
StopIsComplete ==
    entry.state = "disabled" =>
        /\ ~rsvp /\ ~uploads
        /\ ~overlapped => \A g \in Phones : ~Resolves(g)

\* A phone signed out is out: no session granted before the last sign-out
\* resolves, not even one minted after it by a scan that was under way.
SignedOut == \A g \in Phones : Resolves(g) => session[g].grant > cut

\* The printed code keeps working: while the entry stands, it is the code on the
\* invitations, and there is a grant behind it unless a rotation is between its
\* two statements or ended there.
PrintedCodeWorks ==
    /\ entry.state = "open" => entry.grant = printed
    /\ entry.state = "open" /\ Newest = 0 => dropped \/ \E h \in Hosts : host[h].pc = "revoked"
    /\ entry.state = "none" => grants[printed]

\* Before the start there is no pause that would cancel the opening, for an event
\* that has had its entry from the beginning.
OpensAtStart == printed = 0 /\ entry.state = "open" /\ ~started => uploads

EntryKept == StopIsComplete /\ SignedOut /\ PrintedCodeWorks /\ OpensAtStart

\* An entry never becomes another code, and never stands again once stopped.
RespectsEntry ==
    /\ entry.state # "none" => entry'.grant = entry.grant /\ entry'.state # "none"
    /\ entry.state = "disabled" => entry' = entry
EntryRespected == [][RespectsEntry]_vars
=============================================================================
