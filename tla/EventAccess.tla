------------------------------ MODULE EventAccess ------------------------------
(***************************************************************************)
(* Who gets to an event, and what it tells them: its printed entry, its    *)
(* management link, a host's account, the mails to its owner and the notes *)
(* of its guests.  None waits for another, and each has its rows; here is  *)
(* what they promise together.                                             *)
(***************************************************************************)
EXTENDS Integers, FiniteSets

CONSTANTS
    Hosts, Phones, MaxGrants,                                    \* of the entry
    Browsers, Accounts, NoAccount, MaxRotations,                 \* of the link
    Devices, FirstPassword, NoPassword, MaxCodes, CodeAttempts,  \* of the account
    Rows, Passes, NoPass, MaxSends, MaxLapses,                   \* of the mails
    Guests, Requests, Moderators, MaxKeys, SessionLimit, AddressLimit, NoteLimit  \* of the notes

VARIABLES
    entry, grants, rsvp, uploads, early, started, hostPage, scan, guestSession, printed, cut, dropped, overlapped,
    link, owner, cohost, claimOpen, browserSession, browserRequest, actor, reserved,
    account, pending, reset, drawn, device, hostSession, tried, used,
    mail, courier, verified, wanted, deleted, verifying, sent, lapses, unheard,
    note, receipts, clock, rate, open, moderated, composer, post, reader, confirmed, made

Entry == INSTANCE EventEntry WITH host <- hostPage, session <- guestSession
Link == INSTANCE ManagerLink WITH session <- browserSession, request <- browserRequest
Account == INSTANCE HostAccounts WITH session <- hostSession
Mail == INSTANCE NotificationOutbox WITH row <- mail, pass <- courier
Note == INSTANCE GuestNotes WITH request <- post, host <- reader, Hosts <- Moderators

entryVars ==
    <<entry, grants, rsvp, uploads, early, started, hostPage, scan, guestSession, printed, cut, dropped, overlapped>>
linkVars == <<link, owner, cohost, claimOpen, browserSession, browserRequest, actor, reserved>>
accountVars == <<account, pending, reset, drawn, device, hostSession, tried, used>>
mailVars == <<mail, courier, verified, wanted, deleted, verifying, sent, lapses, unheard>>
noteVars == <<note, receipts, clock, rate, open, moderated, composer, post, reader, confirmed, made>>

\* What the proofs ask of the constants.
AccountBounds == MaxCodes \in Nat /\ CodeAttempts \in Nat
MailBounds == IsFiniteSet(Passes) /\ MaxSends \in Nat \ {0} /\ NoPass \notin Passes
NoteBounds == MaxKeys \in Nat /\ SessionLimit \in Nat /\ AddressLimit \in Nat /\ NoteLimit \in Nat
ASSUME AccessBounds == AccountBounds /\ MailBounds /\ NoteBounds

-----------------------------------------------------------------------------
(* Properties.                                                             *)

\* Whoever is stopped, signed out, replaced or reset is out, and whoever should get
\* in does.
AccessKept == Entry!EntryKept /\ Link!LinkKept /\ Account!AccountKept

\* A mail is tried and repeated within its bounds and held back for a reason that
\* stands; a note its guest was told is sent is there, and its limits hold.
MessagesKept == Mail!MailKept /\ Note!NotesKept

\* No step undoes what a request relied on: the entry's code, the owner and the link
\* their page showed, a password.  A mail that was sent or given up stays so; a note is
\* shown because a host who saw it as it stood shared it, or nothing was moderated.
RequestsRespected ==
    /\ Entry!EntryRespected /\ Link!LinkRespected /\ Account!AccountRespected
    /\ Mail!MailRespected /\ Note!NotesRespected
=============================================================================
