----------------------------- MODULE ManagerLink ----------------------------
(***************************************************************************)
(* The management link of one event and what hangs on it: the sessions of  *)
(* browsers that opened it, the claim of the event by its first owner, the *)
(* uploads those sessions reserve, and the upload actor that stands for    *)
(* the owner's account (worker/services/links.ts,                          *)
(* manager-upload-actor.ts, worker/db/sessions.ts, accounts.ts).           *)
(*                                                                         *)
(* Management tokens are numbered in the order of their creation and the   *)
(* newest is the one that stands, so events.manager_link_revision is how   *)
(* many were replaced.  A rotation is one batch; what a request read       *)
(* before it may be old.                                                   *)
(***************************************************************************)
EXTENDS Naturals

CONSTANTS
    Browsers,      \* browsers that hold an event cookie
    Accounts,      \* host accounts
    NoAccount,
    MaxRotations   \* bound: replacements of the link

VARIABLES
    link,       \* the token that stands, and with it the revision
    owner,      \* the account whose event_hosts row says 'owner'
    cohost,     \* the account whose row says 'cohost', if there is one
    claimOpen,  \* events.legacy_owner_claim_open
    session,    \* browser -> its link session: token, can_claim_owner, revoked_at
    request,    \* browser -> what its request knows
    actor,      \* account -> the token its live upload actor is bound to
    reserved    \* tokens with an unresolved reservation of one of their sessions

vars == <<link, owner, cohost, claimOpen, session, request, actor, reserved>>

Unlinked == 0
NoSession == [token |-> Unlinked, creator |-> FALSE, live |-> FALSE]
Idle == [pc |-> "idle", revision |-> 0, token |-> Unlinked, account |-> NoAccount]

Init ==
    /\ link = 1
    /\ owner \in Accounts \cup {NoAccount}
    /\ cohost \in (Accounts \ {owner}) \cup {NoAccount}
    /\ claimOpen \in (IF owner = NoAccount THEN BOOLEAN ELSE {FALSE})
    /\ \E b \in Browsers, creator \in BOOLEAN :
        session = [c \in Browsers |->
                      IF c = b THEN [token |-> 1, creator |-> creator /\ ~claimOpen, live |-> TRUE] ELSE NoSession]
    /\ request = [b \in Browsers |-> Idle]
    /\ actor = [a \in Accounts |-> Unlinked]
    /\ reserved = {}

Members == {owner, cohost} \ {NoAccount}

\* resolve: the token and the session both stand.
Resolves(s) == s.token = link /\ s.live

\* The EXISTS of both owner claims: the session must stand and be the creator's,
\* unless the legacy claim is still open.
MayClaim(s) == s.live /\ s.token # Unlinked /\ (s.creator \/ claimOpen)
\* getEventOwnershipState: someone could still claim the event.
ClaimPossible == claimOpen \/ \E b \in Browsers : session[b].creator /\ session[b].live

-----------------------------------------------------------------------------
(* Opening the link, and losing the session.                               *)

\* exchange reads the token the link names, ...
OpenLink(b) ==
    /\ request[b].pc = "idle"
    /\ request' = [request EXCEPT ![b] = [Idle EXCEPT !.pc = "minting", !.token = link]]
    /\ UNCHANGED <<link, owner, cohost, claimOpen, session, actor, reserved>>

\* ... and inserts a session under it, whatever became of it.
MintSession(b) ==
    /\ request[b].pc = "minting"
    /\ session' = [session EXCEPT ![b] = [token |-> request[b].token, creator |-> FALSE, live |-> TRUE]]
    /\ request' = [request EXCEPT ![b] = Idle]
    /\ UNCHANGED <<link, owner, cohost, claimOpen, actor, reserved>>

\* Twelve hours are over.
SessionExpires(b) ==
    /\ session[b].live
    /\ session' = [session EXCEPT ![b].live = FALSE]
    /\ UNCHANGED <<link, owner, cohost, claimOpen, request, actor, reserved>>

-----------------------------------------------------------------------------
(* The owner.                                                              *)

\* claimInitialOwnerAndSchedule after its read of the memberships, and the claim
\* in activateRegistration: a request that resolved its session earlier.
AskToClaim(b, a) ==
    /\ request[b].pc = "idle" /\ Resolves(session[b]) /\ Members = {}
    /\ request' = [request EXCEPT ![b] = [Idle EXCEPT !.pc = "claiming", !.account = a]]
    /\ UNCHANGED <<link, owner, cohost, claimOpen, session, actor, reserved>>

Claim(b) ==
    /\ request[b].pc = "claiming"
    /\ IF Members = {} /\ MayClaim(session[b])
         THEN owner' = request[b].account /\ claimOpen' = FALSE
         ELSE UNCHANGED <<owner, claimOpen>>
    /\ request' = [request EXCEPT ![b] = Idle]
    /\ UNCHANGED <<link, cohost, session, actor, reserved>>

-----------------------------------------------------------------------------
(* The rotation.                                                           *)

\* A page loaded with the revision, by a host signed in to an account of the event.
LoadPage(b, a) ==
    /\ request[b].pc = "idle" /\ a \in Members
    /\ request' = [request EXCEPT ![b] = [Idle EXCEPT !.pc = "page", !.revision = link, !.account = a]]
    /\ UNCHANGED <<link, owner, cohost, claimOpen, session, actor, reserved>>

\* The route: the account is authorized again, a link session is not enough, and
\* an unowned event is not rotated away from a creator who may still claim it.
AskToRotate(b) ==
    /\ request[b].pc = "page" /\ request[b].account \in Members
    /\ owner = NoAccount => ~ClaimPossible
    /\ request' = [request EXCEPT ![b].pc = "asked"]
    /\ UNCHANGED <<link, owner, cohost, claimOpen, session, actor, reserved>>

\* getActiveForRole: the predecessor.
ReadPredecessor(b) ==
    /\ request[b].pc = "asked"
    /\ request' = [request EXCEPT ![b].pc = "rotating", ![b].token = link]
    /\ UNCHANGED <<link, owner, cohost, claimOpen, session, actor, reserved>>

\* The compare-and-swap at the head of the batch, and the NOT NULL assertion that
\* rolls all of it back without its replacement.
Wins(b) == request[b].revision = link /\ request[b].token = link

Rotate(b) ==
    /\ request[b].pc = "rotating" /\ link <= MaxRotations
    /\ IF Wins(b)
         THEN LET old == link
              IN /\ link' = link + 1
                 /\ session' = [c \in Browsers |->
                        IF session[c].token = old THEN [session[c] EXCEPT !.live = FALSE] ELSE session[c]]
                 /\ actor' = [a \in Accounts |-> IF actor[a] = old THEN link' ELSE actor[a]]
                 /\ reserved' = reserved \ {old}
         ELSE UNCHANGED <<link, session, actor, reserved>>
    /\ request' = [request EXCEPT ![b] = Idle]
    /\ UNCHANGED <<owner, cohost, claimOpen>>

-----------------------------------------------------------------------------
(* Uploads of hosts.                                                       *)

\* A reservation under a link session: authorityLivenessSql is part of it.
ReserveByLink(b) ==
    /\ Resolves(session[b])
    /\ reserved' = reserved \cup {session[b].token}
    /\ UNCHANGED <<link, owner, cohost, claimOpen, session, request, actor>>

\* The last of them is delivered or cancelled.
LinkUploadsEnd(t) ==
    /\ t \in reserved
    /\ reserved' = reserved \ {t}
    /\ UNCHANGED <<link, owner, cohost, claimOpen, session, request, actor>>

\* ensureForReservation finds no live actor and inserts one under the token that
\* stands in that statement; the unique index lets one of several in.
EnsureActor(a) ==
    /\ a \in Members /\ actor[a] = Unlinked
    /\ actor' = [actor EXCEPT ![a] = link]
    /\ UNCHANGED <<link, owner, cohost, claimOpen, session, request, reserved>>

RequestEnds(b) ==
    /\ request[b].pc # "idle"
    /\ request' = [request EXCEPT ![b] = Idle]
    /\ UNCHANGED <<link, owner, cohost, claimOpen, session, actor, reserved>>

Next ==
    \/ \E b \in Browsers :
        \/ OpenLink(b) \/ MintSession(b) \/ SessionExpires(b) \/ Claim(b) \/ AskToRotate(b)
        \/ \E a \in Accounts : AskToClaim(b, a) \/ LoadPage(b, a)
        \/ ReadPredecessor(b) \/ Rotate(b)
        \/ ReserveByLink(b) \/ RequestEnds(b)
    \/ \E t \in reserved : LinkUploadsEnd(t)
    \/ \E a \in Accounts : EnsureActor(a)

Spec == Init /\ [][Next]_vars

-----------------------------------------------------------------------------
(* Properties.                                                             *)

\* What hangs on the link follows it: no replaced link leaves a reservation that
\* nobody can finish, and an account's upload actor is bound to the token that stands.
LinkKept ==
    /\ reserved \subseteq {link}
    /\ \A a \in Accounts : actor[a] \in {Unlinked, link}
    /\ claimOpen => owner = NoAccount

\* A host replaces only the link their page showed, so that two hosts who act on
\* one page replace it once; and never while its creator could still claim the
\* event.  An event is claimed only under the link that stands, although the claim
\* looks at the session alone; and its owner stays.
RespectsLink ==
    /\ link' # link =>
           /\ owner = NoAccount => ~ClaimPossible
           /\ \E b \in Browsers :
               request[b].pc = "rotating" /\ request'[b] = Idle /\ request[b].revision = link
    /\ owner' # owner =>
           /\ owner = NoAccount
           /\ \E b \in Browsers : request[b].pc = "claiming" /\ request'[b] = Idle /\ Resolves(session[b])
LinkRespected == [][RespectsLink]_vars
=============================================================================
