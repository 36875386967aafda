------------------------- MODULE NotificationOutbox -------------------------
(***************************************************************************)
(* The mails an event's owner is sent (worker/db/notification-outbox.ts,   *)
(* NotificationService.dispatchPending): rows scheduled with the           *)
(* ownership, claimed by cron passes under leases, authorized one by one   *)
(* against the account and the event, sent by a provider, and settled.     *)
(*                                                                         *)
(* A pass may die anywhere; its token dies with it, and its rows wait for  *)
(* their lease to lapse.  A lease may also lapse while a pass still sends. *)
(***************************************************************************)
EXTENDS Naturals, FiniteSets

CONSTANTS
    Rows,          \* notifications of one owner and event
    Passes,        \* dispatchPending runs
    NoPass,
    MaxSends,      \* OUTBOX_MAX_ATTEMPTS
    MaxLapses      \* bound: leases of one row reclaimed

VARIABLES
    row,        \* the host_notification_outbox rows
    pass,       \* pass -> the rows it has left, and what it does with one
    verified,   \* host_accounts.email_verified_at is set
    wanted,     \* host_accounts.notifications_enabled
    deleted,    \* events.deleted_at is set
    verifying,  \* a verify request stands between its two statements
    sent,       \* ghost: row -> mails the provider took
    lapses,     \* ghost: row -> how often it was reclaimed
    unheard     \* ghost: the address was verified by something that revives nothing

vars == <<row, pass, verified, wanted, deleted, verifying, sent, lapses, unheard>>

Idle == [left |-> {}, at |-> "page", of |-> {}]
Waiting == [status |-> "pending", due |-> TRUE, holder |-> NoPass, lapsed |-> FALSE, attempts |-> 0, reason |-> "none"]

Init ==
    /\ row = [r \in Rows |-> Waiting]
    /\ pass = [p \in Passes |-> Idle]
    /\ verified \in BOOLEAN /\ wanted = TRUE /\ deleted = FALSE
    /\ verifying = FALSE
    /\ sent = [r \in Rows |-> 0] /\ lapses = [r \in Rows |-> 0]
    /\ unheard = FALSE

Held(p) == {r \in Rows : row[r].status = "sending" /\ row[r].holder = p}
Freed(r) == [row[r] EXCEPT !.holder = NoPass, !.lapsed = FALSE]

\* The clock: a retry comes due, a lease ends.
RetryDue(r) ==
    /\ row[r].status = "pending" /\ ~row[r].due
    /\ row' = [row EXCEPT ![r].due = TRUE]
    /\ UNCHANGED <<pass, verified, wanted, deleted, verifying, sent, lapses, unheard>>

LeaseEnds(r) ==
    /\ row[r].status = "sending" /\ ~row[r].lapsed /\ lapses[r] < MaxLapses
    /\ row' = [row EXCEPT ![r].lapsed = TRUE]
    /\ UNCHANGED <<pass, verified, wanted, deleted, verifying, sent, lapses, unheard>>

-----------------------------------------------------------------------------
(* A pass.                                                                 *)

\* reclaimExpired, at the start of every pass.
ReclaimExpired ==
    LET late == {r \in Rows : row[r].status = "sending" /\ row[r].lapsed}
    IN /\ late # {}
       /\ row' = [r \in Rows |-> IF r \in late THEN [Freed(r) EXCEPT !.status = "pending"] ELSE row[r]]
       /\ lapses' = [r \in Rows |-> IF r \in late THEN lapses[r] + 1 ELSE lapses[r]]
       /\ UNCHANGED <<pass, verified, wanted, deleted, verifying, sent, unheard>>

\* claimDue and loadClaim: the rows due, under a token of this pass.
ClaimDue(p) ==
    LET due == {r \in Rows : row[r].status = "pending" /\ row[r].due}
    IN /\ pass[p] = Idle /\ due # {}
       /\ row' = [r \in Rows |-> IF r \in due THEN [row[r] EXCEPT !.status = "sending", !.holder = p] ELSE row[r]]
       /\ pass' = [pass EXCEPT ![p].left = due]
       /\ UNCHANGED <<verified, wanted, deleted, verifying, sent, lapses, unheard>>

\* The decision of authorizeClaimedDelivery.
Refusal ==
    CASE ~verified -> "address_unverified"
      [] verified /\ ~wanted -> "suppressed_by_preference"
      [] verified /\ wanted /\ deleted -> "event_deleted"
      [] OTHER -> "none"

\* The row is this pass's, and its lease has not lapsed.
Permitted(p, r) == r \in Held(p) /\ ~row[r].lapsed

Authorize(p, r) ==
    /\ pass[p].at = "page" /\ r \in pass[p].left
    /\ IF Permitted(p, r) /\ Refusal = "none"
         THEN /\ pass' = [pass EXCEPT ![p] = [left |-> @.left \ {r}, at |-> "sending", of |-> {r}]]
              /\ UNCHANGED row
         ELSE /\ pass' = [pass EXCEPT ![p].left = @ \ {r}]
              /\ row' = IF Permitted(p, r)
                        THEN [row EXCEPT ![r] = [Freed(r) EXCEPT !.status = "failed", !.reason = Refusal]]
                        ELSE row
    /\ UNCHANGED <<verified, wanted, deleted, verifying, sent, lapses, unheard>>

\* The provider takes the mail, or does not.
Send(p) ==
    /\ pass[p].at = "sending"
    /\ \/ /\ pass' = [pass EXCEPT ![p].at = "delivered"]
          /\ sent' = [r \in Rows |-> IF r \in pass[p].of THEN sent[r] + 1 ELSE sent[r]]
       \/ /\ pass' = [pass EXCEPT ![p].at = "refused"]
          /\ UNCHANGED sent
    /\ UNCHANGED <<row, verified, wanted, deleted, verifying, lapses, unheard>>

\* Mutant of Fenced: the outcome is written whoever holds the row by now.
OutcomesUnfenced(p, r) == TRUE
\* Every outcome is fenced by the claim token.
Fenced(p, r) == r \in Held(p)

\* Mutant of Tried: a mail the provider refused was no attempt.
TriedIfTaken(p, r) == row[r].attempts + (IF pass[p].at = "delivered" THEN 1 ELSE 0)
Tried(p, r) == row[r].attempts + 1

\* markSent, or retryOrFail.
Settle(p) ==
    /\ pass[p].at \in {"delivered", "refused"}
    /\ row' = [r \in Rows |->
           IF ~(r \in pass[p].of /\ Fenced(p, r)) THEN row[r]
           ELSE [Freed(r) EXCEPT
                    !.status = IF pass[p].at = "delivered" THEN "sent"
                               ELSE IF Tried(p, r) >= MaxSends THEN "failed" ELSE "pending",
                    !.due = FALSE,
                    !.attempts = Tried(p, r),
                    !.reason = IF pass[p].at = "delivered" THEN "none" ELSE "send_failed"]]
    /\ pass' = [pass EXCEPT ![p] = [Idle EXCEPT !.left = pass[p].left]]
    /\ UNCHANGED <<verified, wanted, deleted, verifying, sent, lapses, unheard>>

\* The invocation dies, and its token with it.
PassDies(p) ==
    /\ pass[p] # Idle
    /\ \A r \in Held(p) : lapses[r] < MaxLapses
    /\ pass' = [pass EXCEPT ![p] = Idle]
    /\ row' = [r \in Rows |-> IF r \in Held(p) THEN [row[r] EXCEPT !.holder = NoPass] ELSE row[r]]
    /\ UNCHANGED <<verified, wanted, deleted, verifying, sent, lapses, unheard>>

-----------------------------------------------------------------------------
(* The owner.                                                              *)

\* POST /host/verify: the account is marked, ...
Verify ==
    /\ ~verified
    /\ verified' = TRUE /\ verifying' = TRUE
    /\ UNCHANGED <<row, pass, wanted, deleted, sent, lapses, unheard>>

\* ... then reviveUnverified returns the mails retired for want of that.
Revived(r) == [row[r] EXCEPT !.status = "pending", !.due = TRUE, !.reason = "none"]
ReviveUnverified ==
    /\ verifying /\ verifying' = FALSE
    /\ row' = [r \in Rows |->
           IF row[r].status = "failed" /\ row[r].reason = "address_unverified" THEN Revived(r) ELSE row[r]]
    /\ UNCHANGED <<pass, verified, wanted, deleted, sent, lapses, unheard>>

\* The request dies between the two, or a password reset or a registration of the
\* same address verifies it.
VerifiedElsewhere ==
    /\ verifying \/ ~verified
    /\ verifying' = FALSE /\ verified' = TRUE /\ unheard' = TRUE
    /\ UNCHANGED <<row, pass, wanted, deleted, sent, lapses>>

Prefer ==
    /\ wanted' = ~wanted
    /\ UNCHANGED <<row, pass, verified, deleted, verifying, sent, lapses, unheard>>

Delete ==
    /\ ~deleted /\ deleted' = TRUE
    /\ UNCHANGED <<row, pass, verified, wanted, verifying, sent, lapses, unheard>>

Next ==
    \/ \E r \in Rows : RetryDue(r) \/ LeaseEnds(r)
    \/ ReclaimExpired
    \/ \E p \in Passes :
        ClaimDue(p) \/ (\E r \in Rows : Authorize(p, r)) \/ Send(p) \/ Settle(p) \/ PassDies(p)
    \/ Verify \/ ReviveUnverified \/ VerifiedElsewhere \/ Prefer \/ Delete

Spec == Init /\ [][Next]_vars

-----------------------------------------------------------------------------
(* Properties.                                                             *)

\* No row is settled twice or tried too often; a mail is repeated only after its
\* lease was reclaimed; and a verified owner hears what was held back for want of
\* it, unless the address was verified by a path that revives nothing.
MailKept ==
    /\ \A r \in Rows :
        /\ row[r].attempts <= MaxSends
        /\ sent[r] <= 1 + lapses[r]
        /\ row[r].status = "sent" => sent[r] > 0
    /\ verified /\ ~verifying /\ ~unheard =>
        \A r \in Rows : ~(row[r].status = "failed" /\ row[r].reason = "address_unverified")

\* What was sent stays sent, whatever an overtaken pass still writes, and what
\* failed comes back only when the address is verified.
RespectsMail ==
    \A r \in Rows :
       /\ row[r].status = "sent" => row'[r] = row[r]
       /\ row[r].status = "failed" /\ row'[r] # row[r] => row[r].reason = "address_unverified" /\ verified
MailRespected == [][RespectsMail]_vars

\* Every mail is sent or given up.
MailEnds == \A r \in Rows : row[r].status \in {"pending", "sending"} ~> row[r].status \in {"sent", "failed"}
=============================================================================
