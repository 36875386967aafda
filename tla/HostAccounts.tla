---------------------------- MODULE HostAccounts ----------------------------
(***************************************************************************)
(* One address of a host: its registration, its account, its password and  *)
(* its sessions (worker/services/host-auth.ts, worker/routes/host-auth.ts, *)
(* worker/db/accounts.ts, HostSessionsRepository, createHostSession).      *)
(*                                                                         *)
(* Devices sign in, register and reset the password at once.  What a       *)
(* request read it keeps; a hash takes long to compute, and meanwhile      *)
(* another device may have changed the account.  Codes are numbered as     *)
(* they are drawn; whoever reads the mailbox may type any that was sent,   *)
(* and anybody may guess.                                                  *)
(***************************************************************************)
EXTENDS Naturals

CONSTANTS
    Devices,
    FirstPassword,  \* the password of an account that is already there
    NoPassword,
    MaxCodes,       \* bound: codes drawn
    CodeAttempts    \* MAX_CODE_ATTEMPTS

VARIABLES
    account,   \* the host_accounts row: password, whether its hash is of the old cost, auth_version (0: no row)
    pending,   \* the newest host_registration_challenges row
    reset,     \* the newest 'reset' row of host_login_challenges
    drawn,     \* how many codes were drawn
    device,    \* device -> its request
    session,   \* device -> its host session; the password behind it is a ghost
    tried,     \* ghost: code -> how often it was compared while it stood
    used       \* ghost: codes that changed something, and how often

vars == <<account, pending, reset, drawn, device, session, tried, used>>

\* Each device has a password it would choose.
Passwords == Devices \cup {FirstPassword}
Codes == 1..MaxCodes

Idle == [pc |-> "idle", password |-> NoPassword, version |-> 0, code |-> 0, old |-> FALSE]
NoSession == [password |-> NoPassword, version |-> 0, live |-> FALSE]

Init ==
    /\ account \in {[password |-> NoPassword, old |-> FALSE, version |-> 0],
                    [password |-> FirstPassword, old |-> TRUE, version |-> 1]}
    /\ pending = [device |-> NoPassword, code |-> 0, attempts |-> 0, live |-> FALSE]
    /\ reset = [code |-> 0, attempts |-> 0, live |-> FALSE]
    /\ drawn = 0
    /\ device = [d \in Devices |-> Idle]
    /\ session = [d \in Devices |-> NoSession]
    /\ tried = [c \in Codes |-> 0] /\ used = [c \in Codes |-> 0]

Goes(d, to) == device' = [device EXCEPT ![d] = to]

\* resolveHostSession.
Resolves(d) == session[d].live /\ session[d].version = account.version

-----------------------------------------------------------------------------
(* Signing in, and out.                                                    *)

\* authenticate reads the account and verifies the password against it.
Authenticate(d) ==
    /\ device[d].pc = "idle" /\ account.version > 0
    /\ Goes(d, [Idle EXCEPT !.pc = IF account.old THEN "rehashing" ELSE "entering",
                            !.password = account.password, !.version = account.version, !.old = account.old])
    /\ UNCHANGED <<account, pending, reset, drawn, session, tried, used>>

\* Mutant of Current: the account is written as it was read.
CurrentAnyway(d) == TRUE
\* setPasswordHashIfCurrent: this hash, this version.
Current(d) ==
    account.password = device[d].password /\ account.old = device[d].old /\ account.version = device[d].version

\* The new hash of an old password replaces that one only.
Rehash(d) ==
    /\ device[d].pc = "rehashing"
    /\ account' = IF Current(d) THEN [account EXCEPT !.password = device[d].password, !.old = FALSE] ELSE account
    /\ device' = [device EXCEPT ![d].pc = "entering"]
    /\ UNCHANGED <<pending, reset, drawn, session, tried, used>>

\* createIfAuthVersion: under the version the request knows, or not at all.
Enter(d) ==
    /\ device[d].pc = "entering"
    /\ session' = IF account.version = device[d].version
                  THEN [session EXCEPT ![d] = [password |-> device[d].password, version |-> device[d].version, live |-> TRUE]]
                  ELSE session
    /\ Goes(d, Idle)
    /\ UNCHANGED <<account, pending, reset, drawn, tried, used>>

\* Logout, or thirty days.
Leave(d) ==
    /\ session[d].live
    /\ session' = [session EXCEPT ![d].live = FALSE]
    /\ UNCHANGED <<account, pending, reset, drawn, device, tried, used>>

\* The request dies, or its answer does.
Ends(d) ==
    /\ device[d].pc # "idle"
    /\ Goes(d, Idle)
    /\ UNCHANGED <<account, pending, reset, drawn, session, tried, used>>

-----------------------------------------------------------------------------
(* A password reset.                                                       *)

\* issueChallenge: the codes before are consumed and a new one is mailed.
Forgot ==
    /\ account.version > 0 /\ drawn < MaxCodes
    /\ drawn' = drawn + 1
    /\ reset' = [code |-> drawn', attempts |-> 0, live |-> TRUE]
    /\ UNCHANGED <<account, pending, device, session, tried, used>>

\* The route reads the account, and consumeCode the live challenge.
AskReset(d) ==
    /\ device[d].pc = "idle" /\ reset.live
    /\ Goes(d, [Idle EXCEPT !.pc = "spending", !.version = account.version, !.code = reset.code])
    /\ UNCHANGED <<account, pending, reset, drawn, session, tried, used>>

ResetStands(d) == reset.live /\ reset.code = device[d].code

\* spendAttempt on the challenge that was read; the code typed is compared after.
SpendReset(d) ==
    /\ device[d].pc = "spending"
    /\ IF ResetStands(d) /\ reset.attempts < CodeAttempts
         THEN /\ reset' = [reset EXCEPT !.attempts = @ + 1]
              /\ tried' = [tried EXCEPT ![device[d].code] = @ + 1]
              /\ \/ Goes(d, Idle)
                 \/ device' = [device EXCEPT ![d].pc = "consuming"]
         ELSE Goes(d, Idle) /\ UNCHANGED <<reset, tried>>
    /\ UNCHANGED <<account, pending, drawn, session, used>>

\* consumeChallenge: one request of those that compared it well has it.
ConsumeReset(d) ==
    /\ device[d].pc = "consuming"
    /\ IF ResetStands(d)
         THEN /\ reset' = [reset EXCEPT !.live = FALSE]
              /\ used' = [used EXCEPT ![device[d].code] = @ + 1]
              /\ device' = [device EXCEPT ![d].pc = "resetting"]
         ELSE Goes(d, Idle) /\ UNCHANGED <<reset, used>>
    /\ UNCHANGED <<account, pending, drawn, session, tried>>

\* resetPasswordAndAdvanceVersion under the version the route read.
ResetPassword(d) ==
    /\ device[d].pc = "resetting"
    /\ IF account.version = device[d].version
         THEN /\ account' = [password |-> d, old |-> FALSE, version |-> account.version + 1]
              /\ session' = [e \in Devices |-> [session[e] EXCEPT !.live = FALSE]]
              /\ Goes(d, [Idle EXCEPT !.pc = "entering", !.password = d, !.version = account'.version])
         ELSE Goes(d, Idle) /\ UNCHANGED <<account, session>>
    /\ UNCHANGED <<pending, reset, drawn, tried, used>>

-----------------------------------------------------------------------------
(* Registration.                                                           *)

\* startRegistration: the address's earlier challenges are consumed.
Register(d) ==
    /\ device[d].pc = "idle" /\ drawn < MaxCodes
    /\ drawn' = drawn + 1
    /\ pending' = [device |-> d, code |-> drawn', attempts |-> 0, live |-> TRUE]
    /\ UNCHANGED <<account, reset, device, session, tried, used>>

\* resendRegistration reads the challenge and mails a new code ...
Resend(d) ==
    /\ device[d].pc = "idle" /\ pending.device = d /\ pending.live /\ drawn < MaxCodes
    /\ drawn' = drawn + 1
    /\ Goes(d, [Idle EXCEPT !.pc = "resending", !.code = pending.code, !.version = drawn'])
    /\ UNCHANGED <<account, pending, reset, session, tried, used>>

PendingStands(d) == pending.live /\ pending.device = d /\ pending.code = device[d].code

\* ... and replaceRegistrationCode stores it, if no other did meanwhile.
StoreCode(d) ==
    /\ device[d].pc = "resending"
    /\ pending' = IF PendingStands(d) THEN [pending EXCEPT !.code = device[d].version, !.attempts = 0] ELSE pending
    /\ Goes(d, Idle)
    /\ UNCHANGED <<account, reset, drawn, session, tried, used>>

\* completeRegistration reads the challenge of the browser's cookie.
AskComplete(d) ==
    /\ device[d].pc = "idle" /\ pending.device = d /\ pending.live
    /\ Goes(d, [Idle EXCEPT !.pc = "completing", !.code = pending.code])
    /\ UNCHANGED <<account, pending, reset, drawn, session, tried, used>>

\* spendRegistrationAttempt, on the challenge whatever its code is by now; the
\* code typed is compared with the one that was read.
SpendComplete(d) ==
    /\ device[d].pc = "completing"
    /\ IF pending.live /\ pending.device = d /\ pending.attempts < CodeAttempts
         THEN /\ pending' = [pending EXCEPT !.attempts = @ + 1]
              /\ tried' = [tried EXCEPT ![device[d].code] = @ + (IF PendingStands(d) THEN 1 ELSE 0)]
              /\ \/ Goes(d, Idle)
                 \/ device' = [device EXCEPT ![d].pc = "activating"]
         ELSE Goes(d, Idle) /\ UNCHANGED <<pending, tried>>
    /\ UNCHANGED <<account, reset, drawn, session, used>>

\* activateRegistration: the challenge must still have that code; an account that
\* is there keeps its password, and the device is signed in to it.
Activate(d) ==
    /\ device[d].pc = "activating"
    /\ IF PendingStands(d)
         THEN /\ pending' = [pending EXCEPT !.live = FALSE]
              /\ account' = IF account.version > 0 THEN account ELSE [password |-> d, old |-> FALSE, version |-> 1]
              /\ used' = [used EXCEPT ![device[d].code] = @ + 1]
              /\ Goes(d, [Idle EXCEPT !.pc = "entering", !.password = account'.password, !.version = account'.version])
         ELSE Goes(d, Idle) /\ UNCHANGED <<pending, account, used>>
    /\ UNCHANGED <<reset, drawn, session, tried>>

Next ==
    \/ Forgot
    \/ \E d \in Devices :
        \/ Authenticate(d) \/ Rehash(d) \/ Enter(d) \/ Leave(d) \/ Ends(d)
        \/ AskReset(d) \/ SpendReset(d) \/ ConsumeReset(d) \/ ResetPassword(d)
        \/ Register(d) \/ Resend(d) \/ StoreCode(d) \/ AskComplete(d) \/ SpendComplete(d) \/ Activate(d)

Spec == Init /\ [][Next]_vars

-----------------------------------------------------------------------------
(* Properties.                                                             *)

\* Whoever is signed in stands behind the password the account has now, although
\* sign-ins, rehashes, resets and activations overtake each other; a code is
\* guessed at most CodeAttempts times while it stands, and works once.
AccountKept ==
    /\ \A d \in Devices : Resolves(d) => session[d].password = account.password
    /\ \A c \in Codes : tried[c] <= CodeAttempts /\ used[c] <= 1

\* The password changes only by a reset, which signs every device out.
RespectsAccount ==
    account.version > 0 /\ account'.password # account.password =>
         account'.version = account.version + 1 /\ \A d \in Devices : ~Resolves(d)'
AccountRespected == [][RespectsAccount]_vars
=============================================================================
