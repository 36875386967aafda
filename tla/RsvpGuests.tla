----------------------------- MODULE RsvpGuests -----------------------------
(***************************************************************************)
(* The guests' side of RSVP (services/rsvp.ts lookup and submitHousehold,  *)
(* auth/rsvp.ts, routes/rsvp.ts and the page GuestRsvpFlow.tsx): a device  *)
(* finds its household by name, reads it, and sends the answers of         *)
(* everybody in it under an idempotency key.  The request takes its        *)
(* session and household, its receipt, its members and its batch in        *)
(* separate statements, answers get lost, and the page sends again with    *)
(* the key it kept.                                                        *)
(***************************************************************************)
EXTENDS RsvpRoster

CONSTANT Tries          \* requests one device may have in flight: 1 .. n, n <= 2

VARIABLES device,       \* the page
          sub           \* its submissions, from the request to the answer

guestVars == <<device, sub>>
vars == <<event, house, host, batch, serve, session, current, device, sub>>

TriesAssumption == Tries \subseteq 1 .. 2

Mine(d) == session[d].h
Screen(d) == <<d, 0>>

(* What the page shows of a household: its members and their answers.     *)
Lookup == [scr |-> "lookup", seen |-> NoOne, draft |-> NoOne, key |-> FALSE,
           receipt |-> FALSE]
NoTry == [pc |-> "none", now |-> FALSE, heard |-> FALSE, match |-> FALSE,
          over |-> NoOne, draft |-> NoOne]

ScreenKind == {"lookup", "matched", "reading", "reloading", "editing", "saving", "receipt",
               "read-only", "before-start", "closed"}
TryPc == {"none", "sent", "authed", "settled", "listed", "applied", "viewing"}

TypeOK ==
    /\ RosterTypeOK
    /\ device \in [Devices -> [scr : ScreenKind, seen : [Member -> Answer],
                               draft : [Member -> Answer], key : BOOLEAN,
                               receipt : BOOLEAN]]
    /\ sub \in [Devices -> [Tries -> [pc : TryPc, now : BOOLEAN, heard : BOOLEAN,
                                      match : BOOLEAN, over : [Member -> Answer],
                                      draft : [Member -> Answer]]]]

Init ==
    /\ RosterInit
    /\ device = [d \in Devices |-> Lookup]
    /\ sub = [d \in Devices |-> [i \in Tries |-> NoTry]]

Quiet(d) == \A i \in Tries : sub[d][i].pc = "none"

(* RsvpAuthService.resolve, and the route's refusal after the start.      *)
Authorized(d) == /\ session[d].live
                 /\ house[Mine(d)].st = "active"

-----------------------------------------------------------------------------
(* The page shows a household as its view says (screenForHousehold).      *)

SettledScreen(d, seen, responded) ==
    IF event.phase = "due" \/ (event.phase = "before" /\ ~event.rsvp) THEN "before-start"
    ELSE IF ~Editable \/ session[d].lapsed THEN "read-only"
    ELSE IF responded THEN "receipt" ELSE "editing"

DraftOf(seen) == [m \in Member |-> IF seen[m] = "pending" THEN "out" ELSE seen[m]]

Shows(d, scr, seen, draft, key, receipt) ==
    device' = [device EXCEPT ![d] = [scr |-> scr, seen |-> seen, draft |-> draft, key |-> key,
                                     receipt |-> receipt]]

Loses(d, scr) == device' = [device EXCEPT ![d] = [Lookup EXCEPT !.scr = scr]]

(* lookup: the household record is read, and is the version the page gets. *)
LookupMatches(d) ==
    /\ device[d].scr = "lookup" /\ Quiet(d)
    /\ ~Unavailable
    /\ \E n, e \in Names : \E h \in Candidates({n, e}) :
         /\ Candidates({n, e}) = {h}
         /\ session' = [session EXCEPT ![d] =
                [h |-> h, live |-> FALSE, lapsed |-> event.phase # "before", synced |-> TRUE]]
    /\ device' = [device EXCEPT ![d].scr = "matched"]
    /\ current' = current \cup {Screen(d)}
    /\ UNCHANGED <<event, house, host, batch, serve, sub>>

(* RsvpAuthService.create, then the members are listed for the answer.    *)
CreateSession(d) ==
    /\ device[d].scr = "matched"
    /\ session' = [session EXCEPT ![d].live = TRUE]
    /\ LET seen == house[Mine(d)].ans
       IN  Shows(d, SettledScreen(d, seen, house[Mine(d)].responded), seen, DraftOf(seen),
                 FALSE, FALSE)
    /\ UNCHANGED <<event, house, host, batch, serve, current, sub>>

(* The page asks for the household again (a reload, a conflict): the route *)
(* reads the household, then its members.                                 *)
Reads(d, next) ==
    IF event.phase = "started" THEN Loses(d, "closed") /\ UNCHANGED current
    ELSE IF ~Authorized(d) THEN Loses(d, "lookup") /\ UNCHANGED current
    ELSE /\ device' = [device EXCEPT ![d] =
                IF next = "reading" THEN [Lookup EXCEPT !.scr = next] ELSE [@ EXCEPT !.scr = next]]
         /\ current' = current \cup {Screen(d)}

Reload(d) ==
    /\ device[d].scr \in {"editing", "receipt", "read-only", "before-start"}
    /\ Quiet(d)
    /\ Reads(d, "reading")
    /\ UNCHANGED <<event, house, host, batch, serve, session, sub>>

Kept(d, seen) == device[d].scr = "reloading" /\ Of(seen) = Of(device[d].seen)

(* A draft outlives the reload after a conflict when nobody joined or left. *)
Reread(d) ==
    /\ device[d].scr \in {"reading", "reloading"}
    /\ LET seen == house[Mine(d)].ans
           scr == SettledScreen(d, seen, house[Mine(d)].responded)
       IN  Shows(d, IF device[d].scr = "reloading" /\ scr = "receipt" THEN "editing" ELSE scr,
                 seen, IF Kept(d, seen) THEN device[d].draft ELSE DraftOf(seen), FALSE, FALSE)
    /\ UNCHANGED <<event, house, host, batch, serve, session, current, sub>>

(* A window that lapsed is renewed by looking the invitation up again.    *)
Renew(d) ==
    /\ device[d].scr \in {"read-only", "before-start"} /\ Quiet(d)
    /\ Loses(d, "lookup")
    /\ current' = current \ {Screen(d)}
    /\ UNCHANGED <<event, house, host, batch, serve, session, sub>>

ChangeResponse(d) ==
    /\ device[d].scr = "receipt"
    /\ device' = [device EXCEPT ![d].scr = "editing", ![d].key = FALSE, ![d].receipt = FALSE,
                                ![d].draft = DraftOf(device[d].seen)]
    /\ UNCHANGED <<event, house, host, batch, serve, session, current, sub>>

(* changeDraft: other answers are another intent, with a key of its own.  *)
ChangeDraft(d) ==
    /\ device[d].scr = "editing"
    /\ \E full \in Answered(device[d].seen) :
         /\ full # device[d].draft
         /\ device' = [device EXCEPT ![d].draft = full, ![d].key = FALSE, ![d].receipt = FALSE]
    /\ UNCHANGED <<event, house, host, batch, serve, session, current, sub>>

-----------------------------------------------------------------------------
(* submit: the version of the page, its key, an answer for everybody.     *)

Submit(d, i) ==
    /\ device[d].scr = "editing" /\ sub[d][i].pc = "none"
    /\ device[d].draft \in Answered(device[d].seen)
    /\ device' = [device EXCEPT ![d].scr = "saving", ![d].key = TRUE]
    /\ sub' = [sub EXCEPT ![d] = [j \in Tries |->
            IF j # i THEN [sub[d][j] EXCEPT !.now = @ /\ device[d].key]
            ELSE [NoTry EXCEPT !.pc = "sent", !.now = TRUE, !.heard = TRUE,
                               !.over = device[d].seen, !.draft = device[d].draft]]]
    /\ current' = (current \ {<<d, i>>})
                      \cup (IF Screen(d) \in current THEN {<<d, i>>} ELSE {})
    /\ UNCHANGED <<event, house, host, batch, serve, session>>

(* The answer is lost: the page keeps the answers and the key.            *)
AnswerLost(d) ==
    /\ device[d].scr = "saving"
    /\ device' = [device EXCEPT ![d].scr = "editing"]
    /\ sub' = [sub EXCEPT ![d] = [i \in Tries |-> [sub[d][i] EXCEPT !.heard = FALSE]]]
    /\ UNCHANGED <<event, house, host, batch, serve, session, current>>

Ends(d, i) == sub' = [sub EXCEPT ![d][i] = NoTry]
Goes(d, i, pc) == sub' = [sub EXCEPT ![d][i].pc = pc]

AnswersInPlace(d, i, error) ==
    /\ Ends(d, i)
    /\ IF ~sub[d][i].heard THEN UNCHANGED <<device, current>>
       ELSE CASE error \in {"conflict", "invalid"} ->
                    device' = [device EXCEPT ![d].scr = "editing"] /\ UNCHANGED current
              [] error = "closed" -> Loses(d, "closed") /\ UNCHANGED current
              [] error = "signed-out" -> Loses(d, "lookup") /\ UNCHANGED current

(* The page on an error (the catch of submit).  A conflict is reloaded in *)
(* the same step as it arrives; a 422 leaves the form as it was.          *)
Answers(d, i, error) ==
    /\ Ends(d, i)
    /\ IF ~sub[d][i].heard THEN UNCHANGED <<device, current>>
       ELSE CASE error = "conflict" -> Reads(d, "reloading")
              [] error = "invalid" ->
                    device' = [device EXCEPT ![d].scr = "editing"] /\ UNCHANGED current
              [] error = "closed" -> Loses(d, "closed") /\ UNCHANGED current
              [] error = "signed-out" -> Loses(d, "lookup") /\ UNCHANGED current

Resolve(d, i) ==
    /\ sub[d][i].pc = "sent"
    /\ IF event.phase = "started" THEN Answers(d, i, "closed")
       ELSE IF ~Authorized(d) THEN Answers(d, i, "signed-out")
       ELSE /\ sub' = [sub EXCEPT ![d][i].pc = "authed", ![d][i].match = <<d, i>> \in current]
            /\ UNCHANGED <<device, current>>
    /\ UNCHANGED <<event, house, host, batch, serve, session>>

(* `now` and `key` say that the request carries the key the page holds.    *)
Settled(d, i) == sub[d][i].now /\ device[d].receipt

Replays(d, i) ==
    IF event.phase = "started" THEN Answers(d, i, "closed")
    ELSE Goes(d, i, "applied") /\ UNCHANGED <<device, current>>

settleReceipt(d, i) ==
    /\ sub[d][i].pc = "authed"
    /\ IF Settled(d, i) THEN Replays(d, i)
       ELSE IF ~sub[d][i].match THEN Answers(d, i, "conflict")
       ELSE Goes(d, i, "settled") /\ UNCHANGED <<device, current>>
    /\ UNCHANGED <<event, house, host, batch, serve, session>>

(* canonicalize: the answers are of exactly the members now listed.       *)
Canonicalize(d, i) ==
    /\ sub[d][i].pc = "settled"
    /\ IF Of(house[Mine(d)].ans) = Of(sub[d][i].draft)
       THEN Goes(d, i, "listed") /\ UNCHANGED <<device, current>>
       ELSE Answers(d, i, "invalid")
    /\ UNCHANGED <<event, house, host, batch, serve, session>>

(* SUBMIT_INVITEES_SQL: everything that could make the write wrong.       *)
AsListed(d, i) == house[Mine(d)].st = "active"

InTime(d) == Editable /\ session[d].live /\ ~session[d].lapsed
AsSeen(d, i) == <<d, i>> \in current /\ house[Mine(d)].st = "active"

Applies(d, i) ==
    LET h == Mine(d)
    IN  /\ house' = [house EXCEPT ![h].responded = TRUE,
                       ![h].ans = [m \in Member |->
                           IF @[m] = "out" THEN "out" ELSE sub[d][i].draft[m]]]
        /\ HostsMove({h}, FALSE)
        /\ batch' = Outdate({h}, FALSE)
        /\ GuestsMove({h})
        /\ Goes(d, i, "applied")
        /\ device' = [device EXCEPT ![d].receipt = @ \/ (sub[d][i].now /\ device[d].key)]

SubmitWrites(d, i) ==
    /\ sub[d][i].pc = "listed"
    /\ IF InTime(d) /\ AsSeen(d, i) /\ ~Settled(d, i)
       THEN Applies(d, i)
       ELSE /\ IF Settled(d, i) THEN Replays(d, i) ELSE Answers(d, i, "conflict")
            /\ UNCHANGED <<house, host, batch>>
    /\ UNCHANGED <<event, serve, session>>

(* currentHouseholdView: the household, then its members.                 *)
ViewHousehold(d, i) ==
    /\ sub[d][i].pc = "applied"
    /\ Goes(d, i, "viewing")
    /\ current' = current \cup {<<d, i>>}
    /\ UNCHANGED <<event, house, host, batch, serve, session, device>>

Confirm(d, i) ==
    /\ sub[d][i].pc = "viewing"
    /\ Ends(d, i)
    /\ IF sub[d][i].heard
       THEN /\ Shows(d, "receipt", house[Mine(d)].ans, NoOne, FALSE, FALSE)
            /\ current' = IF <<d, i>> \in current THEN current \cup {Screen(d)}
                                                  ELSE current \ {Screen(d)}
       ELSE UNCHANGED <<device, current>>
    /\ UNCHANGED <<event, house, host, batch, serve, session>>

Serve(d, i) == \/ Resolve(d, i) \/ settleReceipt(d, i) \/ Canonicalize(d, i)
               \/ SubmitWrites(d, i) \/ ViewHousehold(d, i) \/ Confirm(d, i)

Guest(d) ==
    \/ LookupMatches(d) \/ CreateSession(d) \/ Reload(d) \/ Reread(d) \/ Renew(d)
    \/ ChangeResponse(d) \/ ChangeDraft(d) \/ AnswerLost(d)
    \/ \E i \in Tries : Submit(d, i) \/ Serve(d, i)

GuestNext ==
    \/ RosterNext /\ UNCHANGED guestVars
    \/ \E d \in Devices : Guest(d)

GuestSpec == Init /\ [][GuestNext]_vars

(* A guest finishes the form, sends it, and the Worker and the page go on. *)
Incomplete(d) == device[d].draft \notin Answered(device[d].seen)
Persists(d) == \/ CreateSession(d) \/ Reread(d)
               \/ Incomplete(d) /\ ChangeDraft(d)
               \/ \E i \in Tries : Submit(d, i) \/ Serve(d, i)

-----------------------------------------------------------------------------
(* An answer replaces exactly what its guest was looking at when it was   *)
(* given: never somebody's later answer, a correction, or another list of *)
(* people (householdConflict: they read what is there before replacing    *)
(* it).                                                                    *)
ReplacesWhatWasSeen ==
    \A d \in Devices, i \in Tries :
       sub[d][i].pc = "listed" /\ sub'[d][i].pc = "applied" /\ house' # house
          => house[Mine(d)].ans = sub[d][i].over

(* Once RSVP is paused, due, started or stopped no guest's request changes *)
(* the list, although the route, the session and the clock were checked   *)
(* long before its batch runs (SUBMIT_INVITEES_SQL).                      *)
ClosedIsClosed == ~Editable /\ sub' # sub => house' = house

(* A guest whose answer was applied is not asked to answer again: the     *)
(* same intent is never told that it conflicts.                           *)
NeverAskedTwice ==
    \A d \in Devices :
       device[d].receipt /\ device[d].scr = "saving" => device'[d].scr # "reloading"

(* A guest who sends the form is in the end shown the answer that stands, *)
(* or that answering is over (screenAfterConflict: the form that comes    *)
(* back after a conflict is one the server can accept).                   *)
GuestIsHeard ==
    \A d \in Devices : device[d].scr = "saving" ~>
        device[d].scr \in {"receipt", "read-only", "before-start", "closed", "lookup"}
=============================================================================
