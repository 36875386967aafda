----------------------------- MODULE RsvpRoster -----------------------------
(***************************************************************************)
(* The guest list of one event and the host's side of it                  *)
(* (worker/services/rsvp.ts, worker/db/rsvp.ts): households whose members *)
(* are named guests and plus-one slots, the CSV import, the host's edits, *)
(* the staged batch with its idempotency key, and the settings that open  *)
(* RSVP.  Every host write is decided on reads and lands in one D1 batch  *)
(* guarded by the roster version, and by the version of the household it  *)
(* changes; a guest's answer moves only the latter.                       *)
(*                                                                         *)
(* A version is compared for equality and only grows, so an observer of it*)
(* keeps a Boolean: is the version I hold still the current one?  A host's*)
(* request whose versions moved can only be refused, and is forgotten when *)
(* they do.  A member is its name key (a named guest) or its number (a    *)
(* plus-one slot); what it is called besides is left out.  A host's       *)
(* request changes one member.                                            *)
(***************************************************************************)
EXTENDS FiniteSets, FiniteSetsExt, Integers, Sequences

CONSTANTS Households,   \* the rows the guest list may hold
          Names,        \* normalized names, as their lookup digests
          Slots,        \* plus-one slots a household may have, 1 .. n
          Capacity,     \* people the event may invite
          Hosts,        \* host requests in flight
          Asks,         \* what they ask for, a bound of a run
          Workers,      \* requests serving the one staged batch
          Devices,      \* guest devices
          Scheduled,    \* whether the clock, the schedule and the stop act
          NoHouse

VARIABLES event,        \* the settings and the clock the rules read
          house,        \* rsvp_households with their rsvp_invitees
          host,         \* a host request between its reads and its batch
          batch,        \* the staged batch in the host's browser
          serve,        \* the requests that serve it
          session,      \* rsvp_sessions, one per device
          current       \* guest reads of a household that are still current

rosterVars == <<event, house, host, batch, serve, session, current>>

RosterAssumption ==
    /\ NoHouse \notin Households
    /\ Slots = 1 .. Cardinality(Slots)
    /\ Capacity \in Nat
    /\ Scheduled \in BOOLEAN
    /\ Asks \subseteq {"create", "update", "correct", "archive", "opening", "close"}

Member == Names \cup Slots
Answer == {"out", "pending", "attending", "declined"}
Given == {"attending", "declined"}

(* The household a request is about, as the rows it would leave behind.   *)
NoOne == [m \in Member |-> "out"]
Absent == [st |-> "absent", ans |-> NoOne, responded |-> FALSE]

Of(ans) == {m \in Member : ans[m] # "out"}
NamedOf(ans) == Of(ans) \cap Names
Active(hs) == {h \in Households : hs[h].st = "active"}

-----------------------------------------------------------------------------
(* The rules shared by the import, the edits and the opening of RSVP.     *)

Holders(hs, n) == {h \in Active(hs) : n \in NamedOf(hs[h].ans)}

(* A shared name of a household is told apart by a second one.            *)
findLookupCollisions(hs) ==
    {<<h, n>> \in Active(hs) \X Names :
        /\ n \in NamedOf(hs[h].ans)
        /\ Cardinality(Holders(hs, n)) > 1
        /\ \A e \in NamedOf(hs[h].ans) \ {n} :
              Cardinality(Holders(hs, n) \cap Holders(hs, e)) # 1}

checkHouseholdCapacity(ans) == NamedOf(ans) # {}

Invited(hs) == MapThenSumSet(LAMBDA h : Cardinality(Of(hs[h].ans)), Active(hs))

Admissible(hs) ==
    /\ \A h \in Active(hs) : checkHouseholdCapacity(hs[h].ans)
    /\ Invited(hs) <= Capacity
    /\ findLookupCollisions(hs) = {}

(* Where the guest's side of RSVP stands.                                 *)
Editable == event.phase = "before" /\ event.rsvp /\ event.entry
Unavailable == event.phase = "started" \/ ~event.entry

(* The households an exact name, or two, lead to.                         *)
Candidates(names) ==
    {h \in Active(house) : /\ names \subseteq NamedOf(house[h].ans)
                           /\ Editable \/ house[h].responded}

-----------------------------------------------------------------------------
NoSession == [h |-> NoHouse, live |-> FALSE, lapsed |-> FALSE, synced |-> FALSE]

Edit == [del : SUBSET Member, ins : [Member -> Answer], ren : Seq(Names)]
Same == [del |-> {}, ins |-> NoOne, ren |-> <<>>]

IdleHost == [pc |-> "idle", h |-> NoHouse, edit |-> Same]
NoBatch == [pc |-> "none", make |-> NoHouse, into |-> NoHouse, mine |-> NoOne,
            more |-> Same, fresh |-> FALSE, receipt |-> FALSE, times |-> 0]
IdleServe == [pc |-> "idle", heard |-> FALSE]

HostPc == {"idle", "create", "update", "correct", "archive", "opening", "open", "close"}
BatchPc == {"none", "sent", "unsure", "saved", "refused"}
ServePc == {"idle", "arrived", "settled", "ready"}

RosterTypeOK ==
    /\ event \in [rsvp : BOOLEAN, entry : BOOLEAN, phase : {"before", "due", "started"}]
    /\ house \in [Households -> [st : {"absent", "active", "archived"},
                                 ans : [Member -> Answer], responded : BOOLEAN]]
    /\ \A k \in Hosts :
          /\ host[k].pc \in HostPc /\ host[k].h \in Households \cup {NoHouse}
          /\ host[k].edit \in Edit
    /\ batch.pc \in BatchPc /\ batch.times \in 0 .. 2
    /\ current \subseteq Devices \X (0 .. 2)
    /\ {batch.make, batch.into} \subseteq Households \cup {NoHouse}
    /\ serve \in [Workers -> [pc : ServePc, heard : BOOLEAN]]
    /\ session \in [Devices -> [h : Households \cup {NoHouse}, live : BOOLEAN,
                                lapsed : BOOLEAN, synced : BOOLEAN]]

RosterInit ==
    /\ event = [rsvp |-> FALSE, entry |-> TRUE, phase |-> "before"]
    /\ house = [h \in Households |-> Absent]
    /\ host = [k \in Hosts |-> IdleHost]
    /\ batch = NoBatch
    /\ serve = [w \in Workers |-> IdleServe]
    /\ session = [d \in Devices |-> NoSession]
    /\ current = {}

-----------------------------------------------------------------------------
(* What a committed write does to those who hold versions: a host's moves *)
(* the roster's, and any moves its household's.                           *)

ForgetUnlessHousehold(k, hs, roster) == IF host[k].h \in hs THEN IdleHost ELSE host[k]

Forget(k, hs, roster) ==
    IF roster \/ host[k].h \in hs THEN IdleHost ELSE host[k]

HostsMove(hs, roster) == host' = [k \in Hosts |-> Forget(k, hs, roster)]

Outdate(hs, roster) == [batch EXCEPT !.fresh = @ /\ ~roster /\ batch.into \notin hs]

(* The screen <<d, 0>> and the requests <<d, 1>> and <<d, 2>> of a device. *)
GuestsMove(hs) == current' = {o \in current : session[o[1]].h \notin hs}

Revoke(hs) ==
    session' = [d \in Devices |->
        IF session[d].h \in hs THEN [session[d] EXCEPT !.live = FALSE] ELSE session[d]]

(* The change a request carries, laid over the rows it finds.             *)
Edited(ans, e) ==
    [m \in Member |-> IF e.ins[m] # "out" THEN e.ins[m]
                      ELSE IF m \in e.del THEN "out"
                      ELSE IF e.ren # <<>> /\ m = e.ren[2] THEN ans[e.ren[1]]
                      ELSE IF e.ren # <<>> /\ m = e.ren[1] THEN "out"
                      ELSE ans[m]]

With(h, ans) == [house EXCEPT ![h].st = "active", ![h].ans = ans]

Forming(names, n) == [m \in Member |-> IF m \in names \/ (m \in Slots /\ m <= n)
                                       THEN "pending" ELSE "out"]

(* commitInitialImport: a file is read whole, on an event without a list. *)
Import ==
    /\ ~event.rsvp
    /\ \A h \in Households : house[h].st = "absent"
    /\ \E f \in [Households -> SUBSET Names], n \in Slots \cup {0} :
         LET hs == [h \in Households |-> IF f[h] = {} THEN Absent
                     ELSE [st |-> "active", ans |-> Forming(f[h], n), responded |-> FALSE]]
         IN  /\ Active(hs) # {}
             /\ Admissible(hs)
             /\ house' = hs
    /\ HostsMove({}, TRUE)
    /\ batch' = Outdate({}, TRUE)
    /\ UNCHANGED <<event, serve, session, current>>

-----------------------------------------------------------------------------
(* A host request reads, decides, and holds what it will write.           *)

Holds(k, op, h, e) ==
    /\ host[k].pc = "idle" /\ op \in Asks
    /\ host' = [host EXCEPT ![k] = [pc |-> op, h |-> h, edit |-> e]]
    /\ UNCHANGED <<event, house, batch, serve, session, current>>

CreateReads(k) ==
    \E h \in Households, names \in SUBSET Names, n \in Slots \cup {0} :
       /\ house[h].st = "absent"
       /\ Admissible(With(h, Forming(names, n)))
       /\ Holds(k, "create", h, [Same EXCEPT !.ins = Forming(names, n)])

Count(ans) == Cardinality(Of(ans) \cap Slots)
NextSlot(ans) == {s \in Slots : s = Count(ans) + 1}
LastSlot(ans) == {s \in Slots : s = Count(ans)}

(* Additions come with an answer once the household has given its own.    *)
Additions(h) ==
    LET ans == house[h].ans
        given == IF house[h].responded THEN Given ELSE {"pending"}
    IN  {[Same EXCEPT !.ins = [NoOne EXCEPT ![m] = a]] :
            m \in (Names \ Of(ans)) \cup NextSlot(ans), a \in given}

(* The highest slot goes unless somebody comes in it; a named guest goes  *)
(* only before the household answers; a name may be corrected.            *)
Removals(h) ==
    LET ans == house[h].ans
    IN  {[Same EXCEPT !.del = {m}] :
            m \in {s \in LastSlot(ans) : ans[s] # "attending"}
                  \cup (IF house[h].responded THEN {} ELSE NamedOf(ans))}

Renames(h) ==
    {[Same EXCEPT !.ren = <<m, n>>] :
        m \in NamedOf(house[h].ans), n \in Names \ Of(house[h].ans)}

UpdateReads(k) ==
    \E h \in Active(house) : \E e \in Additions(h) \cup Removals(h) \cup Renames(h) :
       /\ Admissible(With(h, Edited(house[h].ans, e)))
       /\ Holds(k, "update", h, e)

Answered(ans) == {full \in [Member -> Answer] :
    \A m \in Member : IF ans[m] = "out" THEN full[m] = "out" ELSE full[m] \in Given}

CorrectReads(k) ==
    \E h \in Active(house) : \E full \in Answered(house[h].ans) :
        Holds(k, "correct", h, [Same EXCEPT !.ins = full])

ArchiveReads(k) == \E h \in Active(house) : Holds(k, "archive", h, Same)

(* ADVANCE_ROSTER_SQL and the household's own version, in one batch.      *)
Writes(k, hs) ==
    /\ house' = hs
    /\ HostsMove({host[k].h}, TRUE)
    /\ batch' = Outdate({host[k].h}, TRUE)
    /\ GuestsMove({host[k].h})

CreateWrites(k) ==
    /\ host[k].pc = "create"
    /\ house[host[k].h].st = "absent"
    /\ Writes(k, With(host[k].h, host[k].edit.ins))
    /\ UNCHANGED <<event, serve, session>>

UpdateWrites(k) ==
    /\ host[k].pc = "update"
    /\ LET h == host[k].h
       IN  Writes(k, [house EXCEPT ![h].ans = Edited(@, host[k].edit)])
    /\ UNCHANGED <<event, serve, session>>

CorrectWrites(k) ==
    /\ host[k].pc = "correct"
    /\ Writes(k, [house EXCEPT ![host[k].h].ans = host[k].edit.ins,
                               ![host[k].h].responded = TRUE])
    /\ UNCHANGED <<event, serve, session>>

ArchiveWrites(k) ==
    /\ host[k].pc = "archive"
    /\ Writes(k, [house EXCEPT ![host[k].h].st = "archived"])
    /\ Revoke({host[k].h})
    /\ UNCHANGED <<event, serve>>

-----------------------------------------------------------------------------
(* The settings page: the roster version is read before the roster.       *)

OpeningReads(k) ==
    /\ event.entry
    /\ Holds(k, "opening", NoHouse, Same)

assertRosterCanOpen(k) ==
    /\ host[k].pc = "opening"
    /\ host' = [host EXCEPT ![k] = IF Active(house) # {} /\ Admissible(house)
                                   THEN [@ EXCEPT !.pc = "open"] ELSE IdleHost]
    /\ UNCHANGED <<event, house, batch, serve, session, current>>

ClosingReads(k) == Holds(k, "close", NoHouse, Same)

(* The instants are written with the switch; a moved deadline parts the   *)
(* event from the windows its sessions captured.                          *)
Settles(k, on) ==
    /\ \/ event' = [event EXCEPT !.rsvp = on] /\ UNCHANGED session
       \/ /\ Scheduled
          /\ \E p \in {"before", "due", "started"} :
                event' = [event EXCEPT !.rsvp = on, !.phase = p]
          /\ session' = [d \in Devices |-> [session[d] EXCEPT !.synced = FALSE]]
    /\ host' = [host EXCEPT ![k] = IdleHost]
    /\ UNCHANGED <<house, batch, serve, current>>

updateSettings(k) ==
    /\ host[k].pc \in {"open", "close"}
    /\ host[k].pc = "open" => event.entry
    /\ Settles(k, host[k].pc = "open")

(* EventEntryService.disable: the irreversible stop.                      *)
DisableEntry ==
    /\ event.entry
    /\ event' = [event EXCEPT !.entry = FALSE, !.rsvp = FALSE]
    /\ Revoke(Households)
    /\ UNCHANGED <<house, host, batch, serve, current>>

(* An opening decided before the stop is refused by its own statement.    *)
OpenRefused(k) ==
    /\ host[k].pc = "open" /\ ~event.entry
    /\ host' = [host EXCEPT ![k] = IdleHost]
    /\ UNCHANGED <<event, house, batch, serve, session, current>>

(* Time: the deadline, then the start.  A session's captured window ends  *)
(* with the deadline it was copied from.                                  *)
Deadline ==
    /\ event.phase = "before"
    /\ event' = [event EXCEPT !.phase = "due"]
    /\ session' = [d \in Devices |-> [session[d] EXCEPT !.lapsed = @ \/ session[d].synced]]
    /\ UNCHANGED <<house, host, batch, serve, current>>

WindowEnds(d) ==
    /\ session[d].h # NoHouse /\ ~session[d].synced /\ ~session[d].lapsed
    /\ session' = [session EXCEPT ![d].lapsed = TRUE]
    /\ UNCHANGED <<event, house, host, batch, serve, current>>

Starts ==
    /\ event.phase = "due"
    /\ event' = [event EXCEPT !.phase = "started"]
    /\ UNCHANGED <<house, host, batch, serve, session, current>>

-----------------------------------------------------------------------------
(* The staged batch: one new household, one addition to another, one key. *)

Staged(hs, make, mine, into, more) ==
    LET made == IF make = NoHouse THEN hs
                ELSE [hs EXCEPT ![make].st = "active", ![make].ans = mine]
    IN  IF into = NoHouse THEN made
        ELSE [made EXCEPT ![into].ans = Edited(@, more)]

(* previewRosterBatch, and the first request that commits what it showed. *)
Send(w) ==
    /\ batch.pc = "none" /\ serve[w].pc = "idle"
    /\ \E make \in {h \in Households : house[h].st = "absent"} \cup {NoHouse},
          into \in Active(house) \cup {NoHouse}, names \in SUBSET Names :
       \E more \in IF into = NoHouse THEN {Same} ELSE Additions(into) :
         LET mine == IF make = NoHouse THEN NoOne ELSE Forming(names, 0)
         IN  /\ make # into
             /\ Admissible(Staged(house, make, mine, into, more))
             /\ batch' = [NoBatch EXCEPT !.pc = "sent", !.make = make, !.mine = mine,
                                         !.into = into, !.more = more, !.fresh = TRUE]
    /\ serve' = [serve EXCEPT ![w] = [pc |-> "arrived", heard |-> TRUE]]
    /\ UNCHANGED <<event, house, host, session, current>>

(* The answer is lost: the browser keeps the key and the digest.          *)
ReplyLost ==
    /\ batch.pc = "sent"
    /\ batch' = [batch EXCEPT !.pc = "unsure"]
    /\ serve' = [w \in Workers |-> [serve[w] EXCEPT !.heard = FALSE]]
    /\ UNCHANGED <<event, house, host, session, current>>

Resend(w) ==
    /\ batch.pc = "unsure" /\ serve[w].pc = "idle"
    /\ batch' = [batch EXCEPT !.pc = "sent"]
    /\ serve' = [serve EXCEPT ![w] = [pc |-> "arrived", heard |-> TRUE]]
    /\ UNCHANGED <<event, house, host, session, current>>

Replies(w, with) ==
    /\ serve' = [serve EXCEPT ![w] = IdleServe]
    /\ batch' = [batch EXCEPT !.pc = IF serve[w].heard THEN with ELSE @]

settleRosterBatchReceipt(w) ==
    /\ serve[w].pc = "arrived"
    /\ IF batch.receipt
       THEN Replies(w, "saved")
       ELSE serve' = [serve EXCEPT ![w].pc = "settled"] /\ UNCHANGED batch
    /\ UNCHANGED <<event, house, host, session, current>>

(* The roster version is compared, then the batch evaluated again.        *)
evaluateRosterBatch(w) ==
    /\ serve[w].pc = "settled"
    /\ IF batch.fresh
       THEN serve' = [serve EXCEPT ![w].pc = "ready"] /\ UNCHANGED batch
       ELSE Replies(w, "refused")
    /\ UNCHANGED <<event, house, host, session, current>>

BatchLands == batch.fresh /\ ~batch.receipt

commitRosterBatch(w) ==
    /\ serve[w].pc = "ready"
    /\ IF BatchLands
       THEN /\ house' = Staged(house, batch.make, batch.mine, batch.into, batch.more)
            /\ HostsMove({batch.into}, TRUE)
            /\ GuestsMove({batch.into})
            /\ batch' = [batch EXCEPT !.fresh = FALSE, !.receipt = TRUE, !.times = @ + 1,
                                      !.pc = IF serve[w].heard THEN "saved" ELSE @]
            /\ serve' = [serve EXCEPT ![w] = IdleServe]
       ELSE /\ Replies(w, IF batch.receipt THEN "saved" ELSE "refused")
            /\ UNCHANGED <<house, host, current>>
    /\ UNCHANGED <<event, session>>

(* The host goes on: a new preview, a new key.  Old requests still run;   *)
(* the bound is that they have ended.                                     *)
NextBatch ==
    /\ batch.pc \in {"saved", "refused"}
    /\ \A w \in Workers : serve[w].pc = "idle"
    /\ batch' = NoBatch
    /\ UNCHANGED <<event, house, host, serve, session, current>>

Request(k) == CreateReads(k) \/ UpdateReads(k) \/ CorrectReads(k) \/ ArchiveReads(k)
Write(k) == CreateWrites(k) \/ UpdateWrites(k) \/ CorrectWrites(k) \/ ArchiveWrites(k)
Settings(k) == OpeningReads(k) \/ ClosingReads(k) \/ assertRosterCanOpen(k)
               \/ updateSettings(k) \/ OpenRefused(k)
BatchStep(w) == \/ Send(w) \/ Resend(w) \/ settleRosterBatchReceipt(w)
                \/ evaluateRosterBatch(w) \/ commitRosterBatch(w)

Clock == DisableEntry \/ Deadline \/ Starts \/ \E d \in Devices : WindowEnds(d)

RosterNext ==
    \/ Import \/ ReplyLost \/ NextBatch
    \/ \E k \in Hosts : Request(k) \/ Write(k) \/ Settings(k)
    \/ \E w \in Workers : BatchStep(w)
    \/ Scheduled /\ Clock

Spec == RosterInit /\ [][RosterNext]_rosterVars

-----------------------------------------------------------------------------
(* Every household on the list can be opened by a guest who types one of  *)
(* its names, and a second when asked: whatever hosts, imports and batches *)
(* race, no two lists that were each checked combine into one that hides  *)
(* a household (assertProspectiveRoster, findLookupCollisions, lookup).   *)
RosterReachable ==
    \A h \in Active(house) :
       /\ NamedOf(house[h].ans) # {}
       /\ \A n \in NamedOf(house[h].ans) :
            \E e \in NamedOf(house[h].ans) : Holders(house, n) \cap Holders(house, e) = {h}

(* Nobody raced past the number of people the event may invite            *)
(* (checkRosterCapacity, on compositions read before the batch).          *)
WithinCapacity == Invited(house) <= Capacity

(* A household that answered has an answer of every member: members added *)
(* afterwards come with one (updateManagerHousehold, evaluateRosterBatch). *)
RespondedComplete ==
    \A h \in Households :
       house[h].responded => \A m \in Member : house[h].ans[m] # "pending"

(* A host's edit of the list never drops someone who is coming, even one  *)
(* whose answer arrived after the host's page and reads: only an answer   *)
(* for the whole household changes who comes (updateManagerHousehold).    *)
Coming(h) == Cardinality({m \in Member : house[h].ans[m] = "attending"})
AttendingKept ==
    \A k \in Hosts, h \in Households :
       /\ host[k].pc = "update" /\ host[k].h = h
       /\ house' = [house EXCEPT ![h].ans = Edited(@, host[k].edit)]
       => Coming(h)' >= Coming(h)

(* RSVP opens on a list somebody can answer, although the list is checked *)
(* in other statements than the one that opens (assertRosterCanOpen).     *)
OpensOnAList == ~event.rsvp /\ event'.rsvp => Active(house) # {}

(* One key, one save: a staged batch is applied at most once however often *)
(* its lost answer makes the browser send it again (commitRosterBatch).   *)
BatchOnce == batch.times <= 1
=============================================================================
