---------------------------- MODULE UploadSession ----------------------------
(***************************************************************************)
(* Photographs sent from a page: a guest's, or the host's dialog, which    *)
(* does not let go before what it reserved is settled.  A photograph is    *)
(* its upload key.  Of the server there is what the page can tell: whether *)
(* a key has a row, how far its transfer is, whose bytes it has.           *)
(*                                                                         *)
(* A request is served and answered at once, or it fails: then, as when    *)
(* the page gives up waiting, it is `late` and may be served any time, or  *)
(* never.  An answer under way while the rows move on is one that arrived  *)
(* before.  An error after which the page asks again is a request not yet  *)
(* answered.  Aborting ends every request of a run at once.                *)
(***************************************************************************)
EXTENDS Naturals, FiniteSets

CONSTANTS
    Photos,            \* upload keys (crypto.randomUUID)
    Resumable,         \* those of files sent in parts, here one
    Chunk, Workers,    \* UPLOAD_BATCH_SIZE, concurrency
    Manager,           \* whether this is the host's dialog
    Luck               \* bound on what goes wrong or is lost

VARIABLES
    server,            \* per key: the row, its transfer, whose bytes: the file the key
                       \* was made for ("own") or another of its name, size and type
    allowed,           \* the session may use the event
    late,              \* requests nobody waits for
    hints,             \* per resumable key: what sessionStorage keeps of it
    items, ledger,     \* the queue shown, and what cleaning up goes by
    run,               \* runUploadQueue: photographs to reserve, asked for, and ready
    call,              \* the request of the worker that has a photograph
    phase, cleaning,   \* of the host's dialog
    luck, past         \* the bound, and what happened, for the properties

sessionVars == <<items, ledger, run, call, phase, cleaning>>
uploadVars == <<server, allowed, late, hints, sessionVars, luck, past>>

InFlight == {"reserving", "queued", "uploading", "finalizing"}
Shown == {p \in Photos : items[p].state # "none"}

NoItem == [state |-> "none", stage |-> "upload", res |-> FALSE, denied |-> FALSE, file |-> "own"]
NoRun == [on |-> FALSE, todo |-> {}, chunk |-> {}, ready |-> {}]
NoCall == [op |-> "none", stage |-> "upload", seen |-> {}, then |-> "none"]
Clean == [at |-> "no", of |-> {}, todo |-> {}, unresolved |-> {}]

Init ==
    /\ server = [p \in Photos |-> [row |-> "absent", transfer |-> "none", by |-> {}]]
    /\ allowed = TRUE /\ late = {} /\ hints = [p \in Resumable |-> "no"]
    /\ items = [p \in Photos |-> NoItem] /\ ledger = [p \in Photos |-> "none"]
    /\ run = NoRun /\ call = [p \in Photos |-> NoCall]
    /\ phase = "selecting" /\ cleaning = Clean
    /\ luck = Luck
    /\ past = [chosen |-> {}, asked |-> {}, refused |-> {}, forgotten |-> {}]

-----------------------------------------------------------------------------
(* The server: what each request may do to a key, and its answer.          *)

Serves(s, answer) == [to |-> s, says |-> answer]
Active == {"receiving", "processing", "retryable"}
Stored(s) == s.row = "stored"

\* A place may be refused (capacity, format), and so may another look at a
\* reservation whose photograph is being secured.
Reserve(p) ==
    LET s == server[p]
        new == [s EXCEPT !.row = "reserved",
                         !.transfer = IF p \in Resumable THEN "receiving" ELSE @]
    IN  IF ~allowed THEN {Serves(s, "denied")}
        ELSE IF s.transfer # "none"
        THEN {Serves(s, CASE s.transfer = "lapsed" -> "refused"
                          [] s.transfer = "delivered" /\ Stored(s) -> "done"
                          [] OTHER -> "accepted")}
        ELSE CASE s.row \in {"absent", "failed", "reserved"} ->
                    {Serves(new, "accepted"), Serves(s, "refused")}
               [] Stored(s) -> {Serves(s, "delivered")}
               [] OTHER -> {Serves(s, IF Manager THEN "canceled" ELSE "refused")}

\* The state of a transfer; "done" with its photograph stored.
Status(p) ==
    LET s == server[p] IN
    {Serves(s, CASE ~allowed -> "denied"
                 [] allowed /\ s.transfer = "lapsed" -> "error"
                 [] allowed /\ s.transfer = "delivered" -> IF Stored(s) THEN "done" ELSE "gone"
                 [] OTHER -> s.transfer)}

Put(p, file) ==
    LET s == server[p] IN
    CASE ~allowed -> {Serves(s, "denied")}
      [] allowed /\ Stored(s) -> {Serves(s, "ok")}
      [] allowed /\ s.row = "reserved" ->
           {Serves([s EXCEPT !.row = "stored", !.by = {file}], "ok"), Serves(s, "error")}
      [] OTHER -> {Serves(s, "error")}

Finalize(p) ==
    LET s == server[p] IN
    {Serves(s, IF ~allowed THEN "denied" ELSE IF Stored(s) THEN "ok" ELSE "again")}

\* The selected file has to prove the parts that were accepted.
VerifyReselection(p, file, seen) ==
    LET s == server[p]
        proved == /\ s.transfer \in Active \cup {"delivered"}
                  /\ s.row \in {"reserved", "stored"}
                  /\ s.by = seen /\ seen \subseteq {file}
    IN  {Serves(s, IF ~allowed THEN "denied" ELSE IF proved THEN "ok" ELSE "error")}

PutPart(p, file) ==
    LET s == server[p] IN
    CASE ~allowed -> {Serves(s, "denied")}
      [] /\ allowed /\ s.row = "reserved" /\ s.transfer = "receiving"
         /\ s.by \subseteq {file} -> {Serves([s EXCEPT !.by = {file}], "ok")}
      [] OTHER -> {Serves(s, "error")}

Complete(p) ==
    LET s == server[p]
        claimed == [s EXCEPT !.transfer = IF @ = "receiving" THEN "processing" ELSE @]
    IN  {CASE ~allowed -> Serves(s, "denied")
           [] allowed /\ s.transfer = "delivered" /\ Stored(s) -> Serves(s, "done")
           [] allowed /\ s.row = "reserved" /\ s.by # {} /\ s.transfer \in Active ->
                Serves(claimed, claimed.transfer)
           [] OTHER -> Serves(s, "error")}

CancelReservation(p) ==
    LET s == server[p]
        canceled == [s EXCEPT !.row = "canceled",
                              !.transfer = IF @ \in Active \cup {"lapsed"} THEN "ended" ELSE @]
    IN  {CASE ~allowed -> Serves(s, "denied")
           [] allowed /\ s.row \in {"reserved", "failed"} -> Serves(canceled, "ok")
           [] allowed /\ s.row = "canceled" -> Serves(s, "ok")
           [] OTHER -> Serves(s, "error")}

Served(op, p, file, seen) ==
    CASE op = "reserve" -> Reserve(p)
      [] op = "put" -> Put(p, file)
      [] op = "finalize" -> Finalize(p)
      [] op \in {"status", "poll"} -> Status(p)
      [] op = "verify" -> VerifyReselection(p, file, seen)
      [] op = "part" -> PutPart(p, file)
      [] op = "complete" -> Complete(p)
      [] op = "cancel" -> CancelReservation(p)

Unlucky == luck > 0 /\ luck' = luck - 1
Request(op, p) == [op |-> op, p |-> p, file |-> items[p].file]
\* Those that read may as well not be served.
Abandoned(requests) ==
    {r \in requests : r.op \in {"reserve", "put", "part", "complete", "cancel"}}

ServedLate ==
    /\ \E r \in late :
          \E served \in Served(r.op, r.p, r.file, {}) :
             /\ server' = [server EXCEPT ![r.p] = served.to]
             /\ late' = late \ {r}
    /\ UNCHANGED <<allowed, hints, sessionVars, luck, past>>

\* The completion of a transfer, and the sweep of what has expired.
TransferMoves(p) ==
    /\ \E to \in {"delivered", "retryable", "rejected", "processing", "ended"} :
          /\ \/ server[p].transfer \in {"processing", "retryable"} \ {to} /\ to # "ended"
             \/ server[p].transfer = "lapsed" /\ to = "ended"
          /\ server' = [server EXCEPT
                ![p].transfer = to,
                ![p].row = CASE to = "delivered" -> "stored"
                             [] to \in {"rejected", "ended"} -> "failed" [] OTHER -> @]
    /\ UNCHANGED <<allowed, late, hints, sessionVars, luck, past>>

\* Time passes, another host removes a photograph, the session ends.
EventMoves ==
    /\ Unlucky
    /\ \/ \E p \in Photos :
            /\ \/ /\ server[p].transfer \in Active
                  /\ server' = [server EXCEPT ![p].transfer = "lapsed"]
               \/ /\ server[p].row = "reserved" /\ p \notin Resumable
                  /\ server' = [server EXCEPT ![p].row = "failed"]
               \/ Stored(server[p]) /\ server' = [server EXCEPT ![p].row = "removed"]
            /\ UNCHANGED allowed
       \/ allowed /\ allowed' = FALSE /\ UNCHANGED server
    /\ UNCHANGED <<late, hints, sessionVars, past>>

-----------------------------------------------------------------------------
(* What the page keeps.                                                    *)

Unresolved(l) == {p \in Photos : l[p] \in {"ambiguous", "reserved"}}
\* Whether the receipt is shown.
Received(its) ==
    LET sent == {p \in Photos : its[p].state \notin {"none", "invalid"}}
    IN  sent # {} /\ \A p \in sent : its[p].state = "delivered"

\* rememberUploads
Remembered(its) ==
    [p \in Resumable |->
        CASE its[p].state = "delivered" -> "no"
          [] its[p].state \in {"none", "invalid"} -> hints[p]
          [] its[p].state = "selected" /\ hints[p] = "no" -> "no"
          [] OTHER -> IF its[p].res THEN "transfer" ELSE "key"]

\* syncCleanupSnapshot
Synced(its, l) ==
    [p \in Photos |->
        CASE its[p].state = "none" \/ ~Manager -> l[p]
          [] Manager /\ its[p].state = "invalid" -> "known-absent"
          [] Manager /\ its[p].state = "delivered" -> "delivered"
          [] Manager /\ its[p].state \notin {"none", "invalid", "delivered"} /\ its[p].res -> "reserved"
          [] /\ Manager /\ its[p].state = "reserving" /\ ~its[p].res
             /\ l[p] \notin {"known-absent", "canceled", "delivered", "reserved"} -> "ambiguous"
          [] OTHER -> l[p]]

\* What a run waits for.
UnderWay(r, c) ==
    {Request("reserve", p) : p \in {q \in r.chunk : ~(items[q].res /\ q \in Resumable)}}
    \cup {Request(c[p].op, p) : p \in Photos}

EndsRun(r, c) ==
    /\ run' = NoRun /\ call' = [p \in Photos |-> NoCall]
    /\ late' = late \cup Abandoned(UnderWay(r, c))

\* The host's dialog settles what was reserved, unless a request was denied: then
\* nothing can be settled any more.
SettleCleanup(its, l) ==
    IF \E p \in Photos : its[p].denied
    THEN phase' = "terminal" /\ cleaning' = Clean
    ELSE /\ phase' = "cleanup"
         /\ cleaning' = [at |-> "next", of |-> {}, todo |-> Unresolved(l), unresolved |-> Unresolved(l)]

\* A run shows where it is; a denial ends the host's session.
Goes(its, l, r, c) ==
    /\ items' = its /\ hints' = Remembered(its) /\ ledger' = Synced(its, l)
    /\ IF \E p \in Photos : its[p].denied
       THEN EndsRun(r, c) /\ SettleCleanup(its, ledger')
       ELSE run' = r /\ call' = c /\ UNCHANGED <<late, phase, cleaning>>

Chunks(todo) ==
    {c \in SUBSET todo : Cardinality(c) = IF Cardinality(todo) < Chunk THEN Cardinality(todo) ELSE Chunk}

\* The next photographs to be reserved, in the order of the list, which is left out.
Asks(its, l, r, told) ==
    \E chunk \in Chunks(r.todo) :
       LET asked == [p \in Photos |->
             IF p \in chunk
             THEN [its[p] EXCEPT !.state = "reserving", !.stage = "upload"] ELSE its[p]]
       IN  /\ items' = asked /\ hints' = Remembered(asked)
           /\ ledger' = [p \in Photos |->
                 IF Manager /\ p \in chunk THEN "ambiguous" ELSE Synced(asked, l)[p]]
           /\ run' = [r EXCEPT !.todo = @ \ chunk, !.chunk = chunk]
           /\ past' = [told EXCEPT !.asked = @ \cup chunk, !.refused = @ \ chunk]

-----------------------------------------------------------------------------
(* The host or guest at the page.                                          *)

Busy == phase \in {"sending", "needs-attention", "cleanup", "cleanup-retry"}
ShowsFlow == phase \notin {"cleanup", "cleanup-retry", "terminal"} /\ ~Received(items)

\* Several at once.  A file that fits a hint gets the hint's key, though it may be
\* another file than the one the key was made for.
AdoptFiles(chosen, invalid, others) ==
    /\ ShowsFlow /\ ~run.on /\ ~Busy
    /\ chosen # {} /\ chosen \cap Shown = {}
    /\ LET resumed == {p \in chosen \cap Resumable : hints[p] # "no"}
           item == [p \in Photos |->
             [NoItem EXCEPT !.state = IF p \in invalid THEN "invalid" ELSE "selected",
                            !.file = IF p \in others THEN "other" ELSE "own",
                            !.res = p \in resumed /\ hints[p] = "transfer"]]
       IN  /\ (chosen \ resumed) \cap past.chosen = {}
           /\ invalid \subseteq chosen \ resumed /\ others \subseteq resumed
           /\ items' = [p \in Photos |-> IF p \in chosen THEN item[p] ELSE items[p]]
           /\ hints' = Remembered(items')
           /\ ledger' = [p \in Photos |->
                 CASE p \notin chosen \/ ~Manager -> ledger[p]
                   [] Manager /\ p \in invalid -> "known-absent"
                   [] Manager /\ p \in chosen /\ item[p].res -> "reserved"
                   [] Manager /\ p \in resumed /\ ~item[p].res -> "ambiguous"
                   [] OTHER -> "unattempted"]
           /\ phase' = IF Manager /\ resumed # {} THEN "needs-attention" ELSE phase
           /\ past' = [past EXCEPT !.chosen = @ \cup chosen, !.asked = @ \cup resumed]
    /\ UNCHANGED <<server, allowed, late, run, call, cleaning, luck>>

Remove(p) ==
    /\ ShowsFlow /\ ~run.on
    /\ items[p].state \in {"selected", "failed", "invalid"}
    /\ Manager => ledger[p] \in {"unattempted", "known-absent"}
    /\ items' = [items EXCEPT ![p] = NoItem]
    /\ hints' = [q \in Resumable |-> IF q = p THEN "no" ELSE Remembered(items')[q]]
    /\ ledger' = [ledger EXCEPT ![p] = "none"]
    /\ phase' = IF Manager /\ Received(items') THEN "receipt" ELSE phase
    /\ past' = [past EXCEPT !.forgotten = @ \cup {p}]
    /\ UNCHANGED <<server, allowed, late, run, call, cleaning, luck>>

Send ==
    /\ ShowsFlow /\ ~run.on
    /\ LET again == {p \in Photos : items[p].state = "failed" /\ items[p].stage = "finalize"}
           todo == {p \in Photos : items[p].state \in {"selected", "failed"}} \ again
       IN  /\ todo \cup again # {}
           /\ Asks(items, ledger, [on |-> TRUE, todo |-> todo, chunk |-> {}, ready |-> again], past)
    /\ phase' = IF Manager THEN "sending" ELSE phase
    /\ UNCHANGED <<server, allowed, late, call, cleaning, luck>>

\* The host's dialog cleans up; a guest's page only stops.
Cancel ==
    /\ run.on \/ phase = "needs-attention"
    /\ EndsRun(run, call)
    /\ IF Manager
       THEN /\ Unresolved(ledger) # {}
            /\ SettleCleanup(items, ledger)
            /\ UNCHANGED <<items, hints, ledger>>
       ELSE /\ items' = [p \in Photos |->
                 IF items[p].state \in InFlight
                 THEN [items[p] EXCEPT !.state = "failed", !.stage = "upload"] ELSE items[p]]
            /\ hints' = Remembered(items')
            /\ UNCHANGED <<ledger, phase, cleaning>>
    /\ UNCHANGED <<server, allowed, luck, past>>

CleaningRequest(p) ==
    Request(CASE cleaning.at \in {"cancel", "cancel2"} -> "cancel"
              [] items[p].res /\ p \in Resumable -> "status" [] OTHER -> "reserve", p)

StartsOver ==
    /\ items' = [p \in Photos |-> NoItem] /\ ledger' = [p \in Photos |-> "none"]
    /\ run' = NoRun /\ call' = [p \in Photos |-> NoCall]
    /\ phase' = "selecting" /\ cleaning' = Clean

\* The page is left, or reloaded, in whatever it does.
Leave ==
    /\ Unlucky
    /\ StartsOver
    /\ late' = late \cup Abandoned(UnderWay(run, call) \cup {CleaningRequest(p) : p \in cleaning.of})
    /\ past' = [past EXCEPT !.asked = {}, !.refused = {}]
    /\ UNCHANGED <<server, allowed, hints>>

\* The dialog is closed, and forgets what it shows.
DiscardSelection ==
    /\ Manager /\ ~Busy /\ Shown # {}
    /\ StartsOver
    /\ hints' = [p \in Resumable |-> IF p \in Shown THEN "no" ELSE hints[p]]
    /\ past' = [past EXCEPT !.asked = {}, !.refused = {}, !.forgotten = @ \cup Shown]
    /\ UNCHANGED <<server, allowed, late, luck>>

-----------------------------------------------------------------------------
(* A run: reservations first, then workers.                                *)

\* What the transport says of a photograph: its transfer is looked at when it has
\* one, the others are asked for in one batch.
ToReserve(p) ==
    IF items[p].res /\ p \in Resumable
    THEN {[served EXCEPT !.says = IF @ \in {"done", "denied", "error"} THEN @ ELSE "accepted"] :
            served \in Status(p)}
    ELSE Reserve(p)

Admitted(p, says) ==
    CASE says \in {"accepted", "done"} -> [items[p] EXCEPT !.state = "queued", !.res = TRUE]
      [] says = "delivered" -> [items[p] EXCEPT !.state = "delivered", !.res = FALSE]
      [] says = "canceled" -> NoItem
      [] says = "refused" -> [items[p] EXCEPT !.state = "failed", !.res = FALSE]

\* applyReservationResult
Disposition(says) ==
    CASE says \in {"accepted", "done"} -> "reserved"
      [] says = "delivered" -> "delivered"
      [] says = "canceled" -> "canceled"
      [] says = "refused" -> "known-absent"

\* Nothing comes of the chunk, and no other is asked for.
ChunkFails(denied) ==
    Goes([p \in Photos |->
            IF p \in run.chunk
            THEN [items[p] EXCEPT !.state = "failed", !.denied = Manager /\ denied] ELSE items[p]],
         ledger, [run EXCEPT !.chunk = {}, !.todo = {}], call)

Reserved ==
    /\ run.chunk # {}
    /\ \E of \in [run.chunk -> UNION {ToReserve(p) : p \in run.chunk}] :
          /\ \A p \in run.chunk : of[p] \in ToReserve(p)
          /\ server' = [p \in Photos |-> IF p \in run.chunk THEN of[p].to ELSE server[p]]
          /\ LET says == {of[p].says : p \in run.chunk} IN
             IF says \cap {"denied", "error"} # {}
             THEN ChunkFails("denied" \in says) /\ UNCHANGED past
             ELSE LET its == [p \in Photos |->
                            IF p \in run.chunk THEN Admitted(p, of[p].says) ELSE items[p]]
                      l == [p \in Photos |->
                            IF Manager /\ p \in run.chunk THEN Disposition(of[p].says) ELSE ledger[p]]
                      r == [run EXCEPT !.chunk = {},
                              !.ready = @ \cup {p \in run.chunk : its[p].state = "queued"}]
                  IN  /\ Asks(its, l, r, [past EXCEPT
                            !.refused = @ \cup {p \in run.chunk : of[p].says = "refused"}])
                      /\ UNCHANGED <<call, late, phase, cleaning>>
    /\ UNCHANGED <<allowed, luck>>

ReserveLost ==
    /\ run.chunk # {} /\ Unlucky
    /\ items' = [p \in Photos |-> IF p \in run.chunk THEN [items[p] EXCEPT !.state = "failed"] ELSE items[p]]
    /\ hints' = Remembered(items') /\ ledger' = Synced(items', ledger)
    /\ run' = [run EXCEPT !.chunk = {}, !.todo = {}]
    /\ late' = late \cup Abandoned(UnderWay(run, [p \in Photos |-> NoCall]))
    /\ UNCHANGED <<server, allowed, call, phase, cleaning, past>>

\* A worker takes a photograph: to send it, or to ask again for what it has sent.
StartWork(p) ==
    /\ run.chunk = {} /\ run.todo = {} /\ p \in run.ready
    /\ Cardinality({q \in Photos : call[q].op # "none"}) < Workers
    /\ LET stage == IF items[p].state = "queued" THEN "upload" ELSE "finalize"
           op == CASE p \in Resumable -> "status"
                   [] p \notin Resumable /\ stage = "upload" -> "put"
                   [] OTHER -> "finalize"
           state == IF stage = "upload" THEN "uploading" ELSE "finalizing"
       IN  Goes([items EXCEPT ![p].state = state, ![p].stage = stage], ledger,
                [run EXCEPT !.ready = @ \ {p}],
                [call EXCEPT ![p] = [NoCall EXCEPT !.op = op, !.stage = stage]])
    /\ UNCHANGED <<server, allowed, luck, past>>

Fails(p, says) ==
    LET keep == call[p].stage = "finalize" /\ says \notin {"again", "rejected"}
    IN  Goes([items EXCEPT ![p].state = "failed", ![p].denied = Manager /\ says = "denied",
                           ![p].stage = IF keep THEN "finalize" ELSE "upload"],
             ledger, run, [call EXCEPT ![p] = NoCall])

MarkDelivered(p) ==
    Goes([items EXCEPT ![p] = [NoItem EXCEPT !.state = "delivered", !.file = items[p].file]],
         ledger, run, [call EXCEPT ![p] = NoCall])

\* onProcessing, or the upload is through.
Confirms(p, op) ==
    Goes([items EXCEPT ![p].state = "finalizing", ![p].stage = "finalize"], ledger, run,
         [call EXCEPT ![p].op = op, ![p].stage = "finalize"])

\* sendResumableFile: the transfer as it is says what is left to do.
Looks(p, says) ==
    Goes(items, ledger, run,
         [call EXCEPT ![p].op = "verify", ![p].seen = server[p].by,
                      ![p].then = CASE says = "done" -> "done"
                                    [] says = "receiving" /\ server[p].by = {} -> "part"
                                    [] OTHER -> "complete"])

Sends(p) == Goes(items, ledger, run, [call EXCEPT ![p].op = "part"])
Polls(p) == Goes(items, ledger, run, [call EXCEPT ![p].op = "poll"])

Work(p) ==
    /\ call[p].op # "none"
    /\ LET op == call[p].op
           then == call[p].then IN
       \E served \in Served(op, p, items[p].file, call[p].seen) :
          LET says == served.says IN
          /\ server' = [server EXCEPT ![p] = served.to]
          /\ \/ op = "put" /\ says = "ok" /\ Confirms(p, "finalize")
             \/ op = "status" /\ says \in Active \cup {"done"} /\ Looks(p, says)
             \/ op = "verify" /\ says = "ok" /\ then = "part" /\ Sends(p)
             \/ op = "verify" /\ says = "ok" /\ then = "complete" /\ Confirms(p, "complete")
             \/ op = "part" /\ says = "ok" /\ Confirms(p, "complete")
             \/ op = "complete" /\ says \in {"processing", "retryable"} /\ Polls(p)
             \/ op = "poll" /\ says \in {"processing", "retryable"} /\ Polls(p)
             \/ \/ op = "finalize" /\ says = "ok"
                \/ op = "verify" /\ says = "ok" /\ then = "done"
                \/ op \in {"complete", "poll"} /\ says = "done"
                /\ MarkDelivered(p)
             \/ \/ says \in {"denied", "error", "again", "gone", "ended", "rejected"}
                \/ op = "poll" /\ says \in {"retryable", "receiving"}
                /\ Fails(p, says)
    /\ UNCHANGED <<allowed, luck, past>>

\* No answer comes: the page asks again, or gives up.
WorkLost(p) ==
    /\ call[p].op # "none" /\ Unlucky
    /\ LET failed == [items EXCEPT ![p].state = "failed", ![p].stage = call[p].stage] IN
       \/ UNCHANGED <<items, hints, ledger, run, call>>
       \/ /\ items' = failed /\ hints' = Remembered(failed) /\ ledger' = Synced(failed, ledger)
          /\ call' = [call EXCEPT ![p] = NoCall] /\ UNCHANGED run
    /\ late' = late \cup Abandoned({Request(call[p].op, p)})
    /\ UNCHANGED <<server, allowed, phase, cleaning, past>>

RunEnds ==
    /\ run.on /\ run.chunk = {} /\ run.todo = {} /\ run.ready = {}
    /\ \A p \in Photos : call[p].op = "none"
    /\ run' = NoRun
    /\ phase' = CASE ~Manager -> phase
                  [] Manager /\ Received(items) -> "receipt"
                  [] Manager /\ ~Received(items) /\ Unresolved(ledger) # {} -> "needs-attention"
                  [] OTHER -> "selecting"
    /\ UNCHANGED <<server, allowed, late, hints, items, ledger, call, cleaning, luck, past>>

-----------------------------------------------------------------------------
(* Cleaning up: each photograph that may be reserved is asked for again or *)
(* canceled, canceled and looked at, and canceled once more.               *)

Cleans(at, of) == cleaning' = [cleaning EXCEPT !.at = at, !.of = of, !.todo = @ \ of]
CleaningGoesOn == UNCHANGED <<allowed, hints, items, ledger, run, call, past>>

CleanNext(p) ==
    /\ cleaning.at = "next" /\ p \in cleaning.todo
    /\ Cleans(IF ledger[p] = "ambiguous" THEN "reserve" ELSE "cancel", {p})
    /\ CleaningGoesOn /\ UNCHANGED <<server, late, phase, luck>>

Settled(p) == cleaning' = [cleaning EXCEPT !.at = "next", !.of = {}, !.unresolved = @ \ {p}]
StaysUnresolved == cleaning' = [cleaning EXCEPT !.at = "next", !.of = {}]

CleaningAnswered(p) ==
    /\ p \in cleaning.of
    /\ \E served \in IF cleaning.at \in {"reserve", "replay"} THEN ToReserve(p) ELSE CancelReservation(p) :
          LET says == served.says IN
          /\ server' = [server EXCEPT ![p] = served.to]
          /\ IF says = "denied" THEN phase' = "terminal" /\ cleaning' = Clean
             ELSE /\ UNCHANGED phase
                  /\ CASE says \in {"ok", "done", "delivered", "canceled"} -> Settled(p)
                       [] says = "refused" /\ cleaning.at = "reserve" -> Settled(p)
                       [] says = "accepted" /\ cleaning.at = "reserve" -> Cleans("cancel", {p})
                       [] says \in {"accepted", "refused"} /\ cleaning.at = "replay" -> Cleans("cancel2", {p})
                       [] says = "error" /\ cleaning.at = "cancel" -> Cleans("replay", {p})
                       [] says = "error" /\ cleaning.at # "cancel" -> StaysUnresolved
          /\ past' = [past EXCEPT !.refused = IF says = "refused" THEN @ \cup {p} ELSE @]
    /\ UNCHANGED <<allowed, late, hints, items, ledger, run, call, luck>>

CleaningLost(p) ==
    /\ p \in cleaning.of /\ Unlucky
    /\ IF cleaning.at = "cancel" THEN Cleans("replay", {p}) ELSE StaysUnresolved
    /\ late' = late \cup Abandoned({CleaningRequest(p)})
    /\ CleaningGoesOn /\ UNCHANGED <<server, phase>>

\* All settled, the dialog forgets the photographs and closes; else it stays.
CleaningEnds ==
    /\ cleaning.at = "next" /\ cleaning.todo = {}
    /\ IF cleaning.unresolved = {}
       THEN LET done == {p \in Photos : ledger[p] # "none"} IN
            /\ StartsOver
            /\ hints' = [p \in Resumable |-> IF p \in done THEN "no" ELSE hints[p]]
            /\ past' = [past EXCEPT !.forgotten = @ \cup (done \cap past.refused)]
       ELSE /\ phase' = "cleanup-retry" /\ cleaning' = Clean
            /\ UNCHANGED <<items, ledger, hints, run, call, past>>
    /\ UNCHANGED <<server, allowed, late, luck>>

RetryCleanup ==
    /\ phase = "cleanup-retry"
    /\ SettleCleanup(items, ledger)
    /\ CleaningGoesOn /\ UNCHANGED <<server, late, luck>>

Next ==
    \/ ServedLate \/ EventMoves \/ \E p \in Resumable : TransferMoves(p)
    \/ Send \/ Cancel \/ Leave \/ DiscardSelection
    \/ Reserved \/ ReserveLost \/ RunEnds
    \/ CleaningEnds \/ RetryCleanup
    \/ \E chosen, invalid, others \in SUBSET Photos : AdoptFiles(chosen, invalid, others)
    \/ \E p \in Photos :
          \/ Remove(p) \/ StartWork(p) \/ Work(p) \/ WorkLost(p)
          \/ CleanNext(p) \/ CleaningAnswered(p) \/ CleaningLost(p)

Spec == Init /\ [][Next]_uploadVars

-----------------------------------------------------------------------------
(* Properties.                                                             *)

\* A photograph shown as delivered is one the event has, or had until a host removed
\* it, with the bytes of the very file that was chosen.
DeliveredIsStored ==
    \A p \in Photos : items[p].state = "delivered" =>
        server[p].row \in {"stored", "removed"} /\ server[p].by = {items[p].file}

\* The host's dialog lets go only when nothing it asked for is still reserved, but
\* for what it was refused and may be secured yet (section 8 of the README).
LetsGoSettled ==
    (Manager /\ ~Busy /\ phase # "terminal") =>
        \A p \in past.asked \ past.refused : server[p].row # "reserved"

\* A resumable photograph with a place can be resumed after a reload, unless the
\* user removed it or closed the dialog over it.
CanResume ==
    \A p \in Resumable \ past.forgotten : server[p].row = "reserved" => hints[p] # "no"

\* Nothing looks under way when nothing is.
NothingHangs ==
    (~run.on /\ phase \notin {"cleanup", "cleanup-retry", "terminal"}) =>
        \A p \in Photos : items[p].state \notin InFlight

UploadsKept == DeliveredIsStored /\ LetsGoSettled /\ CanResume /\ NothingHangs
=============================================================================
