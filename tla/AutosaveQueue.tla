---------------------------- MODULE AutosaveQueue ----------------------------
(***************************************************************************)
(* The write queue of one domain of the host's pages (settings, appearance,*)
(* album): at most one request under way and one snapshot behind it, the   *)
(* newest.  A queue is a record; each operator is one method and gives the *)
(* queue after it.  A snapshot is [key, what]; a draft also says whether   *)
(* it can be sent.  Whoever uses the queue makes the request when `sent`   *)
(* changes.  Drafts are what the host has in front of him; the key says    *)
(* which of them are the same write.                                       *)
(***************************************************************************)
CONSTANT None

NewQueue(key) ==
    [baseline |-> key, latest |-> None, scheduled |-> None, sent |-> None, pending |-> None,
     retired |-> FALSE, timer |-> FALSE, failed |-> FALSE, rebasing |-> FALSE, paused |-> FALSE]

Snapshot(draft) == [key |-> draft.key, what |-> draft.what]
KeyOf(work) == IF work = None THEN None ELSE work.key

\* The status shown: the draft in front of the host before older verdicts.
Status(q) ==
    IF q.latest # None /\ ~q.latest.ok THEN "invalid"
    ELSE IF q.sent # None THEN "saving"
    ELSE IF q.scheduled # None THEN "scheduled"
    ELSE IF q.rebasing THEN "saving"
    ELSE IF q.failed THEN "failed" ELSE "saved"

IsSettled(q) ==
    /\ q.scheduled = None /\ q.sent = None /\ q.pending = None
    /\ ~q.timer /\ ~q.rebasing

Unstarted(q) == [q EXCEPT !.timer = FALSE, !.scheduled = None, !.pending = None]

Start(q, work) ==
    IF work = None THEN q
    ELSE IF q.paused THEN [q EXCEPT !.scheduled = work]
    ELSE IF q.sent # None THEN [q EXCEPT !.pending = work]
    ELSE [q EXCEPT !.sent = work]

\* Mutant: only what was confirmed counts.
StandingConfirmed(q) == q.baseline

\* What will stand if nothing more is sent.
Standing(q) == IF q.sent = None THEN q.baseline ELSE q.sent.key

\* Equivalence is judged against the baseline, the request and what waits behind it.
Submit(q, draft, immediate) ==
    LET work == Snapshot(draft)
        new == [q EXCEPT !.latest = draft, !.rebasing = FALSE, !.failed = q.failed /\ ~draft.ok]
    IN  IF ~draft.ok THEN Unstarted(new)
        ELSE IF q.paused
        THEN [Unstarted(new) EXCEPT
                !.scheduled = IF ~q.retired /\ draft.key = q.baseline THEN None ELSE work]
        ELSE IF q.retired THEN [Unstarted(new) EXCEPT !.pending = work]
        ELSE IF draft.key = Standing(q) THEN Unstarted(new)
        ELSE IF draft.key = KeyOf(q.pending) THEN [Unstarted(new) EXCEPT !.pending = work]
        ELSE IF immediate THEN Start([new EXCEPT !.timer = FALSE, !.scheduled = None], work)
        ELSE [new EXCEPT !.scheduled = work, !.timer = TRUE]

\* The host leaves the field, or the debounce timer fires.
Flush(q) ==
    IF q.paused THEN [q EXCEPT !.timer = FALSE]
    ELSE Start([q EXCEPT !.timer = FALSE, !.scheduled = None], q.scheduled)

\* What was sent can no longer be adopted; the newest intent is kept behind it.
Pause(q) ==
    [q EXCEPT !.paused = TRUE, !.timer = FALSE, !.pending = None,
              !.retired = q.retired \/ q.sent # None,
              !.scheduled = IF ~IsSettled([q EXCEPT !.timer = FALSE, !.rebasing = FALSE])
                               /\ q.latest # None /\ q.latest.ok
                            THEN Snapshot(q.latest) ELSE q.scheduled]

Resume(q) ==
    LET ready == [q EXCEPT !.paused = FALSE, !.scheduled = None]
    IN  IF q.sent # None THEN [ready EXCEPT !.pending = q.scheduled] ELSE Start(ready, q.scheduled)

DiscardPending(q) == [Unstarted(q) EXCEPT !.latest = None, !.failed = FALSE, !.rebasing = FALSE]

AdoptBaseline(q, key) == [q EXCEPT !.baseline = key]

\* The draft in front of the host is no longer the one that was sent.
Superseded(q) ==
    q.pending # None \/ q.latest = None \/ ~q.latest.ok \/ q.latest.key # q.sent.key

\* The request ended: confirmed as `key`, rebased, or failed.
Settle(q, outcome, key) ==
    LET ended == [q EXCEPT !.sent = None, !.retired = FALSE, !.pending = None]
        retired == [ended EXCEPT !.rebasing = FALSE]
        judged ==
            CASE outcome = "confirmed" ->
                    [ended EXCEPT !.baseline = key, !.rebasing = FALSE, !.failed = FALSE]
              [] outcome = "rebased" -> [ended EXCEPT !.rebasing = TRUE]
              [] outcome = "failed" ->
                    [ended EXCEPT !.rebasing = FALSE, !.failed = q.failed \/ ~Superseded(q)]
    IN  IF ~q.retired THEN Start(judged, q.pending)
        ELSE IF q.paused THEN retired
        ELSE Start([retired EXCEPT !.scheduled = None],
                   IF q.pending # None THEN q.pending ELSE q.scheduled)
=============================================================================
