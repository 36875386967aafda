---------------------------- MODULE HostSettings ----------------------------
(***************************************************************************)
(* The settings of an event as a host edits them: the editor and its       *)
(* autosave queue, the page that owns the event it shows and guards its    *)
(* reads, and the route that stores one complete payload.  The guest list  *)
(* moves on its own; an answer may be lost whatever it says; the host      *)
(* rotates the management link, which suspends the page.  React renders    *)
(* when it will and runs a render's effects some time after it: `shown` is *)
(* what the effects still to run were rendered with.                       *)
(***************************************************************************)
EXTENDS AutosaveQueue, Naturals, FiniteSets

CONSTANTS
    Fields, Values,      \* what a field may read
    TextFields,          \* written with the keyboard, saved after a pause
    Trim,                \* what is sent for a value
    Malformed,           \* values the editor refuses
    Opening, Open,       \* the field that opens RSVP, and the value that does
    Initial,             \* the settings the event was made with
    Plain,               \* and its theme, which another editor writes
    MaxEdits, MaxEvents

VARIABLES
    row,       \* the event in D1
    event,     \* the event the page holds
    due,       \* what the next render is for: the editor's state, a new event
    shown,     \* the render whose effects are to run
    editor, queue,
    request,   \* the PATCH and what follows it
    read,      \* a read of the whole event
    others,    \* writes of the page's other editors that are under way
    trail,     \* what the properties remember of the run
    left       \* what may still happen

settingsVars == <<row, event, due, shown, editor, queue, request, read, others, trail, left>>

Canonical(settings) == [f \in Fields |-> Trim[settings[f]]]
SettingsKey(settings, roster) == [settings |-> Canonical(settings), roster |-> roster]

NoRequest == [at |-> "none"]
NoRead == [at |-> "none"]
NoErrors == [f \in Fields |-> None]

-----------------------------------------------------------------------------
(* The editor.                                                             *)

\* A refusal stands while the field, and the list it was about, are as they were.
LiveErrors(e) ==
    {f \in Fields : /\ e.errors[f] # None
                    /\ e.errors[f].generation = e.generations[f]
                    /\ e.errors[f].roster = e.roster}

Errors(e) ==
    LiveErrors(e) \cup
        IF e.draft = e.confirmed THEN {} ELSE {f \in Fields : e.draft[f] \in Malformed}

BaselineKey(e) == SettingsKey(e.confirmed, e.roster)
BlockedKey(e) == IF Errors(e) = {} THEN None ELSE SettingsKey(e.draft, e.roster)

Draft(e) ==
    [key |-> SettingsKey(e.draft, e.roster), what |-> e.generations, ok |-> Errors(e) = {}]

\* Mutant: what was confirmed is adopted whole.
RebaseWhole(e, settings) ==
    [f \in Fields |->
        IF e.through # None \/ e.draft[f] = e.confirmed[f] THEN settings[f] ELSE e.draft[f]]

\* New values are adopted where the host has not moved on.
Rebase(e, settings) ==
    [f \in Fields |->
        IF IF e.through # None THEN e.generations[f] = e.through[f] ELSE e.draft[f] = e.confirmed[f]
        THEN settings[f] ELSE e.draft[f]]

Exhausted(e) == e.race # None /\ e.race.exhausted

\* React has rendered, and run what the render asked for.
CaughtUp == due = {} /\ shown = None

SettingsInit ==
    /\ row = [settings |-> Initial, roster |-> 0, theme |-> Plain]
    /\ event = row
    /\ due = {}
    /\ shown = None
    /\ editor = [draft |-> Initial, confirmed |-> Initial, roster |-> 0,
                 generations |-> [f \in Fields |-> 0], errors |-> NoErrors,
                 through |-> None, race |-> None, blocked |-> None]
    /\ queue = NewQueue(SettingsKey(Initial, 0))
    /\ request = NoRequest
    /\ read = NoRead
    /\ others = {}
    /\ trail = [unheard |-> {}, themes |-> {}, through |-> [f \in Fields |-> 0], slips |-> {}]
    /\ \E bad \in {0, 1} : \* the version of a list that cannot open RSVP
           left = [edits |-> MaxEdits, events |-> MaxEvents, bad |-> bad]

-----------------------------------------------------------------------------
(* The page guards its reads of the whole event: one that a write overlaps *)
(* is stale.  A reload is dropped too when anything replaces the event.    *)

Stale(r) == [r EXCEPT !.stale = TRUE]
Overlapped == IF read.at # "none" /\ read.by # "aside" THEN Stale(read) ELSE read
Replaced == IF read.at # "none" /\ read.by = "reload" THEN Stale(read) ELSE read

\* What submitting begins.
Sends ==
    /\ request' = IF queue.sent = None /\ queue'.sent # None THEN [at |-> "sent"] ELSE request
    /\ read' = IF request' = request THEN read ELSE Overlapped

-----------------------------------------------------------------------------
(* The host.  He acts on a page that has rendered, and so does the server:  *)
(* only answers that are already in the browser come before a render.      *)

Apply(e, immediate) ==
    /\ editor' = e
    /\ queue' = Submit(queue, Draft(e), immediate)

Edit(f, value) ==
    /\ CaughtUp /\ left.edits > 0
    /\ value # editor.draft[f]
    /\ Apply([editor EXCEPT !.draft[f] = value, !.generations[f] = @ + 1], f \notin TextFields)
    /\ left' = [left EXCEPT !.edits = @ - 1]
    /\ due' = due \cup {"editor"}
    /\ Sends
    /\ UNCHANGED <<row, event, shown, others, trail>>

\* Leaving a text field trims it and saves at once.
SettleField(f) ==
    /\ CaughtUp /\ f \in TextFields
    /\ LET settled == [editor EXCEPT !.draft[f] = Trim[@]]
       IN  /\ editor' = settled
           /\ queue' = Flush(IF settled = editor THEN queue ELSE Submit(queue, Draft(settled), FALSE))
           /\ due' = IF settled = editor THEN due ELSE due \cup {"editor"}
    /\ queue' # queue \/ editor' # editor
    /\ Sends
    /\ UNCHANGED <<row, event, shown, others, trail, left>>

RetrySave ==
    /\ CaughtUp /\ Status(queue) = "failed"
    /\ Apply(editor, TRUE)
    /\ due' = due \cup {"editor"}
    /\ Sends
    /\ UNCHANGED <<row, event, shown, others, trail, left>>

TimerFires ==
    /\ queue.timer
    /\ queue' = Flush(queue)
    /\ Sends
    /\ UNCHANGED <<row, event, due, shown, editor, others, trail, left>>

-----------------------------------------------------------------------------
(* The route, and the list it compares the payload with.                   *)

RosterMoves ==
    /\ CaughtUp /\ left.events > 0
    /\ row' = [row EXCEPT !.roster = @ + 1]
    /\ left' = [left EXCEPT !.events = @ - 1]
    /\ UNCHANGED <<event, due, shown, editor, queue, request, read, others, trail>>

MayStore(key) ==
    /\ key.roster = row.roster
    /\ ~(key.settings[Opening] = Open /\ row.roster = left.bad)

UpdateSettings ==
    /\ CaughtUp /\ request.at = "sent"
    /\ IF MayStore(queue.sent.key)
       THEN /\ row' = [row EXCEPT !.settings = queue.sent.key.settings]
            /\ request' = [at |-> "stored"]
            /\ trail' = [trail EXCEPT !.unheard = @ \cup {queue.sent.key.settings},
                                      !.through = queue.sent.what]
       ELSE /\ request' = [at |-> "refused"]
            /\ UNCHANGED <<row, trail>>
    /\ UNCHANGED <<event, due, shown, editor, queue, read, others, left>>

\* The answer describes the event as it stands when it is made.
AnswerSettings ==
    /\ CaughtUp /\ request.at = "stored"
    /\ request' = [at |-> "answered", event |-> row]
    /\ UNCHANGED <<row, event, due, shown, editor, queue, read, others, trail, left>>

\* A request, or its answer, does not arrive.
RequestLost ==
    /\ request.at \in {"sent", "stored", "answered", "refused"} /\ left.events > 0
    /\ request' = [at |-> "lost"]
    /\ left' = [left EXCEPT !.events = @ - 1]
    /\ UNCHANGED <<row, event, due, shown, editor, queue, read, others, trail>>

-----------------------------------------------------------------------------
(* What the editor does with the answer.                                   *)

\* Not suspended since it was sent.
Owns == ~queue.retired

\* A second answer before the render of the first.
Crossing == IF CaughtUp THEN trail ELSE [trail EXCEPT !.slips = @ \cup {"crossed"}]

\* Of an answer to a write the page takes what the write decides.
MergeSettings(response) ==
    [event EXCEPT !.settings = response.settings,
                  !.roster = IF @ > response.roster THEN @ ELSE response.roster]

\* The request settles in the same turn; the next one, if any, leaves.
Settles(outcome, key) ==
    /\ queue' = Settle(queue, outcome, key)
    /\ request' = IF queue'.sent # None THEN [at |-> "sent"] ELSE NoRequest

SaveConfirmed ==
    /\ request.at = "answered"
    /\ LET answer == request.event
       IN  /\ Settles("confirmed", SettingsKey(answer.settings, answer.roster))
           /\ IF Owns
              THEN /\ editor' = [editor EXCEPT !.race = None, !.through = queue.sent.what]
                   /\ event' = MergeSettings(answer)
                   /\ due' = due \cup {"event"}
                   /\ trail' = [Crossing EXCEPT !.unheard = {}]
              ELSE UNCHANGED <<editor, event, due, trail>>
    /\ read' = Overlapped
    /\ UNCHANGED <<row, shown, others, left>>

SaveFails ==
    /\ \/ request.at = "lost"
       \/ request.at = "refused" /\ ~Owns
    /\ Settles("failed", None)
    /\ read' = Overlapped
    /\ UNCHANGED <<row, event, due, shown, editor, others, trail, left>>

\* A refusal about the list is looked into first, when no write is under way.
SaveRefused ==
    /\ request.at = "refused" /\ Owns
    /\ request' = [at |-> "reread", stale |-> others # {}, row |-> None]
    /\ read' = Overlapped
    /\ UNCHANGED <<row, event, due, shown, editor, queue, others, trail, left>>

Reread ==
    /\ CaughtUp /\ request.at = "reread" /\ request.row = None /\ ~request.stale
    /\ request' = [request EXCEPT !.row = row]
    /\ UNCHANGED <<row, event, due, shown, editor, queue, read, others, trail, left>>

RereadAgain ==
    /\ request.at = "reread" /\ request.stale /\ others = {} /\ Owns
    /\ request' = [request EXCEPT !.row = None, !.stale = FALSE]
    /\ UNCHANGED <<row, event, due, shown, editor, queue, read, others, trail, left>>

\* One automatic retry for each intent; the reconciliation makes it.  A refusal
\* the list does not explain is shown at its field, unless the host moved on.
Refreshed ==
    /\ request.at = "reread" /\ request.row # None /\ ~request.stale /\ Owns
    /\ LET fresh == request.row
           sent == queue.sent.key
           again == editor.race # None /\ editor.race.intent = sent.settings
           refusal == [generation |-> editor.generations[Opening], roster |-> editor.roster]
       IN  /\ event' = MergeSettings(fresh)
           /\ trail' = [Crossing EXCEPT !.unheard = @ \ {fresh.settings}]
           /\ due' = due \cup {"event", "editor"}
           /\ IF fresh.roster = sent.roster
              THEN /\ Settles("failed", None)
                   /\ editor' = IF Superseded(queue) THEN editor
                                ELSE [editor EXCEPT !.errors[Opening] = refusal]
              ELSE /\ Settles(IF again THEN "failed" ELSE "rebased", None)
                   /\ editor' = [editor EXCEPT !.race = [intent |-> sent.settings, exhausted |-> again]]
    /\ read' = IF queue'.sent # None THEN Overlapped ELSE Replaced
    /\ UNCHANGED <<row, shown, others, left>>

\* Suspended meanwhile, or the read failed.
RereadFails ==
    /\ request.at = "reread"
    /\ \/ ~Owns /\ UNCHANGED left
       \/ Owns /\ left.events > 0 /\ left' = [left EXCEPT !.events = @ - 1]
    /\ Settles("failed", None)
    /\ read' = IF queue'.sent # None THEN Overlapped ELSE read
    /\ UNCHANGED <<row, event, due, shown, editor, others, trail>>

-----------------------------------------------------------------------------
(* The page: its reads, its renders, its suspension.                       *)

Reading(by) == [at |-> "open", by |-> by, stale |-> FALSE, row |-> None]

OpenRead(by) ==
    /\ read.at = "none" /\ left.events > 0
    /\ read' = Reading(by)
    /\ left' = [left EXCEPT !.events = @ - 1]
    /\ UNCHANGED <<row, event, due, shown, editor, queue, request, others, trail>>

Reload == ~queue.paused /\ OpenRead("reload")

\* After the guest list changed.
RefreshEvent == ~queue.paused /\ OpenRead("refresh")

\* To see, in a suspended page, what became of a rotation; nothing guards it.
RefreshRevision == queue.paused /\ OpenRead("aside")

AnswerRead ==
    /\ CaughtUp /\ read.at = "open"
    /\ read' = [read EXCEPT !.at = "answered", !.row = row]
    /\ UNCHANGED <<row, event, due, shown, editor, queue, request, others, trail, left>>

AdoptRead ==
    /\ read.at = "answered"
    /\ IF read.stale THEN UNCHANGED <<event, due, trail>>
       ELSE /\ event' = read.row
            /\ due' = due \cup {"event"}
            /\ trail' = [Crossing EXCEPT !.unheard = @ \ {read.row.settings}]
    /\ read' = NoRead
    /\ UNCHANGED <<row, shown, editor, queue, request, others, left>>

Render ==
    /\ due # {} /\ shown = None
    /\ shown' = [event |-> IF "event" \in due THEN event ELSE None, blocked |-> BlockedKey(editor)]
    /\ due' = {}
    /\ UNCHANGED <<row, event, editor, queue, request, read, others, trail, left>>

\* A new event was rendered: reconcile the draft with it.
Reconciled(e, incoming) ==
    [e EXCEPT !.confirmed = incoming.settings, !.roster = incoming.roster,
              !.draft = Rebase(e, incoming.settings), !.through = None]

Same(e, next) ==
    /\ BaselineKey(next) = BaselineKey(e)
    /\ SettingsKey(next.draft, next.roster) = SettingsKey(e.draft, e.roster)

Reconcile(e, q, incoming) ==
    LET next == Reconciled(e, incoming)
        based == AdoptBaseline(q, BaselineKey(next))
    IN  IF Same(e, next) THEN [editor |-> [e EXCEPT !.through = None], queue |-> q]
        ELSE [editor |-> next,
              queue |-> IF Exhausted(e) THEN based ELSE Submit(based, Draft(next), FALSE)]

\* Then the queue is told of a refusal that was rendered.
RunEffects ==
    /\ shown # None
    /\ LET now == IF shown.event = None THEN [editor |-> editor, queue |-> queue]
                  ELSE Reconcile(editor, queue, shown.event)
           refusal == [key |-> shown.blocked, what |-> editor.generations, ok |-> FALSE]
           moved == now.editor # [editor EXCEPT !.through = now.editor.through]
       IN  /\ editor' = [now.editor EXCEPT !.blocked = shown.blocked]
           /\ queue' = IF shown.blocked \in {None, editor.blocked} THEN now.queue
                       ELSE Submit(now.queue, refusal, FALSE)
           /\ due' = IF moved THEN due \cup {"editor"} ELSE due
           /\ trail' = IF moved /\ Exhausted(editor)
                       THEN [trail EXCEPT !.slips = @ \cup {"silent"}] ELSE trail
    /\ shown' = None
    /\ Sends
    /\ UNCHANGED <<row, event, others, left>>

RotationBegins ==
    /\ CaughtUp /\ ~queue.paused /\ left.events > 0
    /\ queue' = Pause(queue)
    /\ read' = Overlapped
    /\ request' = IF request.at = "reread" THEN [request EXCEPT !.stale = TRUE] ELSE request
    /\ left' = [left EXCEPT !.events = @ - 1]
    /\ UNCHANGED <<row, event, due, shown, editor, others, trail>>

\* The page reads everything again.
RotationEnds ==
    /\ CaughtUp /\ queue.paused /\ read.at = "none"
    /\ queue' = Resume(queue)
    /\ request' = IF queue'.sent # queue.sent THEN [at |-> "sent"] ELSE request
    /\ read' = Reading("reload")
    /\ UNCHANGED <<row, event, due, shown, editor, trail, left>>

SettingsStep ==
    \/ \E f \in Fields : \E value \in Values[f] : Edit(f, value)
    \/ \E f \in Fields : SettleField(f)
    \/ RetrySave \/ TimerFires
    \/ RosterMoves \/ UpdateSettings \/ AnswerSettings \/ RequestLost
    \/ SaveConfirmed \/ SaveFails \/ SaveRefused \/ Reread \/ RereadAgain \/ Refreshed \/ RereadFails
    \/ Reload \/ RefreshEvent \/ RefreshRevision \/ AnswerRead \/ AdoptRead \/ Render \/ RunEffects

SettingsNext ==
    \/ SettingsStep \/ RotationBegins
    \/ RotationEnds /\ UNCHANGED others

SettingsSpec == SettingsInit /\ [][SettingsNext]_settingsVars

-----------------------------------------------------------------------------
(* Properties.                                                             *)

Quiet ==
    /\ IsSettled(queue) /\ ~queue.paused
    /\ request = NoRequest /\ CaughtUp

\* "Saved" is true once everything has settled: D1 holds what the host sees, unless
\* it holds a write of his whose answer the page never took.
SavedIsStored ==
    Quiet /\ Status(queue) = "saved" =>
        Canonical(editor.draft) = row.settings \/ row.settings \in trail.unheard

\* "Saving" ends: a request, or a render that makes one, is under way, unless an
\* answer crossed a render or a newer list was taken in without a save.
NothingStuck ==
    Status(queue) = "saving" => request # NoRequest \/ ~CaughtUp \/ trail.slips # {}

\* "Invalid" has a field to show for it, unless two answers met before a render.
InvalidIsShown ==
    Quiet /\ Status(queue) = "invalid" => Errors(editor) # {} \/ "crossed" \in trail.slips

SettingsKept == SavedIsStored /\ NothingStuck /\ InvalidIsShown

\* No answer, read or reconciliation changes a field under the host: only his edit
\* does, or a trim, or a value adopted where he had not moved on from what is stored
\* or from what was confirmed to him.
RespectsEdits ==
    \A f \in Fields :
        editor'.draft[f] # editor.draft[f] =>
            \/ editor'.generations[f] # editor.generations[f]
            \/ Trim[editor.draft[f]] = Trim[editor'.draft[f]]
            \/ editor.draft[f] = editor.confirmed[f]
            \/ editor.generations[f] <= trail.through[f]

\* Nor does a slow request store over a newer one: what is stored was typed last.
StoresInOrder == \A f \in Fields : trail'.through[f] >= trail.through[f]

EditsRespected == [][RespectsEdits /\ StoresInOrder]_settingsVars
=============================================================================
