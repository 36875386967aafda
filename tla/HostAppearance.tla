---------------------------- MODULE HostAppearance ----------------------------
(***************************************************************************)
(* The appearance of an event beside its settings: the editor of its       *)
(* theme, with a queue of its own, on the page that HostSettings models.   *)
(* What the host typed for a color is apart from the theme it makes: a     *)
(* text that makes none stays before him and leaves the theme as it was.   *)
(***************************************************************************)
EXTENDS HostSettings

CONSTANTS
    Colors, Texts,     \* the colors of a theme, what may be typed for one
    Lower,             \* the color a text means
    Refused,           \* texts that mean none, or none that can be read on
    Presets            \* the themes offered

VARIABLES
    look,              \* the theme, the texts, and what is refused of them
    themes,            \* the queue of the appearance
    put                \* its request

appearanceVars == <<look, themes, put>>
vars == <<settingsVars, appearanceVars>>

Intent(l) == [theme |-> l.theme, texts |-> l.texts]
ThemeDraft(l) == [key |-> l.theme, what |-> Intent(l), ok |-> l.errors = {}]

Init ==
    /\ SettingsInit
    /\ look = [theme |-> Plain, texts |-> Plain, errors |-> {}]
    /\ themes = NewQueue(Plain)
    /\ put = NoRequest

-----------------------------------------------------------------------------
\* Every write of the page makes its reads stale, as it begins and as it ends.
RequestStale == IF request.at = "reread" THEN Stale(request) ELSE request

ThemeWrites ==
    IF themes.sent = None /\ themes'.sent # None
    THEN /\ put' = [at |-> "sent"]
         /\ others' = {"theme"}
         /\ read' = Overlapped
         /\ request' = RequestStale
    ELSE UNCHANGED <<put, others, read, request>>

EnqueueTheme(l, immediate) ==
    /\ look' = l
    /\ themes' = Submit(themes, ThemeDraft(l), immediate)
    /\ ThemeWrites
    /\ due' = due \cup {"editor"}
    /\ UNCHANGED <<row, event, shown, editor, queue, trail>>

\* A preset, or the theme reset: a whole theme, which can be sent.
ChoosePreset(theme) ==
    /\ CaughtUp /\ left.edits > 0 /\ look # [theme |-> theme, texts |-> theme, errors |-> {}]
    /\ EnqueueTheme([theme |-> theme, texts |-> theme, errors |-> {}], TRUE)
    /\ left' = [left EXCEPT !.edits = @ - 1]

ChangeColor(color, text) ==
    /\ CaughtUp /\ left.edits > 0 /\ text # look.texts[color]
    /\ LET typed == [look EXCEPT !.texts[color] = text]
       IN  EnqueueTheme(
             IF text \in Refused THEN [typed EXCEPT !.errors = @ \cup {color}]
             ELSE [typed EXCEPT !.theme[color] = Lower[text], !.errors = @ \ {color}],
             FALSE)
    /\ left' = [left EXCEPT !.edits = @ - 1]

UsePresetColor(color) ==
    /\ CaughtUp /\ left.edits > 0
    /\ LET preset == [look EXCEPT !.theme[color] = Plain[color], !.texts[color] = Plain[color],
                                  !.errors = @ \ {color}]
       IN  look # preset /\ EnqueueTheme(preset, TRUE)
    /\ left' = [left EXCEPT !.edits = @ - 1]

RetryTheme ==
    /\ CaughtUp /\ Status(themes) = "failed"
    /\ EnqueueTheme(look, TRUE)
    /\ UNCHANGED left

\* The debounce fires, or the host leaves the field.
FlushTheme ==
    /\ themes.scheduled # None /\ ~themes.paused
    /\ themes' = Flush(themes)
    /\ ThemeWrites
    /\ UNCHANGED <<row, event, due, shown, editor, queue, trail, left, look>>

-----------------------------------------------------------------------------
UpdateTheme ==
    /\ CaughtUp /\ put.at = "sent"
    /\ row' = [row EXCEPT !.theme = themes.sent.key]
    /\ put' = [at |-> "stored"]
    /\ trail' = [trail EXCEPT !.themes = @ \cup {themes.sent.key}]
    /\ UNCHANGED <<event, due, shown, editor, queue, request, read, others, left, look, themes>>

AnswerTheme ==
    /\ CaughtUp /\ put.at = "stored"
    /\ put' = [at |-> "answered", event |-> row]
    /\ UNCHANGED <<settingsVars, look, themes>>

ThemeLost ==
    /\ put.at \in {"sent", "stored", "answered"} /\ left.events > 0
    /\ put' = [at |-> "lost"]
    /\ left' = [left EXCEPT !.events = @ - 1]
    /\ UNCHANGED <<row, event, due, shown, editor, queue, request, read, others, trail, look, themes>>

ThemeSettles(outcome, key) ==
    /\ themes' = Settle(themes, outcome, key)
    /\ put' = IF themes'.sent # None THEN [at |-> "sent"] ELSE NoRequest
    /\ others' = IF themes'.sent # None THEN {"theme"} ELSE {}
    /\ request' = RequestStale

\* What was stored is shown while the host still looks at what he sent.
SendThemeConfirmed ==
    /\ put.at = "answered"
    /\ LET stored == put.event.theme
       IN  /\ ThemeSettles("confirmed", stored)
           /\ IF themes.retired THEN UNCHANGED <<look, event, due, trail>>
              ELSE /\ look' = IF Intent(look) = themes.sent.what
                              THEN [theme |-> stored, texts |-> stored, errors |-> {}] ELSE look
                   /\ event' = [event EXCEPT !.theme = stored]
                   /\ due' = due \cup {"event", "editor"}
                   /\ trail' = [Crossing EXCEPT !.themes = {}]
    /\ read' = Overlapped
    /\ UNCHANGED <<row, shown, editor, queue, left>>

ThemeFails ==
    /\ put.at = "lost"
    /\ ThemeSettles("failed", None)
    /\ read' = Overlapped
    /\ UNCHANGED <<row, event, due, shown, editor, queue, trail, left, look>>

-----------------------------------------------------------------------------
RotatesLink ==
    \/ /\ RotationBegins
       /\ themes' = Pause(themes)
       /\ UNCHANGED <<look, put>>
    \/ /\ RotationEnds
       /\ themes' = Resume(themes)
       /\ IF themes'.sent # themes.sent THEN put' = [at |-> "sent"] /\ others' = {"theme"}
          ELSE UNCHANGED <<put, others>>
       /\ UNCHANGED look

Next ==
    \/ SettingsStep /\ UNCHANGED appearanceVars
    \/ \E theme \in Presets : ChoosePreset(theme)
    \/ \E color \in Colors, text \in Texts : ChangeColor(color, text)
    \/ \E color \in Colors : UsePresetColor(color)
    \/ RetryTheme \/ FlushTheme
    \/ UpdateTheme \/ AnswerTheme \/ ThemeLost \/ SendThemeConfirmed \/ ThemeFails
    \/ RotatesLink

Spec == Init /\ [][Next]_vars

-----------------------------------------------------------------------------
(* Properties.                                                             *)

ThemeQuiet == IsSettled(themes) /\ ~themes.paused /\ put = NoRequest /\ CaughtUp

\* The appearance is saved when the page says so, unless D1 holds a theme of the
\* host's whose answer the page never took.
SavedThemeIsStored ==
    ThemeQuiet /\ Status(themes) = "saved" =>
        look.theme = row.theme \/ row.theme \in trail.themes

\* However the answers of the two editors, the polls and the refreshes overtake each
\* other, the page ends with the event as it is stored: no answer takes back what the
\* other editor wrote, no read what a write stored while it was open.
PageAgrees ==
    /\ Quiet /\ trail.unheard = {} => event.settings = row.settings
    /\ ThemeQuiet /\ trail.themes = {} => event.theme = row.theme

PageKept == SettingsKept /\ SavedThemeIsStored /\ PageAgrees
=============================================================================
