------------------------------- MODULE MCEvent -------------------------------
(***************************************************************************)
(* An event, its hosts and its guests, on small instances, each behaviour  *)
(* of one machine while the others rest.  Its capacity: three photos of    *)
(* sizes 1, 2 and 3 for two places or for five bytes, any of them there    *)
(* before, the others reserved.  Who gets to it: EventAccess.  And the     *)
(* host's page that saves as he types, and the pages that send             *)
(* photographs.                                                            *)
(***************************************************************************)
EXTENDS EventAccess, FiniteSetsExt

CONSTANTS Digests, LegacyDigest, NoBytes, NoToken, MaxJobs, MaxAttempts, None

\* One machine moves at a time, and those not of EventAccess have their state in these.
VARIABLES subject, v1, v2, v3, v4, v5, v6, v7, v8, v9, v10, v11, v12, v13, v14, v15, v16

otherVars == <<v1, v2, v3, v4, v5, v6, v7, v8, v9, v10, v11, v12, v13, v14, v15, v16>>
eventVars == <<subject, entryVars, linkVars, accountVars, mailVars, noteVars, otherVars>>

\* Photos are their sizes; either the places run out or the bytes.
SizeOf(photos) == [S \in SUBSET photos |-> SumSet(S)]

Crowd == INSTANCE MediaLifecycle
    WITH eventLive <- v1, intakeOpen <- v2, counts <- v3, bytes <- v4, row <- v5, promo <-
         v6, suppressed <- v7, object <- v8, inflight <- v9, receipt <- v10, req <- v11,
         pass <- v12, sweep <- v13, job <- v14, purge <- v15, purger <- v16,
         Media <- {1, 2, 3}, LegacyMedia <- {1, 2, 3}, Weight <- SizeOf({1, 2, 3}),
         MaxCount <- 2, MaxBytes <- 6, Requests <- {}, Passes <- {}
Load == INSTANCE MediaLifecycle
    WITH eventLive <- v1, intakeOpen <- v2, counts <- v3, bytes <- v4, row <- v5, promo <-
         v6, suppressed <- v7, object <- v8, inflight <- v9, receipt <- v10, req <- v11,
         pass <- v12, sweep <- v13, job <- v14, purge <- v15, purger <- v16,
         Media <- {1, 2, 3}, LegacyMedia <- {1, 2, 3}, Weight <- SizeOf({1, 2, 3}),
         MaxCount <- 3, MaxBytes <- 5, Requests <- {}, Passes <- {}

\* Of the settings a name and the switch that opens RSVP, of the theme one color.
Names == {"old", "new ", ""}
Trimmed == [v \in Names \cup {"new", "on", "off"} |-> IF v = "new " THEN "new" ELSE v]
OldTheme == [color |-> "green"]
Hex == [text \in {"green", "RED", "half"} |-> IF text = "RED" THEN "red" ELSE text]
Settings == INSTANCE HostSettings
    WITH row <- v1, event <- v2, due <- v3, shown <- v4, editor <- v5, queue <- v6, request
         <- v7, read <- v8, others <- v9, trail <- v10, left <- v11,
         Fields <- {"name", "rsvp"}, TextFields <- {"name"},
         Values <- [name |-> Names, rsvp |-> {"on", "off"}], Trim <- Trimmed, Malformed <- {""},
         Opening <- "rsvp", Open <- "on", Initial <- [name |-> "old", rsvp |-> "off"],
         Plain <- OldTheme, MaxEdits <- 2, MaxEvents <- 2
Page == INSTANCE HostAppearance
    WITH row <- v1, event <- v2, due <- v3, shown <- v4, editor <- v5, queue <- v6, request
         <- v7, read <- v8, others <- v9, trail <- v10, left <- v11, look <- v12, themes <-
         v13, put <- v14,
         Fields <- {"name", "rsvp"}, TextFields <- {"name"},
         Values <- [name |-> Names, rsvp |-> {"on", "off"}], Trim <- Trimmed, Malformed <- {""},
         Opening <- "rsvp", Open <- "on", Initial <- [name |-> "old", rsvp |-> "off"],
         Plain <- OldTheme, MaxEdits <- 2, MaxEvents <- 1,
         Colors <- {"color"}, Texts <- {"green", "RED", "half"}, Lower <- Hex, Refused <- {"half"},
         Presets <- {OldTheme}

\* A photograph sent in parts, and one sent at once.
Dialog == INSTANCE UploadSession
    WITH server <- v1, allowed <- v2, late <- v3, hints <- v4, items <- v5, ledger <- v6,
         run <- v7, call <- v8, phase <- v9, cleaning <- v10, luck <- v11, past <- v12,
         Photos <- {"raw", "jpeg"}, Resumable <- {"raw"}, Chunk <- 1, Workers <- 2,
         Manager <- TRUE, Luck <- 1
Keeper == INSTANCE UploadSession
    WITH server <- v1, allowed <- v2, late <- v3, hints <- v4, items <- v5, ledger <- v6,
         run <- v7, call <- v8, phase <- v9, cleaning <- v10, luck <- v11, past <- v12,
         Photos <- {"raw"}, Resumable <- {"raw"}, Chunk <- 1, Workers <- 1,
         Manager <- TRUE, Luck <- 2
Sender == INSTANCE UploadSession
    WITH server <- v1, allowed <- v2, late <- v3, hints <- v4, items <- v5, ledger <- v6,
         run <- v7, call <- v8, phase <- v9, cleaning <- v10, luck <- v11, past <- v12,
         Photos <- {"raw"}, Resumable <- {"raw"}, Chunk <- 1, Workers <- 1,
         Manager <- FALSE, Luck <- 2

\* The variables a machine of so many does without.
After14 == v15 = "rests" /\ v16 = "rests"
After12 == v13 = "rests" /\ v14 = "rests" /\ After14
After11 == v12 = "rests" /\ After12
NoOther == v1 = "rests" /\ v2 = "rests" /\ v3 = "rests" /\ v4 = "rests" /\ v5 = "rests" /\ v6 = "rests" /\ v7 = "rests"
           /\ v8 = "rests" /\ v9 = "rests" /\ v10 = "rests" /\ v11 = "rests" /\ After11

\* Machines that rest do so in one of their initial states.
ABrowser == CHOOSE b \in Browsers : TRUE
AccessInit ==
    /\ Entry!Init /\ (subject # "entry" => entry.state = "open" /\ ~started)
    /\ Link!Init
    /\ subject # "link" => /\ owner = NoAccount /\ cohost = NoAccount /\ ~claimOpen
                           /\ browserSession[ABrowser].live /\ ~browserSession[ABrowser].creator
    /\ Account!Init /\ (subject # "account" => account.version = 0)
    /\ Mail!Init /\ (subject # "mail" => verified)
    /\ Note!Init /\ (subject # "note" => ~moderated)

EventInit ==
    /\ subject \in {"entry", "link", "account", "mail", "note", "drafts",
                    "crowd", "load", "settings", "page", "dialog", "keeper", "sender"}
    /\ AccessInit
    /\ \/ subject \in {"entry", "link", "account", "mail", "note", "drafts"} /\ NoOther
       \/ \E old \in SUBSET {1, 2, 3} :
           \/ subject = "crowd" /\ Crowd!InitWith(old) /\ Crowd!WithinCapacity
           \/ subject = "load" /\ Load!InitWith(old) /\ Load!WithinCapacity
       \/ subject = "settings" /\ Settings!SettingsInit /\ After11
       \/ subject = "page" /\ Page!Init /\ After14
       \/ subject = "dialog" /\ Dialog!Init /\ After12
       \/ subject = "keeper" /\ Keeper!Init /\ After12
       \/ subject = "sender" /\ Sender!Init /\ After12

\* Mails that are not wanted are refused alike whether the event is deleted or not, so
\* it is deleted while they are wanted.  Requests of one draft, which a host shares,
\* hides and purges; and several drafts, which meet the limits, with no host.
AccessNext ==
    \/ subject = "entry" /\ Entry!Next /\ UNCHANGED <<linkVars, accountVars, mailVars, noteVars>>
    \/ subject = "link" /\ Link!Next /\ UNCHANGED <<entryVars, accountVars, mailVars, noteVars>>
    \/ subject = "account" /\ Account!Next /\ UNCHANGED <<entryVars, linkVars, mailVars, noteVars>>
    \/ /\ subject = "mail" /\ Mail!Next /\ (deleted' => wanted')
       /\ UNCHANGED <<entryVars, linkVars, accountVars, noteVars>>
    \/ /\ subject = "note" /\ Note!Next
       /\ \A g \in Guests : composer'[g].key <= 2
       /\ \A r \in Requests : post'[r].pc # "idle" => post'[r].note[2] = 1
       /\ UNCHANGED <<entryVars, linkVars, accountVars, mailVars>>
    \/ /\ subject = "drafts" /\ Note!Next /\ UNCHANGED <<reader, moderated>>
       /\ UNCHANGED <<entryVars, linkVars, accountVars, mailVars>>

OtherNext ==
    \/ subject = "crowd" /\ Crowd!Next
    \/ subject = "load" /\ Load!Next
    \/ subject = "settings" /\ Settings!SettingsNext /\ UNCHANGED <<v12, v13, v14, v15, v16>>
    \/ subject = "page" /\ Page!Next /\ UNCHANGED <<v15, v16>>
    \/ subject = "dialog" /\ Dialog!Next /\ UNCHANGED <<v13, v14, v15, v16>>
    \/ subject = "keeper" /\ Keeper!Next /\ UNCHANGED <<v13, v14, v15, v16>>
    \/ subject = "sender" /\ Sender!Next /\ UNCHANGED <<v13, v14, v15, v16>>

EventNext ==
    /\ UNCHANGED subject
    /\ \/ AccessNext /\ UNCHANGED otherVars
       \/ OtherNext /\ UNCHANGED <<entryVars, linkVars, accountVars, mailVars, noteVars>>

EventSpec == EventInit /\ [][EventNext]_eventVars

-----------------------------------------------------------------------------
(* Properties.                                                             *)

\* Every counter is exact and no limit is passed, whoever competes for the rest.
CapacityKept ==
    /\ subject = "crowd" => Crowd!CapacityKept
    /\ subject = "load" => Load!CapacityKept

\* What a page says is so: saved is stored, saving goes on, what it shows is what D1
\* has; delivered is stored, and nothing is left reserved behind a closed dialog.
ScreensKept ==
    /\ subject = "settings" => Settings!SettingsKept
    /\ subject = "page" => Page!PageKept
    /\ subject = "dialog" => Dialog!UploadsKept
    /\ subject = "keeper" => Keeper!UploadsKept
    /\ subject = "sender" => Sender!UploadsKept

\* No answer, read or late write takes from the host what he has typed since.
ScreensRespected ==
    [][ /\ subject = "settings" => Settings!RespectsEdits /\ Settings!StoresInOrder
        /\ subject = "page" => Page!RespectsEdits /\ Page!StoresInOrder ]_eventVars
=============================================================================
