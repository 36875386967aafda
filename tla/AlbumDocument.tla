--------------------------- MODULE AlbumDocument ---------------------------
(***************************************************************************)
(* The album of an event: the picks of its photographs, the order its      *)
(* hosts arrange, and the slots that photographs in Recently deleted keep  *)
(* in it.                                                                  *)
(*                                                                         *)
(* Revisions and pick generations only grow and are only compared: an      *)
(* observer records whether the one it read is still the present one.     *)
(***************************************************************************)
EXTENDS Integers, FiniteSets, Sequences, SequencesExt

CONSTANTS Newest,         \* photographs are 1..Newest, in their timeline order
          Sections,     \* the sections a host may add
          Hosts,        \* the hosts who arrange the album
          Trashers,     \* requests that move a photograph to Recently deleted
          MaxEntries,   \* ALBUM_MAX_ENTRIES
          Legacy        \* whether clients of before the expectations still start albums

AlbumSizes ==
    /\ Newest \in Nat \ {0} /\ MaxEntries \in Nat \ {0} /\ Legacy \in BOOLEAN
    /\ Sections \cap (1..Newest) = {}

VARIABLES media, album, host, trasher

vars == <<media, album, host, trasher>>

Photos == 1..Newest
\* An unpicked photograph has no pick version; a historical pick has none either.
Photo == [state: {"stored", "deleted"}, trashed: BOOLEAN,
          picked: BOOLEAN, version: BOOLEAN]
Away == [at |-> "away", doc |-> FALSE, gen |-> FALSE, added |-> FALSE, asks |-> "none"]
IdleTrasher == [pc |-> "idle", photo |-> 0, favorited |-> FALSE, rev |-> FALSE]

TypeOK ==
    /\ media \in [Photos -> Photo]
    /\ album.entries \in Seq(Photos \cup Sections) /\ IsInjective(album.entries)
    /\ album.saved \in BOOLEAN
    /\ host \in [Hosts -> [at: {"away", "editing"}, doc: BOOLEAN, gen: BOOLEAN,
                           added: BOOLEAN, asks: {"none", "initialize", "historical", "over-capacity"}]]
    /\ trasher \in [Trashers -> [pc: {"idle", "album", "batch"}, photo: Photos \cup {0},
                                 favorited: BOOLEAN, rev: BOOLEAN]]
    /\ \A m \in Photos :
        \* media_album_pick_pair_guard
        /\ media[m].version => media[m].picked
        /\ media[m].trashed => media[m].state = "stored"

\* Before the album: hosts had picked what they liked, without versions.
Init ==
    /\ \E old \in SUBSET Photos :
        media = [m \in Photos |-> [state |-> "stored", trashed |-> FALSE,
                                   picked |-> m \in old, version |-> FALSE]]
    /\ album = [entries |-> <<>>, saved |-> FALSE]
    /\ host = [h \in Hosts |-> Away]
    /\ trasher = [t \in Trashers |-> IdleTrasher]

-----------------------------------------------------------------------------
(* What the rows say.                                                      *)

Delivered(p) == p.state = "stored" /\ ~p.trashed
SlotOwner(p) == p.state = "stored"
Picks(md) == {m \in Photos : md[m].picked /\ SlotOwner(md[m])}
SectionsOf(entries) == ToSet(entries) \cap Sections
InTimeline(S) == SetToSortSeq(S, <)

\* resolveAlbum: what is placed, in its order, then the other picks as time has them.
Resolved(md, entries) ==
    SelectSeq(entries, LAMBDA e : e \in Sections \cup Picks(md))
        \o InTimeline(Picks(md) \ ToSet(entries))

Reconciliation ==
    LET picks == Picks(media) IN
    IF album.saved \/ picks = {} THEN "none"
    ELSE IF Cardinality(picks) > MaxEntries THEN "over-capacity"
    ELSE IF \E m \in picks : ~media[m].version THEN "historical" ELSE "initialize"

\* The predicate of the triggers that advance the pick generation.
PickVisible(p) == p.picked /\ p.state = "stored" /\ ~p.trashed
GenerationMoves(md) == \E m \in Photos : PickVisible(md[m]) # PickVisible(media[m])

\* One write: the rows, the document and whether its revision advances. A host
\* whose revision is past will only be refused: it is away. What it was asked
\* is of no use once the album is saved.
Write(md, al, bumped) ==
    /\ media' = md /\ album' = al
    /\ host' = [h \in Hosts |->
         IF bumped \/ host[h].at = "away" THEN Away
         ELSE [at |-> "editing", doc |-> host[h].doc /\ al.entries = album.entries,
               gen |-> host[h].gen /\ ~al.saved /\ ~GenerationMoves(md),
               added |-> ~al.saved /\ (host[h].added \/ Picks(md) \ Picks(media) # {}),
               asks |-> IF al.saved THEN "none" ELSE host[h].asks]]

KeepsTrashers(bumped) == trasher' = [t \in Trashers |-> [trasher[t] EXCEPT !.rev = @ /\ ~bumped]]

-----------------------------------------------------------------------------
(* A host reads the album, then saves it or starts it.                     *)

Compose(h) ==
    /\ host' = [host EXCEPT ![h] = [at |-> "editing", doc |-> TRUE, gen |-> ~album.saved,
                                    added |-> FALSE, asks |-> Reconciliation]]
    /\ UNCHANGED <<media, album, trasher>>

Orders == UNION {SetToSeqs(S) : S \in {T \in SUBSET (Photos \cup Sections) : Cardinality(T) <= MaxEntries}}

Fits(entries) == Cardinality(Picks(media)) + Cardinality(SectionsOf(entries)) <= MaxEntries
Known(entries) == \A m \in ToSet(entries) \cap Photos : SlotOwner(media[m])
KeepsRetained(entries) ==
    \A m \in Photos : media[m].picked /\ media[m].state = "stored" /\ media[m].trashed
                          => m \in ToSet(entries)

\* replace
Save(h, entries) ==
    /\ host[h].at = "editing"
    /\ Fits(entries) /\ Known(entries) /\ KeepsRetained(entries)
    /\ Write(media, [entries |-> entries, saved |-> TRUE], TRUE)
    /\ KeepsTrashers(TRUE)

\* Mutant of SameGeneration: the pick generation is not compared.
AnyGeneration(h) == TRUE
SameGeneration(h) == host[h].gen
\* startWithExpectations
Expected(h) ==
    /\ host[h].at = "editing" /\ SameGeneration(h)
    /\ ~album.saved /\ host[h].asks # "none" /\ host[h].asks = Reconciliation

StartFromPicks(h) ==
    /\ Expected(h) /\ Cardinality(Picks(media)) <= MaxEntries
    /\ Write(media, [entries |-> InTimeline(Picks(media)), saved |-> TRUE], TRUE)
    /\ KeepsTrashers(TRUE)

Cleared(m) == [media[m] EXCEPT !.picked = @ /\ ~SlotOwner(media[m]),
                               !.version = @ /\ ~SlotOwner(media[m])]
StartEmpty(h) ==
    /\ Expected(h)
    /\ Write([m \in Photos |-> Cleared(m)], [entries |-> <<>>, saved |-> TRUE], TRUE)
    /\ KeepsTrashers(TRUE)

\* The start of before the expectations: unguarded, and the revision stands still.
LegacyFromPicks ==
    /\ Legacy /\ ~album.saved /\ Cardinality(Picks(media)) <= MaxEntries
    /\ Write(media, [entries |-> InTimeline(Picks(media)), saved |-> TRUE], FALSE)
    /\ KeepsTrashers(FALSE)

LegacyEmpty ==
    /\ Legacy /\ ~album.saved
    /\ Write([m \in Photos |-> Cleared(m)], [entries |-> <<>>, saved |-> TRUE], FALSE)
    /\ KeepsTrashers(FALSE)

-----------------------------------------------------------------------------
(* Picks.                                                                  *)

Room(S) ==
    Cardinality(Picks(media)) + Cardinality(SectionsOf(album.entries)) + Cardinality(S) <= MaxEntries

\* addFavoritesWithinAlbumCapacity: all the eligible ones or none.
Pick(asked) ==
    LET eligible == {m \in asked : Delivered(media[m]) /\ ~media[m].picked} IN
    /\ eligible # {} /\ Room(eligible)
    /\ Write([m \in Photos |-> IF m \in eligible
                THEN [media[m] EXCEPT !.picked = TRUE, !.version = TRUE] ELSE media[m]],
             album, FALSE)
    /\ KeepsTrashers(FALSE)

Unpick(asked) ==
    /\ Write([m \in Photos |-> IF m \in asked /\ Delivered(media[m])
                THEN [media[m] EXCEPT !.picked = FALSE, !.version = FALSE] ELSE media[m]],
             album, FALSE)
    /\ KeepsTrashers(FALSE)

-----------------------------------------------------------------------------
(* Recently deleted.                                                       *)

\* trashStored reads the row, then the album, then writes them in one batch.
TrashReads(t, m) ==
    /\ trasher[t].pc = "idle" /\ Delivered(media[m])
    /\ trasher' = [trasher EXCEPT ![t] = [IdleTrasher EXCEPT !.pc = "album", !.photo = m,
                                                             !.favorited = media[m].picked]]
    /\ UNCHANGED <<media, album, host>>

TrashReadsAlbum(t) ==
    /\ trasher[t].pc = "album"
    /\ trasher' = [trasher EXCEPT ![t].pc = "batch", ![t].rev = album.saved]
    /\ UNCHANGED <<media, album, host>>

\* ALBUM_MATERIALIZE_SQL applies to the album the request read, and to a pick.
Materializes(t) ==
    /\ trasher[t].favorited /\ trasher[t].rev
    /\ album.saved /\ PickVisible(media[trasher[t].photo])

\* Mutant of Settled: the request trusts that the order names what it trashes.
SettledSurely(m, entries) == TRUE
\* ALBUM_SLOT_SETTLED_SQL
Settled(m, entries) == ~album.saved \/ ~media[m].picked \/ m \in ToSet(entries)

Materialized == Resolved(media, album.entries)

TrashBatch(t) ==
    LET m == trasher[t].photo
        entries == IF Materializes(t) THEN Materialized ELSE album.entries
    IN
    /\ trasher[t].pc = "batch"
    /\ Write(IF Delivered(media[m]) /\ Settled(m, entries)
                THEN [media EXCEPT ![m].trashed = TRUE] ELSE media,
             [album EXCEPT !.entries = entries], Materializes(t))
    /\ trasher' = [u \in Trashers |-> IF u = t THEN IdleTrasher
                     ELSE [trasher[u] EXCEPT !.rev = @ /\ ~Materializes(t)]]

\* Its deadline may be ahead (Restore) or behind (ExpirePermanently).
Restore(m) ==
    /\ media[m].trashed
    /\ Write([media EXCEPT ![m].trashed = FALSE], album, FALSE)
    /\ KeepsTrashers(FALSE)

Placed(m) == m \in ToSet(album.entries)
\* ALBUM_MARKER_REMOVAL_SQL: the terminal photograph leaves the order.
Unmarked(m) == [album EXCEPT !.entries = SelectSeq(@, LAMBDA e : e # m)]

Advances(m) == Placed(m)
Gone(m) == [media EXCEPT ![m].state = "deleted", ![m].trashed = FALSE]

\* permanentlyDeleteTrashed, once no export holds the photograph.
ExpirePermanently(m) ==
    /\ media[m].trashed
    /\ Write(Gone(m), Unmarked(m), Advances(m)) /\ KeepsTrashers(Advances(m))

\* delete, by the guest who sent it or by a host, from Recently deleted or not.
Delete(m) ==
    /\ media[m].state = "stored"
    /\ Write(Gone(m), Unmarked(m), Advances(m)) /\ KeepsTrashers(Advances(m))

-----------------------------------------------------------------------------
HostStep(h) ==
    \/ Compose(h) \/ StartFromPicks(h) \/ StartEmpty(h)
    \/ \E entries \in Orders : Save(h, entries)

TrasherStep(t) == TrashReadsAlbum(t) \/ TrashBatch(t) \/ \E m \in Photos : TrashReads(t, m)

PhotoStep(m) ==
    \/ Restore(m) \/ ExpirePermanently(m) \/ Delete(m)

Next ==
    \/ \E h \in Hosts : HostStep(h)
    \/ \E t \in Trashers : TrasherStep(t)
    \/ \E m \in Photos : PhotoStep(m)
    \/ \E asked \in SUBSET Photos \ {{}} : Pick(asked) \/ Unpick(asked)
    \/ LegacyFromPicks \/ LegacyEmpty

Spec == Init /\ [][Next]_vars

-----------------------------------------------------------------------------
\* A photograph in Recently deleted that was picked has a place in the saved
\* order, whatever was picked, saved or trashed around it: Restore brings it
\* back to where its hosts last saw it.
RetainedPlaced ==
    album.saved => \A m \in Photos : media[m].trashed /\ media[m].picked => Placed(m)

\* Picks and saves cannot both spend the last place, and Recently deleted frees
\* none that a Restore would take back.
CapacityHeld ==
    album.saved => Cardinality(Picks(media)) + Cardinality(SectionsOf(album.entries)) <= MaxEntries

\* No order, whoever composed it and whenever, names a photograph that is gone
\* for good.
NoTerminalPlaced == \A m \in Photos : Placed(m) => media[m].state = "stored"

\* Of two photographs, or a photograph and a section, that the album shows
\* before and after a step (a marker shows too), the order changes only by a
\* host's save: picking, trashing, restoring and starting reorder nothing.
Before(s, x, y) == \E i, j \in DOMAIN s : i < j /\ s[i] = x /\ s[j] = y
Reorders ==
    \E x, y \in Photos \cup Sections :
        Before(Resolved(media, album.entries), x, y) /\ Before(Resolved(media', album'.entries), y, x)
Saves == \E h \in Hosts, entries \in Orders : Save(h, entries)
OnlySavesReorder == Reorders => Saves

\* A save replaces the very order its host composed it against, whatever hosts,
\* guests and deadlines did to it meanwhile (a legacy start excepted: it leaves
\* the revision alone).
SavesOverSeen ==
    ~Legacy => \A h \in Hosts : (\E entries \in Orders : Save(h, entries)) => host[h].doc

\* "Start empty" never clears a pick that was made since the host was asked.
ClearsOnlySeen == \A h \in Hosts : StartEmpty(h) => ~host[h].added

\* What every state keeps, and what every step respects.
OrderKept == TypeOK /\ RetainedPlaced /\ CapacityHeld /\ NoTerminalPlaced
EditsRespected == OnlySavesReorder /\ SavesOverSeen /\ ClearsOnlySeen
=============================================================================
