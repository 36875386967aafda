------------------------------- MODULE MCAlbum -------------------------------
(***************************************************************************)
(* The album on small instances, each behaviour of one of: its document in *)
(* an event from before the album, whose hosts may still use old clients;  *)
(* its document under two hosts; and its link.  Of the document the link   *)
(* only asks whether it is saved.                                          *)
(***************************************************************************)
EXTENDS AlbumShares, TLC

CONSTANT Sections

VARIABLES subject, media, order, editor, trasher

documentVars == <<media, order, editor, trasher>>

OldAlbum == INSTANCE AlbumDocument
    WITH Newest <- 3, Sections <- {}, Hosts <- {"e1"}, Trashers <- {"t1"},
         MaxEntries <- 2, Legacy <- TRUE, album <- order, host <- editor
NewAlbum == INSTANCE AlbumDocument
    WITH Newest <- 2, Hosts <- {"e1", "e2"}, Trashers <- {"t1"},
         MaxEntries <- 2, Legacy <- FALSE, album <- order, host <- editor
ASSUME OldAlbum!AlbumSizes /\ NewAlbum!AlbumSizes

AlbumInit ==
    /\ Init
    /\ \/ subject = "old album" /\ OldAlbum!Init
       \/ subject = "new album" /\ NewAlbum!Init
       \/ /\ subject = "link"
          /\ media = "rests" /\ order = "rests" /\ editor = "rests" /\ trasher = "rests"
AlbumNext ==
    \/ subject = "old album" /\ OldAlbum!Next /\ UNCHANGED <<subject, vars>>
    \/ subject = "new album" /\ NewAlbum!Next /\ UNCHANGED <<subject, vars>>
    \/ subject = "link" /\ Next /\ UNCHANGED <<subject, documentVars>>
AlbumSpec == AlbumInit /\ [][AlbumNext]_<<subject, vars, documentVars>>

Symmetry == Permutations(Links) \cup Permutations(Sessions)
                \cup Permutations(Hosts) \cup Permutations(Guests)

\* What the document keeps: the type of its state, a place for every photograph
\* that Restore may bring back and for none that is gone, within its capacity.
AlbumKept ==
    /\ subject = "old album" => OldAlbum!OrderKept
    /\ subject = "new album" => NewAlbum!OrderKept

\* What no step may do to it: reorder without a save, save over what its host has
\* not seen, clear a pick its host has not seen.
AlbumRespected ==
    [][ /\ subject = "old album" => OldAlbum!EditsRespected
        /\ subject = "new album" => NewAlbum!EditsRespected ]_<<subject, documentVars>>
=============================================================================
