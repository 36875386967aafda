---------------------------- MODULE AlbumShares ----------------------------
(***************************************************************************)
(* The link to an event's album: hosts who enable and stop it, guests who  *)
(* exchange it for a session, and the reading of the album under one.      *)
(***************************************************************************)
EXTENDS Integers, FiniteSets

CONSTANTS Links,       \* bound: the links made, one credential each
          Sessions,    \* bound: the sessions admitted
          Hosts,       \* requests that enable the link
          Guests,      \* requests of those who hold the link
          MaxActive,   \* ALBUM_SHARE_MAX_ACTIVE_SESSIONS
          NoLink, NoSession

ASSUME ShareSizes == MaxActive \in Nat \ {0} /\ NoLink \notin Links /\ NoSession \notin Sessions

VARIABLES share,    \* the row of event_album_shares
          session,  \* the rows of event_album_share_sessions
          used,     \* the links that were given out, kept by no table
          album,    \* what the hosts' document offers: saved with photographs or not
          ended,    \* the event was deleted, or its time has passed
          host, guest

vars == <<share, session, used, album, ended, host, guest>>

NoRow == [link |-> NoLink, live |-> FALSE]
IdleHost == [pc |-> "idle", made |-> NoLink, answer |-> NoLink, witness |-> {}]
IdleGuest == [pc |-> "idle", link |-> NoLink, session |-> NoSession, doomed |-> FALSE]

TypeOK ==
    /\ share \in Links \cup {NoLink} /\ used \subseteq Links
    /\ session \in [Sessions -> [link: Links \cup {NoLink}, live: BOOLEAN]]
    /\ album \in BOOLEAN /\ ended \in BOOLEAN
    /\ host \in [Hosts -> [pc: {"idle", "album", "create", "reread", "answered", "failed"},
                           made: Links \cup {NoLink}, answer: Links \cup {NoLink}, witness: SUBSET Links]]
    /\ guest \in [Guests -> [pc: {"idle", "credential", "admit", "session", "preview", "again",
                                  "shown", "refused"},
                             link: Links \cup {NoLink}, session: Sessions \cup {NoSession},
                             doomed: BOOLEAN]]
    /\ \A h \in Hosts : host[h].pc = "answered" => host[h].answer # NoLink

Init ==
    /\ share = NoLink /\ used = {} /\ album = FALSE /\ ended = FALSE
    /\ session = [s \in Sessions |-> NoRow]
    /\ host = [h \in Hosts |-> IdleHost] /\ guest = [g \in Guests |-> IdleGuest]

\* A host who waits for an answer remembers the links it could have been given.
Witnessed(link) == [h \in Hosts |->
    IF host[h].pc \in {"album", "create", "reread"}
    THEN [host[h] EXCEPT !.witness = @ \cup ({link} \ {NoLink})] ELSE host[h]]

-----------------------------------------------------------------------------
(* enable and stop                                                         *)

AlbumChanges ==
    /\ album' = ~album
    /\ UNCHANGED <<share, session, used, ended, host, guest>>

\* A link that is there is the answer; otherwise the album is read, and one is made.
Enable(h) ==
    /\ host[h].pc \in {"idle", "answered", "failed"}
    /\ host' = [host EXCEPT ![h] =
         IF share # NoLink
         THEN [IdleHost EXCEPT !.pc = "answered", !.answer = share, !.witness = {share}]
         ELSE [IdleHost EXCEPT !.pc = "album"]]
    /\ UNCHANGED <<share, session, used, album, ended, guest>>

EnableReadsAlbum(h) ==
    /\ host[h].pc = "album"
    /\ IF album THEN \E made \in Links \ (used \cup {host[k].made : k \in Hosts}) :
                         host' = [host EXCEPT ![h].pc = "create", ![h].made = made]
                ELSE host' = [host EXCEPT ![h].pc = "failed"]
    /\ UNCHANGED <<share, session, used, album, ended, guest>>

\* INSERT OR IGNORE: an event has one link.
Inserted(made) == IF share = NoLink THEN made ELSE share

EnableCreates(h) ==
    /\ host[h].pc = "create"
    /\ share' = Inserted(host[h].made) /\ used' = used \cup {share'}
    /\ host' = [Witnessed(Inserted(host[h].made)) EXCEPT ![h].pc = "reread"]
    /\ UNCHANGED <<session, album, ended, guest>>

\* Mutant of Reread: the host is given the link it made.
RereadOwn(h) == host[h].made
Reread(h) == share

\* Mutant of Outcome: a link that did not persist is not noticed.
OutcomeSure(h) == "answered"
Outcome(h) == IF Reread(h) = NoLink THEN "failed" ELSE "answered"

EnableRereads(h) ==
    /\ host[h].pc = "reread"
    /\ host' = [host EXCEPT ![h].answer = Reread(h), ![h].pc = Outcome(h)]
    /\ UNCHANGED <<share, session, used, album, ended, guest>>

\* ON DELETE CASCADE
Cascade(s) == IF session[s].link = share THEN NoRow ELSE session[s]

\* Requests begun with what the stop takes away have nothing left to be shown.
Stop ==
    /\ share # NoLink
    /\ share' = NoLink
    /\ session' = [s \in Sessions |-> Cascade(s)]
    /\ UNCHANGED <<used, album, ended, host, guest>>

EventEnds ==
    /\ ~ended /\ ended' = TRUE
    /\ UNCHANGED <<share, session, used, album, host, guest>>

-----------------------------------------------------------------------------
(* Guests: exchange, the album, a preview.                                 *)

Begins(g, pc, link, s, gone) ==
    /\ guest[g].pc \in {"idle", "shown", "refused"}
    /\ guest' = [guest EXCEPT ![g] = [pc |-> pc, link |-> link, session |-> s, doomed |-> gone]]
    /\ UNCHANGED <<share, session, used, album, ended, host>>

\* exchange begins with a link that was given out once.
Exchange(g, link) == link \in used /\ Begins(g, "credential", link, NoSession, share # link \/ ended)

ReadCredential(g) ==
    /\ guest[g].pc = "credential"
    /\ guest' = [guest EXCEPT ![g].pc = IF share = guest[g].link /\ ~ended THEN "admit" ELSE "refused"]
    /\ UNCHANGED <<share, session, used, album, ended, host>>

LiveOf(link) == {s \in Sessions : session[s].link = link /\ session[s].live}
\* admitSession
Admits(link) == share = link /\ Cardinality(LiveOf(link)) < MaxActive

Admit(g) ==
    /\ guest[g].pc = "admit"
    /\ IF Admits(guest[g].link)
       THEN \E s \in Sessions :
              /\ session[s] = NoRow /\ \A other \in Guests : guest[other].session # s
              /\ session' = [session EXCEPT ![s] = [link |-> guest[g].link, live |-> TRUE]]
              /\ guest' = [guest EXCEPT ![g].pc = "shown", ![g].session = s]
       ELSE guest' = [guest EXCEPT ![g].pc = "refused"] /\ UNCHANGED session
    /\ UNCHANGED <<share, used, album, ended, host>>

\* A session that lapsed is swept later; an identity is not given twice while it is held.
Lapse(s) ==
    /\ session[s].live
    /\ session' = [session EXCEPT ![s].live = FALSE]
    /\ UNCHANGED <<share, used, album, ended, host, guest>>

Sweep(s) ==
    /\ session[s].link # NoLink /\ ~session[s].live
    /\ session' = [session EXCEPT ![s] = NoRow]
    /\ UNCHANGED <<share, used, album, ended, host, guest>>

\* A request for the album, or for a preview, with the session's cookie.
Request(g, s, pc) ==
    session[s] # NoRow /\ Begins(g, pc, NoLink, s, ~session[s].live \/ session[s].link # share \/ ended)
View(g, s) == Request(g, s, "session")
Preview(g, s) == Request(g, s, "preview")

Reauthorized(pc) == CASE pc = "session" -> "shown" [] pc = "preview" -> "again" [] pc = "again" -> "shown"

Authorizes(row) == row.live /\ row.link = share /\ ~ended

\* authorizeSession: the session, its link and its event. A preview is made
\* between two of them.
Authorize(g) ==
    LET row == session[guest[g].session] IN
    /\ guest[g].pc \in {"session", "preview", "again"}
    /\ guest' = [guest EXCEPT ![g].pc =
         IF Authorizes(row) THEN Reauthorized(@) ELSE "refused"]
    /\ UNCHANGED <<share, session, used, album, ended, host>>

-----------------------------------------------------------------------------
HostStep(h) == Enable(h) \/ EnableReadsAlbum(h) \/ EnableCreates(h) \/ EnableRereads(h)

GuestStep(g) ==
    \/ ReadCredential(g) \/ Admit(g) \/ Authorize(g)
    \/ \E link \in Links : Exchange(g, link)
    \/ \E s \in Sessions : View(g, s) \/ Preview(g, s)

Next ==
    \/ AlbumChanges \/ Stop \/ EventEnds
    \/ \E h \in Hosts : HostStep(h)
    \/ \E g \in Guests : GuestStep(g)
    \/ \E s \in Sessions : Lapse(s) \/ Sweep(s)

Spec == Init /\ [][Next]_vars

-----------------------------------------------------------------------------
\* A session belongs to the link there is: nobody who exchanged a stopped link,
\* however late its exchange finished, holds one.
SessionsOfShare == \A s \in Sessions : session[s].link \in {NoLink, share}

\* Exchanges that race for the last place do not share it.
SessionsBounded == \A link \in Links : Cardinality(LiveOf(link)) <= MaxActive

\* A host is given a link that was the event's own while it waited, and not one
\* that lost a race to another host's.
AnswersReal == \A h \in Hosts : host[h].pc = "answered" => host[h].answer \in host[h].witness

\* A request that began after the link was stopped, its session had lapsed or
\* the event had ended shows nothing.
NothingAfterStop == \A g \in Guests : guest[g].doomed => guest[g].pc # "shown"

LinkRespected == SessionsOfShare /\ SessionsBounded /\ AnswersReal /\ NothingAfterStop
=============================================================================
