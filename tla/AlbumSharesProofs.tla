-------------------------- MODULE AlbumSharesProofs --------------------------
(***************************************************************************)
(* The album's link is well typed and keeps LinkRespected, for any number  *)
(* of links, sessions, hosts and guests.                                   *)
(*                                                                         *)
(* LinkRespected is not inductive.  A request that began too late shows    *)
(* nothing because what it holds never becomes good again: a stopped link  *)
(* is not made a second time (MadeFresh), and a session that lapsed does   *)
(* not come back to life while somebody holds it (DoomedStays).  A host is *)
(* answered with a link of its own time because a host who waits has seen  *)
(* every link there was (ShareWitnessed).                                  *)
(***************************************************************************)
EXTENDS AlbumShares, FiniteSetTheorems, TLAPS

Row == [link: Links \cup {NoLink}, live: BOOLEAN]
Enabling == [pc: {"idle", "album", "create", "reread", "answered", "failed"},
             made: Links \cup {NoLink}, answer: Links \cup {NoLink}, witness: SUBSET Links]
Visiting == [pc: {"idle", "credential", "admit", "session", "preview", "again", "shown", "refused"},
             link: Links \cup {NoLink}, session: Sessions \cup {NoSession}, doomed: BOOLEAN]
Authorizing == {"session", "preview", "again"}

\* A link that is there was given out.
ShareUsed == share # NoLink => share \in used

\* A row without a link is no row.
EmptyIsDead == \A s \in Sessions : session[s].link = NoLink => ~session[s].live

LiveFinite == \A link \in Links : IsFiniteSet(LiveOf(link))

\* A link being made is nobody's: it was never given out, and no other host makes it.
MadeFresh == \A h \in Hosts : host[h].pc = "create" =>
    /\ host[h].made \in Links \ used
    /\ \A k \in Hosts \ {h} : host[k].pc = "create" => host[k].made # host[h].made

\* A host that waits has seen the link there is.
ShareWitnessed == \A h \in Hosts :
    host[h].pc \in {"album", "create", "reread"} /\ share # NoLink => share \in host[h].witness

\* What a request holds when it began too late is not good, and will not be.
DoomedStays == \A g \in Guests :
    /\ guest[g].pc \in {"credential", "admit"} => guest[g].link \in used
    /\ guest[g].pc \in Authorizing => guest[g].session \in Sessions
    /\ guest[g].doomed =>
         /\ guest[g].pc # "admit"
         /\ guest[g].pc = "credential" => ended \/ guest[g].link # share
         /\ guest[g].pc \in Authorizing => ended \/ ~session[guest[g].session].live

SessionPart == ShareUsed /\ EmptyIsDead /\ LiveFinite /\ SessionsOfShare /\ SessionsBounded
HostPart == MadeFresh /\ ShareWitnessed /\ AnswersReal
GuestPart == DoomedStays /\ NothingAfterStop

IInv == TypeOK /\ SessionPart /\ HostPart /\ GuestPart

LEMMA InitIInv == Init => IInv
<1> SUFFICES ASSUME Init PROVE IInv
  OBVIOUS
<1> USE DEF Init, NoRow, IdleHost, IdleGuest
<1>1. TypeOK
  BY DEF TypeOK
<1>2. \A link \in Links : LiveOf(link) = {}
  BY DEF LiveOf
<1>3. IsFiniteSet({}) /\ Cardinality({}) = 0
  BY FS_EmptySet, Zenon
<1>4. \A link \in Links : IsFiniteSet(LiveOf(link)) /\ Cardinality(LiveOf(link)) = 0
  BY <1>2, <1>3, Zenon
<1>5. SessionPart
  BY <1>4, ShareSizes DEF SessionPart, ShareUsed, EmptyIsDead, LiveFinite,
     SessionsOfShare, SessionsBounded
<1>6. HostPart /\ GuestPart
  BY DEF HostPart, MadeFresh, ShareWitnessed, AnswersReal, GuestPart, DoomedStays, Authorizing,
     NothingAfterStop
<1> QED
  BY <1>1, <1>5, <1>6 DEF IInv

-----------------------------------------------------------------------------
\* The part about the sessions is kept when no row and no link changes.
LEMMA SessionsCalm ==
    ASSUME SessionPart, UNCHANGED <<share, session>>, used \subseteq used'
    PROVE  SessionPart'
BY DEF SessionPart, ShareUsed, EmptyIsDead, LiveFinite, LiveOf, SessionsOfShare, SessionsBounded

\* It is kept when rows only lose what they have.
LEMMA SessionsFade ==
    ASSUME TypeOK, SessionPart, share' \in {share, NoLink}, used' = used,
           session' \in [Sessions -> Row],
           \A s \in Sessions :
              /\ session'[s].live => session[s].live
              /\ session'[s].link \in {session[s].link, NoLink} \cap {NoLink, share'}
              /\ session'[s].link = NoLink => ~session'[s].live
    PROVE  SessionPart'
<1>1. ShareUsed' /\ EmptyIsDead' /\ SessionsOfShare'
  BY DEF SessionPart, ShareUsed, EmptyIsDead, SessionsOfShare
<1>2. ASSUME NEW link \in Links
      PROVE  IsFiniteSet(LiveOf(link)') /\ Cardinality(LiveOf(link)') <= MaxActive
  <2>1. LiveOf(link)' \subseteq LiveOf(link)
    BY ShareSizes DEF LiveOf, TypeOK, Row
  <2>2. IsFiniteSet(LiveOf(link)) /\ Cardinality(LiveOf(link)) <= MaxActive
    BY DEF SessionPart, LiveFinite, SessionsBounded
  <2>3. /\ IsFiniteSet(LiveOf(link)')
        /\ Cardinality(LiveOf(link)') \in Nat /\ Cardinality(LiveOf(link)) \in Nat
        /\ Cardinality(LiveOf(link)') <= Cardinality(LiveOf(link))
    BY <2>1, <2>2, FS_Subset, FS_CardinalityType
  <2> QED
    BY <2>2, <2>3, ShareSizes
<1> QED
  BY <1>1, <1>2 DEF SessionPart, LiveFinite, SessionsBounded

LEMMA HostsCalm == ASSUME HostPart, UNCHANGED <<share, used, host>> PROVE HostPart'
BY DEF HostPart, MadeFresh, ShareWitnessed, AnswersReal

\* The part about the guests is kept when only one of them moves, and nothing
\* that is held becomes good.
LEMMA GuestsCalm ==
    ASSUME GuestPart, guest' = guest, used \subseteq used', ended => ended',
           \A link \in used : link # share => link # share',
           \A g \in Guests, s \in Sessions :
              guest[g].session = s /\ ~session[s].live => ~session'[s].live
    PROVE  GuestPart'
<1>1. DoomedStays'
  BY DEF GuestPart, DoomedStays, Authorizing
<1> QED
  BY <1>1 DEF GuestPart, NothingAfterStop
-----------------------------------------------------------------------------
LEMMA AlbumChangesStep == IInv /\ AlbumChanges => IInv'
<1> SUFFICES ASSUME IInv, AlbumChanges PROVE IInv'
  OBVIOUS
<1> USE DEF IInv, AlbumChanges
<1>1. TypeOK'
  BY DEF TypeOK
<1>2. SessionPart'
  BY SessionsCalm
<1>3. HostPart' /\ GuestPart'
  BY HostsCalm, GuestsCalm
<1> QED
  BY <1>1, <1>2, <1>3

LEMMA EventEndsStep == IInv /\ EventEnds => IInv'
<1> SUFFICES ASSUME IInv, EventEnds PROVE IInv'
  OBVIOUS
<1> USE DEF IInv, EventEnds
<1>1. TypeOK'
  BY DEF TypeOK
<1>2. SessionPart'
  BY SessionsCalm
<1>3. HostPart' /\ GuestPart'
  BY HostsCalm, GuestsCalm
<1> QED
  BY <1>1, <1>2, <1>3

LEMMA UnchangedStep == IInv /\ UNCHANGED vars => IInv'
<1> SUFFICES ASSUME IInv, UNCHANGED vars PROVE IInv'
  OBVIOUS
<1> USE DEF IInv, vars
<1>1. TypeOK'
  BY DEF TypeOK
<1>2. SessionPart'
  BY SessionsCalm
<1>3. HostPart' /\ GuestPart'
  BY HostsCalm, GuestsCalm
<1> QED
  BY <1>1, <1>2, <1>3

-----------------------------------------------------------------------------
\* A step of one host that leaves the link alone.
LEMMA HostMoves ==
    ASSUME IInv, NEW h \in Hosts, NEW row \in Enabling,
           host' = [host EXCEPT ![h] = row], UNCHANGED <<share, session, used, album, ended, guest>>,
           row.pc = "answered" => row.answer # NoLink /\ row.answer \in row.witness,
           row.pc \in {"album", "create", "reread"} /\ share # NoLink => share \in row.witness,
           row.pc = "create" => row.made \in Links \ used /\ row.made \notin {host[k].made : k \in Hosts}
    PROVE  IInv'
<1> USE DEF IInv
<1>1. \A k \in Hosts : host'[k] = IF k = h THEN row ELSE host[k]
  BY DEF TypeOK
<1>2. host' \in [Hosts -> Enabling]
  BY DEF TypeOK, Enabling
<1>3. TypeOK'
  BY <1>1, <1>2 DEF TypeOK, Enabling
<1>4. SessionPart'
  BY SessionsCalm
<1>5. GuestPart'
  BY GuestsCalm
<1>6. MadeFresh'
  BY <1>1 DEF HostPart, MadeFresh
<1>7. ShareWitnessed' /\ AnswersReal'
  BY <1>1 DEF HostPart, ShareWitnessed, AnswersReal
<1> QED
  BY <1>3, <1>4, <1>5, <1>6, <1>7 DEF HostPart

LEMMA EnableStep == ASSUME IInv, NEW h \in Hosts, Enable(h) PROVE IInv'
<1> DEFINE row == IF share # NoLink
                  THEN [IdleHost EXCEPT !.pc = "answered", !.answer = share, !.witness = {share}]
                  ELSE [IdleHost EXCEPT !.pc = "album"]
<1>1. host' = [host EXCEPT ![h] = row] /\ UNCHANGED <<share, session, used, album, ended, guest>>
  BY DEF Enable
<1>2. /\ row \in Enabling
      /\ row.pc = "answered" => row.answer # NoLink /\ row.answer \in row.witness
      /\ row.pc \in {"album", "create", "reread"} => share = NoLink
      /\ row.pc # "create"
  BY DEF IInv, TypeOK, IdleHost, Enabling
<1> HIDE DEF row
<1> QED
  BY <1>1, <1>2, HostMoves

LEMMA EnableReadsAlbumStep == ASSUME IInv, NEW h \in Hosts, EnableReadsAlbum(h) PROVE IInv'
<1> USE DEF EnableReadsAlbum
<1>1. host[h] \in Enabling
  BY DEF IInv, TypeOK, Enabling
<1>2. share # NoLink => share \in host[h].witness
  BY DEF IInv, HostPart, ShareWitnessed
<1>3. CASE album
  <2>1. PICK made \in Links \ (used \cup {host[k].made : k \in Hosts}) :
            host' = [host EXCEPT ![h].pc = "create", ![h].made = made]
    BY <1>3
  <2> DEFINE row == [host[h] EXCEPT !.pc = "create", !.made = made]
  <2>2. row \in Enabling /\ row.pc = "create" /\ row.made = made /\ row.witness = host[h].witness
    BY <1>1 DEF Enabling
  <2>3. host' = [host EXCEPT ![h] = row]
    BY <2>1 DEF IInv, TypeOK
  <2> HIDE DEF row
  <2> QED
    BY <1>2, <2>2, <2>3, HostMoves
<1>4. CASE ~album
  <2> DEFINE row == [host[h] EXCEPT !.pc = "failed"]
  <2>1. row \in Enabling /\ row.pc = "failed"
    BY <1>1 DEF Enabling
  <2>2. host' = [host EXCEPT ![h] = row]
    BY <1>4
  <2> HIDE DEF row
  <2> QED
    BY <2>1, <2>2, HostMoves
<1> QED
  BY <1>3, <1>4 DEF IInv, TypeOK

LEMMA EnableRereadsStep == ASSUME IInv, NEW h \in Hosts, EnableRereads(h) PROVE IInv'
<1>1. host[h] \in Enabling /\ share \in Links \cup {NoLink}
  BY DEF IInv, TypeOK, Enabling
<1>2. share # NoLink => share \in host[h].witness
  BY DEF IInv, HostPart, ShareWitnessed, EnableRereads
<1> DEFINE row == [host[h] EXCEPT !.answer = share, !.pc = Outcome(h)]
<1>3. /\ row \in Enabling /\ row.pc \in {"answered", "failed"}
      /\ row.pc = "answered" => row.answer # NoLink /\ row.answer \in row.witness
  BY <1>1, <1>2 DEF Enabling, Outcome, Reread
<1>4. host' = [host EXCEPT ![h] = row] /\ UNCHANGED <<share, session, used, album, ended, guest>>
  BY DEF EnableRereads, Reread, IInv, TypeOK
<1> HIDE DEF row
<1> QED
  BY <1>3, <1>4, HostMoves

LEMMA EnableCreatesStep == ASSUME IInv, NEW h \in Hosts, EnableCreates(h) PROVE IInv'
<1> DEFINE made == host[h].made
           waiting(k) == host[k].pc \in {"album", "create", "reread"}
<1>1. made \in Links \ used /\ host[h].pc = "create"
  BY DEF EnableCreates, IInv, HostPart, MadeFresh
<1>2. /\ share' = (IF share = NoLink THEN made ELSE share)
      /\ used' = used \cup {share'} /\ UNCHANGED <<session, album, ended, guest>>
  BY DEF EnableCreates, Inserted
<1>3. share' \in Links /\ share' # NoLink /\ share' \in used' /\ share' \in {share, made}
  BY <1>1, <1>2, ShareSizes DEF IInv, TypeOK
<1>4. \A k \in Hosts :
        /\ host'[k].pc = IF k = h THEN "reread" ELSE host[k].pc
        /\ host'[k].made = host[k].made /\ host'[k].answer = host[k].answer
        /\ host'[k].witness = IF waiting(k) THEN host[k].witness \cup {share'} ELSE host[k].witness
        /\ host'[k] \in Enabling
  <2> SUFFICES ASSUME NEW k \in Hosts
               PROVE  /\ host'[k].pc = IF k = h THEN "reread" ELSE host[k].pc
                      /\ host'[k].made = host[k].made /\ host'[k].answer = host[k].answer
                      /\ host'[k].witness = IF waiting(k) THEN host[k].witness \cup {share'}
                                                          ELSE host[k].witness
                      /\ host'[k] \in Enabling
    OBVIOUS
  <2>1. host[k] \in Enabling
    BY DEF IInv, TypeOK, Enabling
  <2> DEFINE row == IF waiting(k) THEN [host[k] EXCEPT !.witness = @ \cup ({share'} \ {NoLink})]
                                  ELSE host[k]
  <2>2. /\ row \in Enabling /\ row.pc = host[k].pc /\ row.made = host[k].made
        /\ row.answer = host[k].answer
        /\ row.witness = IF waiting(k) THEN host[k].witness \cup {share'} ELSE host[k].witness
    BY <1>3, <2>1 DEF Enabling
  <2>3. host'[k] = IF k = h THEN [row EXCEPT !.pc = "reread"] ELSE row
    BY <1>2 DEF EnableCreates, Witnessed, Inserted
  <2> HIDE DEF row
  <2> QED
    BY <2>2, <2>3 DEF Enabling
<1>5. host' \in [Hosts -> Enabling]
  <2>1. DOMAIN host' = Hosts /\ host' = [k \in Hosts |-> host'[k]]
    BY DEF EnableCreates, Witnessed
  <2> QED
    BY <1>4, <2>1
<1>6. TypeOK'
  BY ZenonT(60), <1>2, <1>3, <1>4, <1>5 DEF IInv, TypeOK, Enabling
<1> HIDE DEF made
<1>7. SessionPart'
  <2>1. CASE share = NoLink
    <3>1. \A s \in Sessions : session[s].link = NoLink
      BY <2>1 DEF IInv, SessionPart, SessionsOfShare
    <3> QED
      BY <1>2, <1>3, <3>1 DEF IInv, SessionPart, ShareUsed, EmptyIsDead, LiveFinite, LiveOf,
         SessionsOfShare, SessionsBounded
  <2>2. CASE share # NoLink
    BY <1>2, <2>2, SessionsCalm DEF IInv
  <2> QED
    BY <2>1, <2>2
<1>8. HostPart'
  <2>1. \A k \in Hosts : host'[k].pc = "create" => k # h /\ host[k].pc = "create" /\ host[k].made # made
    BY <1>1, <1>4 DEF IInv, HostPart, MadeFresh, made
  <2>2. MadeFresh'
    <3>1. \A k \in Hosts : host'[k].pc = "create" => host'[k].made \in Links \ used'
      BY ZenonT(60), <1>2, <1>3, <1>4, <2>1 DEF IInv, HostPart, MadeFresh, SessionPart, ShareUsed
    <3>2. ASSUME NEW j \in Hosts, NEW k \in Hosts \ {j}, host'[j].pc = "create", host'[k].pc = "create"
          PROVE  host'[k].made # host'[j].made
      <4>1. host[j].pc = "create" /\ host[k].pc = "create"
        BY <2>1, <3>2
      <4>2. host[k].made # host[j].made
        BY <4>1 DEF IInv, HostPart, MadeFresh
      <4> QED
        BY <1>4, <4>2
    <3> QED
      BY <3>1, <3>2 DEF MadeFresh
  <2>3. ShareWitnessed'
    BY <1>1, <1>4 DEF ShareWitnessed
  <2>4. AnswersReal'
    BY <1>4 DEF IInv, HostPart, AnswersReal
  <2> QED
    BY <2>2, <2>3, <2>4 DEF HostPart
<1>9. GuestPart'
  BY <1>1, <1>2, <1>3, GuestsCalm DEF IInv
<1> QED
  BY <1>6, <1>7, <1>8, <1>9 DEF IInv

-----------------------------------------------------------------------------
\* A guest's own step, which leaves the link and the sessions alone.
LEMMA GuestMoves ==
    ASSUME IInv, NEW g \in Guests, NEW row \in Visiting,
           guest' = [guest EXCEPT ![g] = row], UNCHANGED <<share, session, used, album, ended, host>>,
           row.pc \in {"credential", "admit"} => row.link \in used,
           row.pc \in Authorizing => row.session \in Sessions,
           row.doomed =>
              /\ row.pc \notin {"admit", "shown"}
              /\ row.pc = "credential" => ended \/ row.link # share
              /\ row.pc \in Authorizing => ended \/ ~session[row.session].live
    PROVE  IInv'
<1> USE DEF IInv
<1>1. \A k \in Guests : guest'[k] = IF k = g THEN row ELSE guest[k]
  BY DEF TypeOK
<1>2. guest' \in [Guests -> Visiting]
  BY DEF TypeOK, Visiting
<1>3. TypeOK'
  BY <1>2 DEF TypeOK, Visiting
<1>4. SessionPart' /\ HostPart'
  BY SessionsCalm, HostsCalm
<1>5. DoomedStays'
  BY <1>1 DEF GuestPart, DoomedStays
<1>6. NothingAfterStop'
  BY <1>1 DEF GuestPart, NothingAfterStop
<1> QED
  BY <1>3, <1>4, <1>5, <1>6 DEF GuestPart

LEMMA ExchangeStep == ASSUME IInv, NEW g \in Guests, NEW link \in Links, Exchange(g, link) PROVE IInv'
<1> DEFINE row == [pc |-> "credential", link |-> link, session |-> NoSession,
                   doomed |-> share # link \/ ended]
<1>1. row \in Visiting /\ link \in used
  BY DEF Exchange, Visiting, IInv, TypeOK
<1>2. /\ row.pc = "credential" /\ row.link = link
      /\ row.doomed => ended \/ row.link # share
  OBVIOUS
<1>3. guest' = [guest EXCEPT ![g] = row] /\ UNCHANGED <<share, session, used, album, ended, host>>
  BY DEF Exchange, Begins
<1> HIDE DEF row
<1> QED
  BY <1>1, <1>2, <1>3, GuestMoves DEF Authorizing

LEMMA ReadCredentialStep == ASSUME IInv, NEW g \in Guests, ReadCredential(g) PROVE IInv'
<1>1. guest[g] \in Visiting
  BY DEF IInv, TypeOK, Visiting
<1> DEFINE row == [guest[g] EXCEPT !.pc = IF share = guest[g].link /\ ~ended THEN "admit" ELSE "refused"]
<1>2. /\ row \in Visiting /\ row.pc \in {"admit", "refused"} /\ row.link = guest[g].link
      /\ row.pc = "admit" => ~row.doomed
      /\ row.link \in used
  BY <1>1 DEF Visiting, ReadCredential, IInv, GuestPart, DoomedStays
<1>3. guest' = [guest EXCEPT ![g] = row] /\ UNCHANGED <<share, session, used, album, ended, host>>
  BY DEF ReadCredential
<1> HIDE DEF row
<1> QED
  BY <1>2, <1>3, GuestMoves DEF Authorizing

LEMMA RequestStep ==
    ASSUME IInv, NEW g \in Guests, NEW s \in Sessions, NEW pc \in {"session", "preview"},
           Request(g, s, pc)
    PROVE  IInv'
<1> DEFINE gone == ~session[s].live \/ session[s].link # share \/ ended
           row == [pc |-> pc, link |-> NoLink, session |-> s, doomed |-> gone]
<1>1. row \in Visiting
  BY DEF Visiting, IInv, TypeOK
<1>2. gone => ended \/ ~session[s].live
  BY DEF IInv, SessionPart, SessionsOfShare, EmptyIsDead
<1>3. row.pc = pc /\ row.session = s /\ row.doomed = gone
  OBVIOUS
<1>4. guest' = [guest EXCEPT ![g] = row] /\ UNCHANGED <<share, session, used, album, ended, host>>
  BY DEF Request, Begins
<1> HIDE DEF row, gone
<1> QED
  BY <1>1, <1>2, <1>3, <1>4, GuestMoves DEF Authorizing

LEMMA AuthorizeStep == ASSUME IInv, NEW g \in Guests, Authorize(g) PROVE IInv'
<1>1. guest[g] \in Visiting /\ guest[g].pc \in Authorizing
  BY DEF IInv, TypeOK, Visiting, Authorize, Authorizing
<1>2. guest[g].session \in Sessions /\ (guest[g].doomed => ended \/ ~session[guest[g].session].live)
  BY <1>1 DEF IInv, GuestPart, DoomedStays
<1> DEFINE ok == Authorizes(session[guest[g].session])
           row == [guest[g] EXCEPT !.pc = IF ok THEN Reauthorized(guest[g].pc) ELSE "refused"]
<1>3. ok => ~guest[g].doomed
  BY <1>2 DEF Authorizes
<1>4. /\ row \in Visiting /\ row.pc \in {"shown", "again", "refused"}
      /\ row.session = guest[g].session /\ row.doomed = guest[g].doomed
      /\ row.pc # "refused" => ok
  BY <1>1 DEF Visiting, Reauthorized, Authorizing
<1>5. guest' = [guest EXCEPT ![g] = row] /\ UNCHANGED <<share, session, used, album, ended, host>>
  BY DEF Authorize
<1> HIDE DEF row, ok
<1> QED
  BY <1>2, <1>3, <1>4, <1>5, GuestMoves DEF Authorizing

LEMMA AdmitStep == ASSUME IInv, NEW g \in Guests, Admit(g) PROVE IInv'
<1> DEFINE link == guest[g].link
<1>1. guest[g] \in Visiting /\ link \in used /\ link \in Links /\ ~guest[g].doomed
  BY DEF IInv, TypeOK, Visiting, Admit, GuestPart, DoomedStays
<1>2. CASE ~Admits(link)
  <2> DEFINE row == [guest[g] EXCEPT !.pc = "refused"]
  <2>1. row \in Visiting /\ row.pc = "refused"
    BY <1>1 DEF Visiting
  <2>2. guest' = [guest EXCEPT ![g] = row] /\ UNCHANGED <<share, session, used, album, ended, host>>
    BY <1>2 DEF Admit
  <2> HIDE DEF row
  <2> QED
    BY <2>1, <2>2, GuestMoves DEF Authorizing
<1>3. ASSUME NEW s \in Sessions, Admits(link), session[s] = NoRow,
             \A other \in Guests : guest[other].session # s,
             session' = [session EXCEPT ![s] = [link |-> link, live |-> TRUE]],
             guest' = [guest EXCEPT ![g].pc = "shown", ![g].session = s]
      PROVE  IInv'
  <2> DEFINE row == [guest[g] EXCEPT !.pc = "shown", !.session = s]
  <2>1. row \in Visiting /\ row.pc = "shown" /\ ~row.doomed
    BY <1>1 DEF Visiting
  <2>2. guest' = [guest EXCEPT ![g] = row]
    BY <1>3 DEF IInv, TypeOK
  <2> HIDE DEF row
  <2>3. UNCHANGED <<share, used, album, ended, host>>
    BY DEF Admit
  <2>4. guest' \in [Guests -> Visiting] /\ \A k \in Guests : guest'[k] = IF k = g THEN row ELSE guest[k]
    BY <2>1, <2>2 DEF IInv, TypeOK, Visiting
  <2>5. /\ session' \in [Sessions -> Row]
        /\ \A t \in Sessions : session'[t] = IF t = s THEN [link |-> link, live |-> TRUE] ELSE session[t]
    BY <1>1, <1>3 DEF IInv, TypeOK, Row
  <2>6. TypeOK'
    BY <2>3, <2>4, <2>5 DEF IInv, TypeOK, Row, Visiting
  <2>7. HostPart'
    BY <2>3, HostsCalm DEF IInv
  <2>8. DoomedStays' /\ NothingAfterStop'
    BY <1>3, <2>1, <2>3, <2>4, <2>5 DEF IInv, GuestPart, DoomedStays, NothingAfterStop, Authorizing
  <2>9. share = link
    BY <1>3 DEF Admits
  <2>10. ShareUsed' /\ EmptyIsDead' /\ SessionsOfShare'
    BY <1>1, <2>3, <2>5, <2>9, ShareSizes
    DEF IInv, SessionPart, ShareUsed, EmptyIsDead, SessionsOfShare
  <2>11. ASSUME NEW other \in Links
         PROVE  IsFiniteSet(LiveOf(other)') /\ Cardinality(LiveOf(other)') <= MaxActive
    <3>1. IsFiniteSet(LiveOf(other)) /\ Cardinality(LiveOf(other)) <= MaxActive
      BY DEF IInv, SessionPart, LiveFinite, SessionsBounded
    <3>2. CASE other # link
      <4>1. LiveOf(other)' = LiveOf(other)
        BY <1>3, <2>5, <3>2, ShareSizes DEF LiveOf, NoRow
      <4> QED
        BY <3>1, <4>1
    <3>3. CASE other = link
      <4>1. LiveOf(other)' = LiveOf(other) \cup {s} /\ s \notin LiveOf(other)
        BY <1>3, <2>5, <3>3, ShareSizes DEF LiveOf, NoRow
      <4>2. Cardinality(LiveOf(other)) < MaxActive
        BY <1>3, <3>3 DEF Admits
      <4>3. /\ IsFiniteSet(LiveOf(other)')
            /\ Cardinality(LiveOf(other)') = Cardinality(LiveOf(other)) + 1
            /\ Cardinality(LiveOf(other)) \in Nat
        BY <3>1, <4>1, FS_AddElement, FS_CardinalityType
      <4> QED
        BY <4>2, <4>3, ShareSizes
    <3> QED
      BY <3>2, <3>3
  <2> QED
    BY <2>6, <2>7, <2>8, <2>10, <2>11 DEF IInv, GuestPart, SessionPart, LiveFinite, SessionsBounded
<1> QED
  BY <1>2, <1>3 DEF Admit

-----------------------------------------------------------------------------
\* A step that only takes from the sessions, or takes the link away with them.
LEMMA SessionsLose ==
    ASSUME IInv, share' \in {share, NoLink}, UNCHANGED <<used, album, ended, host, guest>>,
           session' \in [Sessions -> Row],
           \A s \in Sessions :
              /\ session'[s].live => session[s].live
              /\ session'[s].link \in {session[s].link, NoLink} \cap {NoLink, share'}
              /\ session'[s].link = NoLink => ~session'[s].live
    PROVE  IInv'
<1> USE DEF IInv
<1>1. TypeOK'
  BY DEF TypeOK, Row
<1>2. SessionPart'
  BY SessionsFade
<1>3. HostPart'
  BY DEF HostPart, MadeFresh, ShareWitnessed, AnswersReal
<1>4. used \subseteq Links /\ \A link \in used : link # share => link # share'
  BY ShareSizes DEF TypeOK
<1>5. GuestPart'
  BY <1>4, GuestsCalm
<1> QED
  BY <1>1, <1>2, <1>3, <1>5

LEMMA StopStep == IInv /\ Stop => IInv'
<1> SUFFICES ASSUME IInv, Stop PROVE IInv'
  OBVIOUS
<1>1. \A s \in Sessions : session[s] \in Row /\ session[s].link \in {NoLink, share}
                          /\ (session[s].link = NoLink => ~session[s].live)
  BY DEF IInv, TypeOK, Row, SessionPart, SessionsOfShare, EmptyIsDead
<1>2. /\ session' \in [Sessions -> Row]
      /\ \A s \in Sessions :
           /\ session'[s].live => session[s].live
           /\ session'[s].link = NoLink
           /\ ~session'[s].live
  BY <1>1 DEF Stop, Cascade, NoRow, Row
<1> QED
  BY <1>2, SessionsLose DEF Stop

LEMMA LapseStep == ASSUME IInv, NEW s \in Sessions, Lapse(s) \/ Sweep(s) PROVE IInv'
<1>1. \A t \in Sessions : session[t] \in Row /\ session[t].link \in {NoLink, share}
                          /\ (session[t].link = NoLink => ~session[t].live)
  BY DEF IInv, TypeOK, Row, SessionPart, SessionsOfShare, EmptyIsDead
<1>2. CASE Lapse(s)
  <2>1. /\ session' \in [Sessions -> Row]
        /\ \A t \in Sessions : session'[t].link = session[t].link
                               /\ (session'[t].live => session[t].live)
    BY <1>1, <1>2 DEF Lapse, Row, IInv, TypeOK
  <2> QED
    BY <1>1, <1>2, <2>1, SessionsLose DEF Lapse
<1>3. CASE Sweep(s)
  <2>1. /\ session' \in [Sessions -> Row]
        /\ \A t \in Sessions : session'[t] = IF t = s THEN NoRow ELSE session[t]
    BY <1>1, <1>3 DEF Sweep, Row, NoRow, IInv, TypeOK
  <2> QED
    BY <1>1, <1>3, <2>1, SessionsLose DEF Sweep, NoRow
<1> QED
  BY <1>2, <1>3

LEMMA NextIInv == IInv /\ [Next]_vars => IInv'
<1> SUFFICES ASSUME IInv, [Next]_vars PROVE IInv'
  OBVIOUS
<1>1. ASSUME NEW h \in Hosts, HostStep(h) PROVE IInv'
  BY <1>1, EnableStep, EnableReadsAlbumStep, EnableCreatesStep, EnableRereadsStep DEF HostStep
<1>2. ASSUME NEW g \in Guests, GuestStep(g) PROVE IInv'
  BY <1>2, ReadCredentialStep, AdmitStep, AuthorizeStep, ExchangeStep, RequestStep
  DEF GuestStep, View, Preview
<1> QED
  BY <1>1, <1>2, AlbumChangesStep, EventEndsStep, StopStep, LapseStep, UnchangedStep DEF Next

LEMMA IInvHolds == Spec => []IInv
<1> QED
  BY InitIInv, NextIInv, PTL DEF Spec

\* Every reachable state is well typed, and a host is never answered with no link.
THEOREM ShareTyped == Spec => []TypeOK
<1>1. IInv => TypeOK
  BY DEF IInv
<1> QED
  BY <1>1, IInvHolds, PTL

\* Sessions belong to the link there is and stay within its bound, hosts are given
\* a link of their own time, and nothing is shown to a request that began after the stop.
THEOREM LinkIsRespected == Spec => []LinkRespected
<1>1. IInv => LinkRespected
  BY DEF IInv, SessionPart, HostPart, GuestPart, LinkRespected
<1> QED
  BY <1>1, IInvHolds, PTL
=============================================================================
