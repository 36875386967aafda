----------------------------- MODULE EventProofs -----------------------------
(***************************************************************************)
(* Who gets to an event, and what it is told: its printed entry, its       *)
(* management link, a host's account, the mails to its owner and the notes *)
(* of its guests keep AccessKept, MessagesKept and RequestsRespected, for  *)
(* any number of hosts, guests, requests, codes, mails and notes.          *)
(*                                                                         *)
(* Entry.  The newest grant is the last one made, since a sign-out ends    *)
(* all there are (LastStands).  So whoever adopts an entry, however long   *)
(* after his read, adopts the code on the invitations: until it is adopted *)
(* no grant is made or ended (Untouched).  And after the stop nobody is    *)
(* left who could make a grant, but the rotations it met (NobodyRotates).  *)
(*                                                                         *)
(* Link.  What a request was told when it asked must still hold when its   *)
(* statement runs.  The claim of an unowned event that nobody can make any *)
(* more stays so, since no session of a creator is made later and the      *)
(* legacy claim is not opened again (NoClaimLeft).  And a session that     *)
(* resolved when its claim was asked for either still resolves or was      *)
(* ended by the rotation that replaced its link (ClaimsUnderLink), so that *)
(* the claim, which looks at the session alone, sees the link as well.     *)
(*                                                                         *)
(* Account.  A session stands behind the password because everything that  *)
(* carries a version carries the password of that version                  *)
(* (KnowsItsVersion), and a version never comes back.  A code is guessed   *)
(* and used within its bounds because a code belongs to one place at a     *)
(* time: it is not yet drawn, on its way to the registration that asked    *)
(* for it, the live code of the registration or of the reset, or dead      *)
(* (CodesApart); and while it lives its guesses are counted by the row     *)
(* that holds it (GuessesCounted).                                         *)
(*                                                                         *)
(* Mail.  A lease pays for one mail: what was taken, what a pass is about  *)
(* to ask for, and whether the row may still be authorized under the lease *)
(* it has are together no more than the leases there were (PaidFor).       *)
(*                                                                         *)
(* Notes.  A note was inserted once at most, and is confirmed to its guest *)
(* only when it is known (ToldKnown), because every key that was ever sent *)
(* is behind the draft of its guest (AllBehind); and the numbers of the    *)
(* charges tell them apart (ChargedOnce).                                  *)
(***************************************************************************)
EXTENDS EventAccess, FiniteSetsExt, Sequences, SequenceTheorems, FiniteSetTheorems, TLAPS

-----------------------------------------------------------------------------
(* The printed entry.                                                       *)

EntryRow == [state: {"none", "open", "disabled"}, grant: Nat]
EntryAsking == [pc: {"idle", "adopting", "rotate", "reopen", "scan", "revoked", "minting"},
           grant: Nat, next: {"idle"} \cup Entry!Purposes]

Last == Len(grants)

EntryTypeOK ==
    /\ entry \in EntryRow
    /\ grants \in Seq(BOOLEAN) /\ Last > 0
    /\ rsvp \in BOOLEAN /\ uploads \in BOOLEAN /\ early \in BOOLEAN /\ started \in BOOLEAN
    /\ hostPage \in [Hosts -> EntryAsking]
    /\ scan \in [Phones -> EntryAsking]
    /\ guestSession \in [Phones -> [grant: Nat, live: BOOLEAN]]
    /\ printed \in Nat /\ cut \in 0..Last
    /\ dropped \in BOOLEAN /\ overlapped \in BOOLEAN

\* A grant that is read is one that was made.
GrantsMade ==
    /\ \A g \in Phones : guestSession[g].grant \in 0..Last
    /\ \A g \in Phones : scan[g].pc = "minting" => scan[g].grant \in 0..Last

\* Nobody is left who could make a grant.
NobodyRotates ==
    /\ \A h \in Hosts : hostPage[h].pc \notin {"rotate", "revoked"}
    /\ \A i \in 1..Last : ~grants[i]

\* An event without an entry is as it was made, its invitations name its last grant,
\* and whoever adopts it adopts that one.
Untouched ==
    /\ printed = Last /\ grants[printed]
    /\ \A h \in Hosts : hostPage[h].pc \in {"idle", "adopting"}
    /\ \A h \in Hosts : hostPage[h].pc = "adopting" => hostPage[h].grant = printed
    /\ \A g \in Phones : scan[g].pc = "adopting" => scan[g].grant = printed

LastStands == \A i \in 1..Last : grants[i] => grants[Last]
CutGone == \A i \in 1..cut : ~grants[i]
Stopped == entry.state = "disabled" => ~rsvp /\ ~uploads /\ (~overlapped => NobodyRotates)
Printed == entry.state = "open" => entry.grant = printed
Granted == entry.state = "open" /\ ~grants[Last] => dropped \/ \E h \in Hosts : hostPage[h].pc = "revoked"
NotAdopted == entry.state = "none" => Untouched

EntryInv == EntryTypeOK /\ GrantsMade /\ LastStands /\ CutGone /\ Stopped /\ Printed /\ Granted /\ NotAdopted /\ Entry!OpensAtStart

-----------------------------------------------------------------------------
(* Grants.                                                                 *)

\* The machine counts with the library's operator.
LEMMA EntryMax == \A S : Entry!Max(S) = Max(S)
BY DEF Entry!Max, Max

\* The newest grant that was not revoked is the last one, or there is none.
LEMMA NewestIs ==
    ASSUME EntryTypeOK, LastStands
    PROVE  Entry!Newest = IF grants[Last] THEN Last ELSE 0
<1> DEFINE Live == {0} \cup {i \in DOMAIN grants : grants[i]}
<1>0. DOMAIN grants = 1..Last /\ Last \in Nat \ {0}
  BY DEF EntryTypeOK, Last
<1>1. CASE grants[Last]
  <2>1. Last \in Live /\ \A i \in Live : Last >= i
    BY <1>0, <1>1
  <2>2. \A n \in Live : (\A i \in Live : n >= i) => n = Last
    BY <1>0, <2>1
  <2> HIDE DEF Live
  <2>3. Max(Live) = Last
    BY <2>1, <2>2 DEF Max
  <2> QED
    BY <1>1, <2>3, EntryMax DEF Entry!Newest, Live
<1>2. CASE ~grants[Last]
  <2>1. Live = {0}
    BY <1>0, <1>2 DEF LastStands
  <2>2. Max({0}) = 0
    BY DEF Max
  <2> QED
    BY <1>2, <2>1, <2>2, EntryMax DEF Entry!Newest
<1> QED
  BY <1>1, <1>2

\* All grants revoked, and one more.
LEMMA GrantsChange ==
    ASSUME EntryTypeOK
    PROVE  /\ grants' = [i \in DOMAIN grants |-> FALSE] =>
                grants' \in Seq(BOOLEAN) /\ Last' = Last /\ \A i \in 1..Last : ~grants'[i]
           /\ grants' = Append(grants, TRUE) =>
                /\ grants' \in Seq(BOOLEAN) /\ Last' = Last + 1 /\ grants'[Last'] = TRUE
                /\ \A i \in 1..Last : grants'[i] = grants[i]
<1>0. grants \in Seq(BOOLEAN) /\ DOMAIN grants = 1..Last /\ Last \in Nat
  BY DEF EntryTypeOK, Last
<1>1. ASSUME grants' = [i \in DOMAIN grants |-> FALSE]
      PROVE  grants' \in Seq(BOOLEAN) /\ Last' = Last /\ \A i \in 1..Last : ~grants'[i]
  <2>1. grants' \in [1..Last -> BOOLEAN]
    BY <1>0, <1>1
  <2>2. grants' \in Seq(BOOLEAN)
    BY <1>0, <2>1, SeqDef
  <2>3. DOMAIN grants' = 1..Last' /\ Last' \in Nat
    BY <2>2, LenProperties DEF Last
  <2>4. 1..Last' = 1..Last
    BY <2>1, <2>3
  <2>5. Last' = Last
    BY <1>0, <2>3, <2>4
  <2> QED
    BY <1>0, <1>1, <2>2, <2>5
<1>2. ASSUME grants' = Append(grants, TRUE)
      PROVE  /\ grants' \in Seq(BOOLEAN) /\ Last' = Last + 1 /\ grants'[Last'] = TRUE
             /\ \A i \in 1..Last : grants'[i] = grants[i]
  BY <1>0, <1>2 DEF Last
<1> QED
  BY <1>1, <1>2

-----------------------------------------------------------------------------
(* Init.                                                                   *)

LEMMA EntryStarts == Entry!Init => EntryInv
<1> SUFFICES ASSUME Entry!Init PROVE EntryInv
  OBVIOUS
<1> USE DEF Entry!Init, Entry!Idle, Entry!NoSession, Last
<1>1. grants \in Seq(BOOLEAN) /\ Last \in {1, 2} /\ grants[Last] /\ DOMAIN grants = 1..Last
  <2>1. CASE grants = <<TRUE>>
    BY <2>1
  <2>2. CASE grants = <<FALSE, TRUE>>
    BY <2>2
  <2> QED
    BY <2>1, <2>2
<1>2. /\ entry \in EntryRow /\ entry.state \in {"open", "none"} /\ entry.grant = 0
      /\ printed = (IF entry.state = "open" THEN 0 ELSE Last)
  <2>1. entry = [state |-> "open", grant |-> 0] \/ entry = [state |-> "none", grant |-> 0]
    OBVIOUS
  <2> QED
    BY <2>1 DEF EntryRow
<1>3. hostPage \in [Hosts -> EntryAsking] /\ scan \in [Phones -> EntryAsking] /\ guestSession \in [Phones -> [grant: Nat, live: BOOLEAN]]
  BY DEF EntryAsking
<1>4. EntryTypeOK
  <2>1. printed \in Nat /\ cut \in 0..Last /\ Last > 0
    <3>0. cut = 0
      OBVIOUS
    <3>1. cut = 0 /\ Last \in Nat /\ Last > 0
      <4> HIDE DEF Entry!Init
      <4> QED
        BY <1>1, <3>0
    <3>2. CASE entry.state = "open"
      BY <1>2, <3>1, <3>2
    <3>3. CASE entry.state # "open"
      BY <1>2, <3>1, <3>3
    <3> QED
      BY <3>2, <3>3
  <2>2. /\ rsvp \in BOOLEAN /\ uploads \in BOOLEAN /\ early \in BOOLEAN /\ started \in BOOLEAN
        /\ dropped \in BOOLEAN /\ overlapped \in BOOLEAN
    OBVIOUS
  <2> QED
    BY <1>1, <1>2, <1>3, <2>1, <2>2, Zenon DEF EntryTypeOK
<1>5. GrantsMade /\ LastStands /\ CutGone /\ Stopped
  <2>1. cut = 0 /\ Last \in Nat
    BY <1>1
  <2>2. GrantsMade
    BY <2>1 DEF GrantsMade
  <2>3. LastStands /\ CutGone /\ Stopped
    <3>1. LastStands /\ CutGone
      <4> HIDE DEF Entry!Init
      <4>1. grants[Len(grants)] /\ \A i \in 1..0 : FALSE
        BY <1>1
      <4> QED
        BY <2>1, <4>1 DEF LastStands, CutGone
    <3>2. Stopped
      <4>1. entry.state # "disabled"
        BY <1>2
      <4> QED
        BY <4>1 DEF Stopped
    <3> QED
      BY <3>1, <3>2
  <2> QED
    BY <2>2, <2>3
<1>6. Printed /\ Granted /\ NotAdopted /\ Entry!OpensAtStart
  BY <1>1, <1>2 DEF Printed, Granted, NotAdopted, Untouched, Entry!OpensAtStart
<1> QED
  BY <1>4, <1>5, <1>6 DEF EntryInv

-----------------------------------------------------------------------------
(* Types.                                                                  *)

LEMMA AfterReadIs ==
    ASSUME EntryTypeOK, LastStands, NEW purpose \in Entry!Purposes
    PROVE  /\ Entry!AfterRead(purpose) \in EntryAsking /\ Entry!Idle \in EntryAsking
           /\ Entry!AfterRead(purpose).pc \in {"idle", "adopting", purpose}
           /\ Entry!AfterRead(purpose).pc = "adopting" => entry.state = "none" /\ grants[Last] /\ Entry!AfterRead(purpose).grant = Last
           /\ Entry!AfterRead(purpose).pc = purpose => entry.state = "open"
<1>0. Last \in Nat \ {0} /\ Entry!Newest = IF grants[Last] THEN Last ELSE 0
  BY NewestIs DEF EntryTypeOK, Last
<1>1. Entry!Idle \in EntryAsking /\ Entry!Idle.pc = "idle"
  BY DEF Entry!Idle, EntryAsking
<1>2. CASE entry.state = "open"
  <2>1. Entry!AfterRead(purpose) = [Entry!Idle EXCEPT !.pc = purpose]
    BY <1>2 DEF Entry!AfterRead
  <2>2. [Entry!Idle EXCEPT !.pc = purpose] \in EntryAsking /\ [Entry!Idle EXCEPT !.pc = purpose].pc = purpose
    BY <1>1 DEF EntryAsking, Entry!Purposes
  <2> QED
    BY <1>1, <1>2, <2>1, <2>2 DEF Entry!Purposes
<1>3. CASE entry.state = "none" /\ Entry!Newest # 0
  <2>1. Entry!AfterRead(purpose) = [pc |-> "adopting", grant |-> Entry!Newest, next |-> purpose]
    BY <1>3 DEF Entry!AfterRead
  <2>2. Entry!AfterRead(purpose) \in EntryAsking
    BY <1>0, <2>1 DEF EntryAsking
  <2> QED
    BY <1>0, <1>1, <1>3, <2>1, <2>2 DEF Entry!Purposes
<1>4. CASE ~(entry.state = "open") /\ ~(entry.state = "none" /\ Entry!Newest # 0)
  <2>1. Entry!AfterRead(purpose) = Entry!Idle
    BY <1>4 DEF Entry!AfterRead
  <2> QED
    BY <1>1, <2>1 DEF Entry!Purposes
<1> QED
  BY <1>2, <1>3, <1>4

\* The stop, conjunct by conjunct.
LEMMA DisableIs ==
    ASSUME Entry!Disable
    PROVE  /\ entry'.state = "disabled" /\ (entry.state # "none" => entry'.grant = entry.grant)
           /\ entry.state # "disabled" /\ rsvp' = FALSE /\ uploads' = FALSE /\ cut' = Len(grants)
           /\ grants' = [i \in DOMAIN grants |-> FALSE] /\ guestSession' = Entry!SignedOutAll
           /\ UNCHANGED <<hostPage, scan, printed, dropped, early, started>>
           /\ ~overlapped' => \A h \in Hosts : hostPage[h].pc \notin {"rotate", "revoked"}
<1>1. /\ entry' = Entry!Tombstone
      /\ entry.state # "disabled" /\ rsvp' = FALSE /\ uploads' = FALSE /\ cut' = Len(grants)
      /\ grants' = [i \in DOMAIN grants |-> FALSE] /\ guestSession' = Entry!SignedOutAll
      /\ UNCHANGED <<hostPage, scan, printed, dropped, early, started>>
  BY Zenon DEF Entry!Disable
<1>2. ASSUME NEW h \in Hosts, hostPage[h].pc \in {"rotate", "revoked"}
      PROVE  overlapped'
  BY <1>2, Zenon DEF Entry!Disable
<1>3. /\ Entry!Tombstone.state = "disabled"
      /\ entry.state # "none" => Entry!Tombstone.grant = entry.grant
  BY DEF Entry!Tombstone
<1> QED
  BY <1>1, <1>2, <1>3

LEMMA EntryStepTyped == EntryTypeOK /\ LastStands /\ [Entry!Next]_Entry!vars => EntryTypeOK'
<1> SUFFICES ASSUME EntryTypeOK, LastStands, [Entry!Next]_Entry!vars PROVE EntryTypeOK'
  OBVIOUS
<1> USE DEF Entry!grantVars, Entry!intakeVars
<1>0. Entry!Idle \in EntryAsking /\ Last \in Nat \ {0}
  BY DEF Entry!Idle, EntryAsking, EntryTypeOK, Last
<1>1. ASSUME NEW h \in Hosts, Entry!HostReads(h)
      PROVE  EntryTypeOK'
  <2>1. PICK purpose \in Entry!Purposes : hostPage' = [hostPage EXCEPT ![h] = Entry!AfterRead(purpose)]
    BY <1>1 DEF Entry!HostReads
  <2>2. hostPage' \in [Hosts -> EntryAsking]
    BY <2>1, AfterReadIs DEF EntryTypeOK
  <2> QED
    BY <1>1, <2>2 DEF Entry!HostReads, EntryTypeOK, Last
<1>2. ASSUME NEW h \in Hosts, Entry!HostAdopts(h)
      PROVE  EntryTypeOK'
  <2>1. entry' \in EntryRow
    BY <1>2 DEF Entry!HostAdopts, Entry!Adopted, EntryRow, EntryTypeOK, EntryAsking
  <2>2. [Entry!Idle EXCEPT !.pc = hostPage[h].next] \in EntryAsking
    BY <1>0 DEF EntryTypeOK, EntryAsking, Entry!Purposes
  <2>3. hostPage' \in [Hosts -> EntryAsking]
    BY <1>0, <1>2, <2>2 DEF Entry!HostAdopts, EntryTypeOK
  <2> QED
    BY <1>2, <2>1, <2>3 DEF Entry!HostAdopts, EntryTypeOK, Last
<1>3. ASSUME NEW h \in Hosts, Entry!HostEnds(h)
      PROVE  EntryTypeOK'
  BY <1>0, <1>3 DEF Entry!HostEnds, EntryTypeOK, Last
<1>4. ASSUME NEW h \in Hosts, Entry!Revoke(h)
      PROVE  EntryTypeOK'
  <2>1. hostPage' \in [Hosts -> EntryAsking]
    BY <1>4 DEF Entry!Revoke, EntryTypeOK, EntryAsking
  <2>2. guestSession' \in [Phones -> [grant: Nat, live: BOOLEAN]]
    BY <1>4 DEF Entry!Revoke, Entry!SignedOutAll, EntryTypeOK
  <2>3. grants' \in Seq(BOOLEAN) /\ Last' = Last /\ cut' = Last
    BY <1>4, GrantsChange DEF Entry!Revoke, Last
  <2> QED
    BY <1>0, <1>4, <2>1, <2>2, <2>3 DEF Entry!Revoke, EntryTypeOK
<1>5. ASSUME NEW h \in Hosts, Entry!Replace(h)
      PROVE  EntryTypeOK'
  <2>1. grants' \in Seq(BOOLEAN) /\ Last' = Last + 1
    BY <1>5, GrantsChange DEF Entry!Replace
  <2> QED
    BY <1>0, <1>5, <2>1 DEF Entry!Replace, EntryTypeOK
<1>6. ASSUME NEW h \in Hosts, Entry!OpenRsvp(h) \/ Entry!ReopenUploads(h)
      PROVE  EntryTypeOK'
  <2>1. hostPage' \in [Hosts -> EntryAsking] /\ rsvp' \in BOOLEAN /\ uploads' \in BOOLEAN
    BY <1>0, <1>6 DEF Entry!OpenRsvp, Entry!ReopenUploads, EntryTypeOK, Entry!EntryOpen
  <2> QED
    BY <1>6, <2>1 DEF Entry!OpenRsvp, Entry!ReopenUploads, EntryTypeOK, Last
<1>7. CASE Entry!Disable
  <2>1. entry' \in EntryRow
    BY <1>0, <1>7 DEF Entry!Disable, Entry!Tombstone, EntryRow, EntryTypeOK, Last
  <2>2. guestSession' \in [Phones -> [grant: Nat, live: BOOLEAN]]
    BY <1>7, DisableIs DEF Entry!SignedOutAll, EntryTypeOK
  <2>3. grants' \in Seq(BOOLEAN) /\ Last' = Last /\ cut' = Last
    BY <1>7, DisableIs, GrantsChange DEF Last
  <2>4. overlapped' \in BOOLEAN
    BY <1>7 DEF Entry!Disable
  <2> QED
    <3>1. Last' > 0 /\ cut' \in 0..Last'
      BY <1>0, <2>3
    <3>2. hostPage' \in [Hosts -> EntryAsking] /\ scan' \in [Phones -> EntryAsking] /\ printed' \in Nat
      BY <1>7, DisableIs DEF EntryTypeOK
    <3>3. /\ rsvp' \in BOOLEAN /\ uploads' \in BOOLEAN /\ early' \in BOOLEAN /\ started' \in BOOLEAN
          /\ dropped' \in BOOLEAN
      BY <1>7, DisableIs DEF EntryTypeOK
    <3> QED
      BY <2>1, <2>2, <2>3, <2>4, <3>1, <3>2, <3>3, Zenon DEF EntryTypeOK
<1>8. CASE Entry!OpenEarly \/ Entry!ReturnToSchedule \/ Entry!Pause \/ Entry!StartComes
  BY <1>8 DEF Entry!OpenEarly, Entry!ReturnToSchedule, Entry!Pause, Entry!StartComes, EntryTypeOK, Last
<1>9. CASE Entry!MoveStart
  BY <1>9 DEF Entry!MoveStart, EntryTypeOK, Last, Entry!EntryOpen
<1>10. ASSUME NEW g \in Phones, Entry!ScanAdopts(g)
       PROVE  EntryTypeOK'
  <2>1. scan' \in [Phones -> EntryAsking]
    BY <1>10, AfterReadIs DEF Entry!ScanAdopts, EntryTypeOK, Entry!Purposes
  <2> QED
    BY <1>10, <2>1 DEF Entry!ScanAdopts, EntryTypeOK, Last
<1>11. ASSUME NEW g \in Phones, Entry!AdoptScanned(g)
       PROVE  EntryTypeOK'
  <2>1. entry' \in EntryRow
    BY <1>11 DEF Entry!AdoptScanned, Entry!Adopted, EntryRow, EntryTypeOK, EntryAsking
  <2> QED
    BY <1>0, <1>11, <2>1 DEF Entry!AdoptScanned, EntryTypeOK, Last
<1>12. ASSUME NEW g \in Phones, Entry!ScanReads(g)
       PROVE  EntryTypeOK'
  <2>1. scan' \in [Phones -> EntryAsking]
    BY <1>12 DEF Entry!ScanReads, EntryTypeOK, EntryAsking
  <2> QED
    BY <1>12, <2>1 DEF Entry!ScanReads, EntryTypeOK, Last
<1>13. ASSUME NEW g \in Phones, Entry!ScanFindsGrant(g)
       PROVE  EntryTypeOK'
  <2>1. Entry!Newest \in Nat
    BY <1>0, NewestIs
  <2>2. [scan[g] EXCEPT !.pc = "minting", !.grant = Entry!Newest] \in EntryAsking
    BY <2>1 DEF EntryTypeOK, EntryAsking
  <2>3. scan' = [scan EXCEPT ![g] = IF Entry!Newest = 0 THEN Entry!Idle ELSE [scan[g] EXCEPT !.pc = "minting", !.grant = Entry!Newest]]
    BY <1>13 DEF Entry!ScanFindsGrant
  <2>4. scan' \in [Phones -> EntryAsking]
    BY <1>0, <2>2, <2>3 DEF EntryTypeOK
  <2> QED
    BY <1>13, <2>4 DEF Entry!ScanFindsGrant, EntryTypeOK, Last
<1>14. ASSUME NEW g \in Phones, Entry!MintSession(g)
       PROVE  EntryTypeOK'
  <2>1. scan[g].grant \in Nat
    BY DEF EntryTypeOK, EntryAsking
  <2>2. scan' \in [Phones -> EntryAsking] /\ guestSession' \in [Phones -> [grant: Nat, live: BOOLEAN]]
    BY <1>0, <1>14, <2>1 DEF Entry!MintSession, EntryTypeOK
  <2> QED
    BY <1>14, <2>2 DEF Entry!MintSession, EntryTypeOK, Last
<1>15. ASSUME NEW g \in Phones, Entry!ScanEnds(g)
       PROVE  EntryTypeOK'
  BY <1>0, <1>15 DEF Entry!ScanEnds, EntryTypeOK, Last
<1>16. CASE UNCHANGED Entry!vars
  BY <1>16 DEF Entry!vars, EntryTypeOK, Last
<1> QED
  BY <1>1, <1>2, <1>3, <1>4, <1>5, <1>6, <1>7, <1>8, <1>9, <1>10, <1>11, <1>12, <1>13, <1>14, <1>15,
     <1>16 DEF Entry!Next
-----------------------------------------------------------------------------
(* Who changes what.                                                       *)

\* Grants are revoked all together, or made one by one.
LEMMA GrantSteps ==
    ASSUME EntryTypeOK, [Entry!Next]_Entry!vars
    PROVE  \/ UNCHANGED <<grants, cut>>
           \/ /\ \E h \in Hosts : Entry!Replace(h)
              /\ Last' = Last + 1 /\ cut' = cut /\ grants'[Last']
              /\ \A i \in 1..Last : grants'[i] = grants[i]
           \/ /\ (\E h \in Hosts : Entry!Revoke(h)) \/ Entry!Disable
              /\ Last' = Last /\ cut' = Last
              /\ \A i \in 1..Last : ~grants'[i]
<1>1. UNCHANGED <<grants, cut>> \/ (\E h \in Hosts : Entry!Revoke(h) \/ Entry!Replace(h)) \/ Entry!Disable
  BY DEF Entry!Next, Entry!vars, Entry!grantVars, Entry!intakeVars, Entry!HostReads,
     Entry!HostAdopts, Entry!HostEnds, Entry!OpenRsvp, Entry!ReopenUploads, Entry!OpenEarly,
         Entry!ReturnToSchedule, Entry!Pause, Entry!MoveStart, Entry!StartComes, Entry!ScanAdopts, Entry!AdoptScanned, Entry!ScanReads, Entry!ScanFindsGrant,
         Entry!MintSession, Entry!ScanEnds
<1>2. ASSUME NEW h \in Hosts, Entry!Replace(h)
      PROVE  Last' = Last + 1 /\ cut' = cut /\ grants'[Last'] /\ \A i \in 1..Last : grants'[i] = grants[i]
  BY <1>2, GrantsChange DEF Entry!Replace
<1>3. ASSUME (\E h \in Hosts : Entry!Revoke(h)) \/ Entry!Disable
      PROVE  Last' = Last /\ cut' = Last /\ \A i \in 1..Last : ~grants'[i]
  BY <1>3, GrantsChange DEF Entry!Revoke, Entry!Disable, Last
<1> QED
  BY <1>1, <1>2, <1>3

\* An entry is adopted once, and stopped once.
LEMMA EntrySteps ==
    ASSUME [Entry!Next]_Entry!vars
    PROVE  \/ entry' = entry /\ (overlapped' = overlapped)
           \/ Entry!Disable
           \/ /\ entry.state = "none" /\ entry'.state = "open" /\ overlapped' = overlapped
              /\ grants[entry'.grant]
              /\ \/ \E h \in Hosts : Entry!HostAdopts(h) /\ hostPage[h].grant = entry'.grant
                 \/ \E g \in Phones : Entry!AdoptScanned(g) /\ scan[g].grant = entry'.grant
<1>1. \/ UNCHANGED <<entry, overlapped>> \/ Entry!Disable
      \/ (\E h \in Hosts : Entry!HostAdopts(h)) \/ (\E g \in Phones : Entry!AdoptScanned(g))
  BY DEF Entry!Next, Entry!vars, Entry!grantVars, Entry!intakeVars, Entry!HostReads, Entry!HostEnds,
     Entry!Revoke, Entry!Replace, Entry!OpenRsvp, Entry!ReopenUploads, Entry!OpenEarly,
         Entry!ReturnToSchedule, Entry!Pause, Entry!MoveStart, Entry!StartComes, Entry!ScanAdopts, Entry!ScanReads, Entry!ScanFindsGrant,
         Entry!MintSession, Entry!ScanEnds
<1>2. ASSUME NEW token, entry' = Entry!Adopted(token)
      PROVE  \/ entry' = entry
             \/ entry.state = "none" /\ entry'.state = "open" /\ grants[token] /\ entry'.grant = token
  BY <1>2 DEF Entry!Adopted, Entry!Adopts
<1>3. ASSUME NEW h \in Hosts, Entry!HostAdopts(h)
      PROVE  /\ overlapped' = overlapped
             /\ \/ entry' = entry
                \/ /\ entry.state = "none" /\ entry'.state = "open"
                   /\ grants[hostPage[h].grant] /\ entry'.grant = hostPage[h].grant
  BY <1>2, <1>3 DEF Entry!HostAdopts
<1>4. ASSUME NEW g \in Phones, Entry!AdoptScanned(g)
      PROVE  /\ overlapped' = overlapped
             /\ \/ entry' = entry
                \/ /\ entry.state = "none" /\ entry'.state = "open"
                   /\ grants[scan[g].grant] /\ entry'.grant = scan[g].grant
  BY <1>2, <1>4 DEF Entry!AdoptScanned
<1> QED
  BY <1>1, <1>3, <1>4

\* A request rotates, reopens or adopts because the entry let it.
LEMMA HostSteps ==
    ASSUME EntryTypeOK, LastStands, [Entry!Next]_Entry!vars, NEW h \in Hosts
    PROVE  \/ hostPage'[h] = hostPage[h]
           \/ hostPage'[h].pc = "idle"
           \/ hostPage'[h].pc = "revoked" /\ hostPage[h].pc = "rotate" /\ Entry!Revoke(h)
           \/ hostPage'[h].pc \in Entry!Purposes /\ entry'.state = "open"
           \/ /\ hostPage'[h].pc = "adopting" /\ entry.state = "none" /\ entry' = entry
              /\ grants[Last] /\ hostPage'[h].grant = Last
<1> USE DEF EntryTypeOK, Entry!Idle
<1>1. ASSUME NEW k \in Hosts, Entry!HostReads(k)
      PROVE  \/ hostPage'[h] = hostPage[h]
             \/ hostPage'[h].pc = "idle"
             \/ hostPage'[h].pc \in Entry!Purposes /\ entry'.state = "open"
             \/ /\ hostPage'[h].pc = "adopting" /\ entry.state = "none" /\ entry' = entry
                /\ grants[Last] /\ hostPage'[h].grant = Last
  <2>1. PICK purpose \in Entry!Purposes : hostPage' = [hostPage EXCEPT ![k] = Entry!AfterRead(purpose)]
    BY <1>1 DEF Entry!HostReads
  <2>2. entry' = entry
    BY <1>1 DEF Entry!HostReads, Entry!grantVars
  <2>3. hostPage'[h] = hostPage[h] \/ hostPage'[h] = Entry!AfterRead(purpose)
    BY <2>1
  <2> QED
    BY <2>2, <2>3, AfterReadIs
<1>2. ASSUME NEW k \in Hosts, Entry!HostAdopts(k)
      PROVE  hostPage'[h] = hostPage[h] \/ hostPage'[h].pc = "idle" \/ (hostPage'[h].pc \in Entry!Purposes /\ entry'.state = "open")
  <2>1. hostPage[k].next \in {"idle"} \cup Entry!Purposes
    BY DEF EntryAsking
  <2> QED
    BY <1>2, <2>1 DEF Entry!HostAdopts
<1>3. ASSUME NEW k \in Hosts, Entry!Revoke(k)
      PROVE  hostPage'[h] = hostPage[h] \/ (hostPage'[h].pc = "revoked" /\ hostPage[h].pc = "rotate" /\ Entry!Revoke(h))
  <2>1. CASE k = h
    <3>1. hostPage' = [hostPage EXCEPT ![h].pc = "revoked"] /\ hostPage[h].pc = "rotate"
      BY <1>3, <2>1 DEF Entry!Revoke
    <3> QED
      BY <1>3, <2>1, <3>1 DEF EntryAsking
  <2>2. CASE k # h
    BY <1>3, <2>2 DEF Entry!Revoke
  <2> QED
    BY <2>1, <2>2
<1>4. ASSUME NEW k \in Hosts, Entry!HostEnds(k) \/ Entry!Replace(k) \/ Entry!OpenRsvp(k) \/ Entry!ReopenUploads(k)
      PROVE  hostPage'[h] = hostPage[h] \/ hostPage'[h].pc = "idle"
  <2>1. hostPage' = [hostPage EXCEPT ![k] = Entry!Idle]
    BY <1>4 DEF Entry!HostEnds, Entry!Replace, Entry!OpenRsvp, Entry!ReopenUploads
  <2> QED
    BY <2>1
<1>5. CASE hostPage' = hostPage
  BY <1>5
<1> QED
  BY <1>1, <1>2, <1>3, <1>4, <1>5
  DEF Entry!Next, Entry!vars, Entry!Disable, Entry!OpenEarly, Entry!ReturnToSchedule, Entry!Pause, Entry!MoveStart, Entry!StartComes, Entry!ScanAdopts, Entry!AdoptScanned,
      Entry!ScanReads, Entry!ScanFindsGrant, Entry!MintSession, Entry!ScanEnds

-----------------------------------------------------------------------------
(* Grants that are read were made, and those before the last cut are gone. *)

LEMMA NextGrantsMade == EntryTypeOK /\ LastStands /\ GrantsMade /\ [Entry!Next]_Entry!vars => GrantsMade'
<1> SUFFICES ASSUME EntryTypeOK, LastStands, GrantsMade, [Entry!Next]_Entry!vars PROVE GrantsMade'
  OBVIOUS
<1> USE DEF GrantsMade, Entry!Idle
<1>0. Last \in Nat \ {0} /\ Last' \in Nat /\ Last <= Last'
  BY GrantSteps DEF EntryTypeOK, Last
<1>1. CASE UNCHANGED <<guestSession, scan>>
  BY <1>0, <1>1
<1>2. ASSUME NEW h \in Hosts, Entry!Revoke(h)
      PROVE  GrantsMade'
  BY <1>0, <1>2 DEF Entry!Revoke, Entry!SignedOutAll, EntryTypeOK
<1>3. CASE Entry!Disable
  BY <1>0, <1>3, DisableIs DEF Entry!SignedOutAll, EntryTypeOK
<1>4. ASSUME NEW g \in Phones, Entry!ScanAdopts(g)
      PROVE  GrantsMade'
  BY <1>0, <1>4, AfterReadIs DEF Entry!ScanAdopts, EntryTypeOK, Entry!Purposes
<1>5. ASSUME NEW g \in Phones, Entry!ScanFindsGrant(g)
      PROVE  GrantsMade'
  <2>1. Entry!Newest \in 0..Last
    BY <1>0, NewestIs
  <2>2. /\ guestSession' = guestSession
        /\ \A f \in Phones \ {g} : scan'[f] = scan[f]
        /\ scan'[g].pc = "minting" => scan'[g].grant = Entry!Newest
    BY <1>5 DEF Entry!ScanFindsGrant, EntryTypeOK, EntryAsking
  <2> QED
    BY <1>0, <2>1, <2>2
<1>6. ASSUME NEW g \in Phones, Entry!MintSession(g)
      PROVE  GrantsMade'
  <2>1. scan[g].grant \in 0..Last /\ scan'[g].pc = "idle"
    BY <1>6 DEF Entry!MintSession, EntryTypeOK
  <2>2. \A f \in Phones \ {g} : scan'[f] = scan[f] /\ guestSession'[f] = guestSession[f]
    BY <1>6 DEF Entry!MintSession, EntryTypeOK
  <2>3. guestSession'[g].grant = scan[g].grant
    BY <1>6 DEF Entry!MintSession, EntryTypeOK
  <2> QED
    BY <1>0, <2>1, <2>2, <2>3
<1>7. ASSUME NEW g \in Phones, Entry!AdoptScanned(g) \/ Entry!ScanReads(g) \/ Entry!ScanEnds(g)
      PROVE  GrantsMade'
  <2>1. guestSession' = guestSession /\ \A f \in Phones : scan'[f] = scan[f] \/ scan'[f].pc \in {"idle", "scan"}
    <3>1. CASE Entry!AdoptScanned(g) \/ Entry!ScanEnds(g)
      <4>1. guestSession' = guestSession /\ scan' = [scan EXCEPT ![g] = Entry!Idle]
        BY <3>1 DEF Entry!AdoptScanned, Entry!ScanEnds
      <4> QED
        BY <4>1 DEF EntryTypeOK
    <3>2. CASE Entry!ScanReads(g)
      BY <3>2 DEF Entry!ScanReads, EntryTypeOK, EntryAsking
    <3> QED
      BY <1>7, <3>1, <3>2
  <2> QED
    BY <1>0, <2>1
<1> QED
  BY <1>1, <1>2, <1>3, <1>4, <1>5, <1>6, <1>7
  DEF Entry!Next, Entry!vars, Entry!HostReads, Entry!HostAdopts, Entry!HostEnds, Entry!Replace, Entry!OpenRsvp, Entry!ReopenUploads, Entry!OpenEarly,
      Entry!ReturnToSchedule, Entry!Pause, Entry!MoveStart, Entry!StartComes

LEMMA NextLastStands == EntryTypeOK /\ LastStands /\ [Entry!Next]_Entry!vars => LastStands'
<1> SUFFICES ASSUME EntryTypeOK, LastStands, [Entry!Next]_Entry!vars PROVE LastStands'
  OBVIOUS
<1>1. Last \in Nat \ {0}
  BY DEF EntryTypeOK, Last
<1>2. CASE UNCHANGED <<grants, cut>>
  BY <1>2 DEF LastStands, Last
<1> QED
  BY <1>1, <1>2, GrantSteps DEF LastStands

LEMMA NextCutGone == EntryTypeOK /\ CutGone /\ [Entry!Next]_Entry!vars => CutGone'
<1> SUFFICES ASSUME EntryTypeOK, CutGone, [Entry!Next]_Entry!vars PROVE CutGone'
  OBVIOUS
<1>1. Last \in Nat \ {0} /\ cut \in 0..Last
  BY DEF EntryTypeOK, Last
<1> QED
  BY <1>1, GrantSteps DEF CutGone

-----------------------------------------------------------------------------
(* The stop.                                                               *)

LEMMA NextStopped == EntryTypeOK /\ LastStands /\ Stopped /\ [Entry!Next]_Entry!vars => Stopped'
<1> SUFFICES ASSUME EntryTypeOK, LastStands, Stopped, [Entry!Next]_Entry!vars, entry'.state = "disabled"
             PROVE  ~rsvp' /\ ~uploads' /\ (~overlapped' => NobodyRotates')
  BY DEF Stopped
<1>0. Last \in Nat \ {0}
  BY DEF EntryTypeOK, Last
<1>1. CASE Entry!Disable
  <2>1. ~rsvp' /\ ~uploads' /\ hostPage' = hostPage
    BY <1>1 DEF Entry!Disable
  <2>2. ~overlapped' => \A h \in Hosts : hostPage'[h].pc \notin {"rotate", "revoked"}
    BY <1>1, <2>1 DEF Entry!Disable
  <2>3. \A i \in 1..Last' : ~grants'[i]
    BY <1>1, GrantsChange DEF Entry!Disable
  <2> QED
    BY <2>1, <2>2, <2>3 DEF NobodyRotates
<1>2. CASE ~Entry!Disable
  <2>1. entry' = entry /\ overlapped' = overlapped
    BY <1>2, EntrySteps
  <2>2. ~rsvp' /\ ~uploads'
    <3>1. ~rsvp /\ ~uploads /\ Entry!EntryOpen = FALSE /\ rsvp = FALSE
      BY <2>1 DEF Stopped, Entry!EntryOpen, EntryTypeOK
    <3>2. CASE Entry!MoveStart
      <4>1. PICK future \in BOOLEAN :
              uploads' = (uploads \/ (~uploads /\ future /\ Entry!EntryOpen)) /\ rsvp' \in {rsvp, FALSE}
        BY <3>2, Zenon DEF Entry!MoveStart
      <4>2. ~rsvp'
        BY <3>1, <4>1
      <4> QED
        BY <3>1, <4>1, <4>2, Zenon
    <3>3. ASSUME NEW h \in Hosts, Entry!OpenRsvp(h)
          PROVE  ~rsvp' /\ ~uploads'
      BY <3>1, <3>3, Zenon DEF Entry!OpenRsvp
    <3>4. ASSUME NEW h \in Hosts, Entry!ReopenUploads(h)
          PROVE  ~rsvp' /\ ~uploads'
      BY <3>1, <3>4, Zenon DEF Entry!ReopenUploads
    <3>5. CASE Entry!Pause
      BY <3>1, <3>5 DEF Entry!Pause
    <3>6. CASE UNCHANGED <<rsvp, uploads>>
      BY <3>1, <3>6
    <3> QED
      BY <1>2, <3>2, <3>3, <3>4, <3>5, <3>6
      DEF Entry!Next, Entry!vars, Entry!grantVars, Entry!intakeVars, Entry!HostReads, Entry!HostAdopts, Entry!HostEnds, Entry!Revoke, Entry!Replace, Entry!OpenRsvp, Entry!ReopenUploads,
          Entry!OpenEarly, Entry!ReturnToSchedule, Entry!Pause, Entry!MoveStart, Entry!StartComes, Entry!ScanAdopts, Entry!AdoptScanned, Entry!ScanReads,
          Entry!ScanFindsGrant, Entry!MintSession, Entry!ScanEnds
  <2>3. ASSUME ~overlapped
        PROVE  NobodyRotates'
    <3>1. NobodyRotates
      BY <2>1, <2>3 DEF Stopped
    <3>2. \A h \in Hosts : hostPage'[h].pc \notin {"rotate", "revoked"}
      BY <2>1, <3>1, HostSteps DEF NobodyRotates
    <3>3. UNCHANGED <<grants, cut>>
      BY <1>2, <3>1, GrantSteps DEF NobodyRotates, Entry!Revoke, Entry!Replace
    <3> QED
      BY <3>1, <3>2, <3>3 DEF NobodyRotates, Last
  <2> QED
    BY <2>1, <2>2, <2>3
<1> QED
  BY <1>1, <1>2

-----------------------------------------------------------------------------
(* The printed code.                                                       *)

LEMMA PrintedStays == [Entry!Next]_Entry!vars => printed' = printed
BY DEF Entry!Next, Entry!vars, Entry!grantVars, Entry!intakeVars, Entry!HostReads, Entry!HostAdopts,
   Entry!HostEnds, Entry!Revoke, Entry!Replace, Entry!OpenRsvp, Entry!ReopenUploads, Entry!Disable,
       Entry!OpenEarly, Entry!ReturnToSchedule, Entry!Pause, Entry!MoveStart, Entry!StartComes, Entry!ScanAdopts, Entry!AdoptScanned, Entry!ScanReads,
       Entry!ScanFindsGrant, Entry!MintSession, Entry!ScanEnds

LEMMA NextPrinted == Printed /\ NotAdopted /\ [Entry!Next]_Entry!vars => Printed'
<1> SUFFICES ASSUME Printed, NotAdopted, [Entry!Next]_Entry!vars, entry'.state = "open" PROVE entry'.grant = printed'
  BY DEF Printed
<1>1. CASE entry' = entry
  BY <1>1, PrintedStays DEF Printed
<1>2. CASE Entry!Disable
  BY <1>2, DisableIs
<1>3. CASE entry.state = "none"
  BY <1>1, <1>2, <1>3, EntrySteps, PrintedStays DEF NotAdopted, Untouched, Entry!HostAdopts,
     Entry!AdoptScanned
<1> QED
  BY <1>1, <1>2, <1>3, EntrySteps

LEMMA NextNotAdopted == EntryTypeOK /\ LastStands /\ NotAdopted /\ [Entry!Next]_Entry!vars => NotAdopted'
<1> SUFFICES ASSUME EntryTypeOK, LastStands, NotAdopted, [Entry!Next]_Entry!vars, entry'.state = "none" PROVE Untouched'
  BY DEF NotAdopted
<1>1. ~Entry!Disable
  BY DisableIs
<1>2. entry' = entry /\ Untouched
  BY <1>1, EntrySteps DEF NotAdopted
<1>3. UNCHANGED <<grants, cut>> /\ printed' = printed
  BY <1>1, <1>2, GrantSteps, PrintedStays DEF Untouched, Entry!Revoke, Entry!Replace
<1>4. \A h \in Hosts : /\ hostPage'[h].pc \in {"idle", "adopting"}
                       /\ hostPage'[h].pc = "adopting" => hostPage'[h].grant = printed
  BY <1>2, HostSteps DEF Untouched
<1>5. ASSUME NEW g \in Phones, scan'[g].pc = "adopting"
      PROVE  scan'[g].grant = printed
  <2>1. CASE scan'[g] = scan[g]
    BY <1>2, <1>5, <2>1 DEF Untouched
  <2>2. CASE Entry!ScanAdopts(g)
    <3>1. scan'[g] = Entry!AfterRead("scan")
      BY <2>2 DEF Entry!ScanAdopts, EntryTypeOK
    <3> QED
      BY <1>2, <1>5, <3>1, AfterReadIs DEF Untouched, Entry!Purposes
  <2>3. \/ scan'[g] = scan[g] \/ Entry!ScanAdopts(g) \/ scan'[g].pc \in {"idle", "scan", "minting"}
    <3>1. ASSUME NEW f \in Phones, Entry!ScanAdopts(f)
          PROVE  scan'[g] = scan[g] \/ Entry!ScanAdopts(g)
      BY <3>1 DEF Entry!ScanAdopts, EntryTypeOK
    <3>2. ASSUME NEW f \in Phones, Entry!AdoptScanned(f) \/ Entry!MintSession(f) \/ Entry!ScanEnds(f)
          PROVE  scan'[g] = scan[g] \/ scan'[g].pc = "idle"
      BY <3>2 DEF Entry!AdoptScanned, Entry!MintSession, Entry!ScanEnds, EntryTypeOK, Entry!Idle
    <3>3. ASSUME NEW f \in Phones, Entry!ScanReads(f)
          PROVE  scan'[g] = scan[g] \/ scan'[g].pc = "scan"
      BY <3>3 DEF Entry!ScanReads, EntryTypeOK
    <3>4. ASSUME NEW f \in Phones, Entry!ScanFindsGrant(f)
          PROVE  scan'[g] = scan[g] \/ scan'[g].pc \in {"idle", "minting"}
      BY <3>4 DEF Entry!ScanFindsGrant, EntryTypeOK, EntryAsking, Entry!Idle
    <3>5. CASE scan' = scan
      BY <3>5
    <3> QED
      BY <3>1, <3>2, <3>3, <3>4, <3>5
      DEF Entry!Next, Entry!vars, Entry!HostReads, Entry!HostAdopts, Entry!HostEnds, Entry!Revoke, Entry!Replace, Entry!OpenRsvp, Entry!ReopenUploads, Entry!Disable,
          Entry!OpenEarly, Entry!ReturnToSchedule, Entry!Pause, Entry!MoveStart, Entry!StartComes
  <2> QED
    BY <1>5, <2>1, <2>2, <2>3
<1> QED
  BY <1>2, <1>3, <1>4, <1>5 DEF Untouched, Last

LEMMA NextGranted == EntryTypeOK /\ LastStands /\ Granted /\ NotAdopted /\ [Entry!Next]_Entry!vars => Granted'
<1> SUFFICES ASSUME EntryTypeOK, LastStands, Granted, NotAdopted, [Entry!Next]_Entry!vars, entry'.state = "open", ~grants'[Last']
             PROVE  dropped' \/ \E h \in Hosts : hostPage'[h].pc = "revoked"
  BY DEF Granted
<1>1. ~Entry!Disable
  BY DisableIs
<1>2. ASSUME NEW h \in Hosts, Entry!Revoke(h)
      PROVE  hostPage'[h].pc = "revoked"
  BY <1>2 DEF Entry!Revoke, EntryTypeOK, EntryAsking
<1>3. CASE UNCHANGED <<grants, cut>>
  <2>1. ~grants[Last]
    BY <1>3 DEF Last
  <2>2. entry.state = "open"
    BY <1>1, <2>1, EntrySteps DEF NotAdopted, Untouched
  <2>3. dropped \/ \E h \in Hosts : hostPage[h].pc = "revoked"
    BY <2>1, <2>2 DEF Granted
  <2>4. dropped => dropped'
    BY <1>1, <1>2 DEF Entry!Next, Entry!vars, Entry!grantVars, Entry!intakeVars, Entry!HostReads,
       Entry!HostAdopts, Entry!HostEnds, Entry!Revoke, Entry!Replace, Entry!OpenRsvp,
       Entry!ReopenUploads, Entry!OpenEarly, Entry!ReturnToSchedule, Entry!Pause, Entry!MoveStart, Entry!StartComes, Entry!ScanAdopts, Entry!AdoptScanned, Entry!ScanReads,
       Entry!ScanFindsGrant, Entry!MintSession, Entry!ScanEnds
  <2>5. ASSUME NEW h \in Hosts, hostPage[h].pc = "revoked", hostPage'[h].pc # "revoked"
        PROVE  dropped'
    <3>1. Entry!HostEnds(h) \/ Entry!Replace(h)
      <4>1. ASSUME NEW k \in Hosts, k # h, Entry!HostReads(k) \/ Entry!HostAdopts(k) \/ Entry!HostEnds(k) \/ Entry!Revoke(k) \/ Entry!Replace(k)
                       \/ Entry!OpenRsvp(k) \/ Entry!ReopenUploads(k)
            PROVE  FALSE
        <5>1. hostPage'[h] = hostPage[h]
          BY <4>1 DEF Entry!HostReads, Entry!HostAdopts, Entry!HostEnds, Entry!Revoke, Entry!Replace,
             Entry!OpenRsvp, Entry!ReopenUploads, EntryTypeOK
        <5> QED
          BY <2>5, <5>1
      <4>2. ~(Entry!HostReads(h) \/ Entry!HostAdopts(h) \/ Entry!Revoke(h) \/ Entry!OpenRsvp(h) \/ Entry!ReopenUploads(h))
        BY <2>5 DEF Entry!HostReads, Entry!HostAdopts, Entry!Revoke, Entry!OpenRsvp, Entry!ReopenUploads
      <4>3. hostPage' # hostPage
        BY <2>5
      <4> QED
        BY <4>1, <4>2, <4>3
        DEF Entry!Next, Entry!vars, Entry!Disable, Entry!OpenEarly, Entry!ReturnToSchedule, Entry!Pause, Entry!MoveStart, Entry!StartComes, Entry!ScanAdopts, Entry!AdoptScanned,
            Entry!ScanReads, Entry!ScanFindsGrant, Entry!MintSession, Entry!ScanEnds
    <3>2. ~Entry!Replace(h)
      BY <1>3, GrantsChange DEF Entry!Replace, EntryTypeOK, Last
    <3> QED
      BY <2>5, <3>1, <3>2 DEF Entry!HostEnds
  <2> QED
    BY <2>3, <2>4, <2>5
<1> QED
  BY <1>1, <1>2, <1>3, GrantSteps

\* Before the start nothing pauses the uploads of an event that has its entry.
LEMMA NextOpens == NotAdopted /\ EntryTypeOK /\ Entry!OpensAtStart /\ [Entry!Next]_Entry!vars => Entry!OpensAtStart'
<1> SUFFICES ASSUME NotAdopted, EntryTypeOK, Entry!OpensAtStart, [Entry!Next]_Entry!vars, printed' = 0, entry'.state = "open", ~started'
             PROVE  uploads'
  BY DEF Entry!OpensAtStart
<1>1. ~Entry!Disable
  BY DisableIs
<1>2. printed = 0 /\ entry.state = "open"
  <2>1. entry.state = "none" => printed # 0
    BY DEF NotAdopted, Untouched, EntryTypeOK
  <2> QED
    BY <1>1, <2>1, PrintedStays, EntrySteps
<1>3. CASE Entry!MoveStart
  BY <1>2, <1>3 DEF Entry!MoveStart, Entry!EntryOpen, EntryTypeOK
<1>4. CASE ~Entry!MoveStart
  <2>1. (~started' => ~started) /\ (uploads /\ ~started => uploads')
    <3>1. CASE Entry!Pause \/ Entry!StartComes
      BY <3>1 DEF Entry!Pause, Entry!StartComes
    <3>2. ASSUME NEW h \in Hosts, Entry!ReopenUploads(h)
          PROVE  started' = started /\ (uploads => uploads')
      BY <3>2 DEF Entry!ReopenUploads
    <3>3. CASE UNCHANGED <<started, uploads>>
      BY <3>3
    <3> QED
      BY <1>1, <1>4, <3>1, <3>2, <3>3
      DEF Entry!Next, Entry!vars, Entry!grantVars, Entry!intakeVars, Entry!HostReads, Entry!HostAdopts, Entry!HostEnds, Entry!Revoke, Entry!Replace, Entry!OpenRsvp,
          Entry!OpenEarly, Entry!ReturnToSchedule, Entry!ScanAdopts, Entry!AdoptScanned, Entry!ScanReads, Entry!ScanFindsGrant, Entry!MintSession, Entry!ScanEnds
  <2> QED
    BY <1>2, <2>1 DEF Entry!OpensAtStart
<1> QED
  BY <1>3, <1>4

LEMMA EntryStays == EntryInv /\ [Entry!Next]_Entry!vars => EntryInv'
BY EntryStepTyped, NextGrantsMade, NextLastStands, NextCutGone, NextStopped, NextPrinted,
   NextNotAdopted, NextGranted, NextOpens
DEF EntryInv

-----------------------------------------------------------------------------
(* Theorems.                                                               *)

LEMMA EntryInvariant == Entry!Spec => []EntryInv
BY EntryStarts, EntryStays, PTL DEF Entry!Spec

\* The entry, its grants, and the requests and scans under way are well typed, for any
\* hosts, phones and grants.
THEOREM EntryTyped == Entry!Spec => []EntryTypeOK
<1>1. EntryInv => EntryTypeOK
  BY DEF EntryInv
<1> QED
  BY <1>1, EntryInvariant, PTL

LEMMA EntryIsKeptNow == EntryInv => Entry!EntryKept
<1> SUFFICES ASSUME EntryInv PROVE Entry!EntryKept
  OBVIOUS
<1> USE DEF EntryInv
<1>0. /\ Last \in Nat \ {0} /\ cut \in 0..Last
      /\ \A g \in Phones : guestSession[g].grant \in 0..Last
      /\ Entry!Newest = IF grants[Last] THEN Last ELSE 0
  BY NewestIs DEF EntryTypeOK, Last, GrantsMade
<1>1. Entry!StopIsComplete
  BY <1>0 DEF Entry!StopIsComplete, Stopped, NobodyRotates, Entry!Resolves
<1>2. Entry!SignedOut
  BY <1>0 DEF Entry!SignedOut, CutGone, Entry!Resolves
<1>3. Entry!PrintedCodeWorks
  BY <1>0 DEF Entry!PrintedCodeWorks, Printed, Granted, NotAdopted, Untouched
<1> QED
  BY <1>1, <1>2, <1>3 DEF Entry!EntryKept

\* However rotations, stops, adoptions and scans interleave: the stop is complete, a
\* phone signed out is out, the code on the invitations keeps working, and an event
\* opens at its start.
THEOREM EntryIsKept == Entry!Spec => []Entry!EntryKept
BY EntryInvariant, EntryIsKeptNow, PTL

LEMMA StepRespectsEntry == [Entry!Next]_Entry!vars => Entry!RespectsEntry
<1> SUFFICES ASSUME [Entry!Next]_Entry!vars PROVE Entry!RespectsEntry
  OBVIOUS
<1>1. CASE Entry!Disable
  BY <1>1, DisableIs DEF Entry!RespectsEntry
<1>2. CASE ~Entry!Disable
  BY <1>2, EntrySteps DEF Entry!RespectsEntry
<1> QED
  BY <1>1, <1>2

\* An entry never becomes another code, and never stands again once stopped.
THEOREM EntryIsRespected == Entry!Spec => Entry!EntryRespected
BY StepRespectsEntry, PTL DEF Entry!Spec, Entry!EntryRespected

-----------------------------------------------------------------------------
(* The management link.                                                     *)

LinkAsking == [pc: {"idle", "minting", "claiming", "page", "asked", "rotating"},
           revision: Nat, token: Nat, account: Accounts \cup {NoAccount}]

LinkTypeOK ==
    /\ link \in Nat \ {Link!Unlinked}
    /\ owner \in Accounts \cup {NoAccount} /\ cohost \in Accounts \cup {NoAccount}
    /\ claimOpen \in BOOLEAN
    /\ browserSession \in [Browsers -> [token: Nat, creator: BOOLEAN, live: BOOLEAN]]
    /\ browserRequest \in [Browsers -> LinkAsking]
    /\ actor \in [Accounts -> Nat]

\* A browser whose claim is under way holds a session of the link that stands, or none.
ClaimsUnderLink ==
    \A b \in Browsers : browserRequest[b].pc = "claiming" /\ browserSession[b].live => browserSession[b].token = link

\* A rotation that was let through found nobody who could still claim, or an owner.
NoClaimLeft ==
    \A b \in Browsers :
        browserRequest[b].pc \in {"asked", "rotating"} /\ owner = NoAccount => ~Link!ClaimPossible

LinkInv == LinkTypeOK /\ Link!LinkKept /\ ClaimsUnderLink /\ NoClaimLeft

LEMMA LinkStarts == Link!Init => LinkInv
<1> SUFFICES ASSUME Link!Init PROVE LinkInv
  OBVIOUS
<1> USE DEF Link!Init, Link!Idle, Link!NoSession, Link!Unlinked
<1>1. browserSession \in [Browsers -> [token: Nat, creator: BOOLEAN, live: BOOLEAN]]
  <2>1. PICK b \in Browsers, creator \in BOOLEAN :
          browserSession = [c \in Browsers |->
                        IF c = b THEN [token |-> 1, creator |-> creator /\ ~claimOpen, live |-> TRUE] ELSE Link!NoSession]
    BY Zenon
  <2>2. /\ [token |-> 1, creator |-> creator /\ ~claimOpen, live |-> TRUE] \in [token: Nat, creator: BOOLEAN, live: BOOLEAN]
        /\ Link!NoSession \in [token: Nat, creator: BOOLEAN, live: BOOLEAN]
    OBVIOUS
  <2> QED
    BY <2>1, <2>2, Zenon
<1>2. LinkTypeOK
  <2>1. claimOpen \in BOOLEAN
    <3>1. claimOpen \in (IF owner = NoAccount THEN BOOLEAN ELSE {FALSE})
      OBVIOUS
    <3> QED
      BY <3>1, Zenon
  <2>2. browserRequest \in [Browsers -> LinkAsking]
    BY DEF LinkAsking
  <2> QED
    BY <1>1, <2>1, <2>2 DEF LinkTypeOK
<1>3. Link!LinkKept /\ ClaimsUnderLink /\ NoClaimLeft
  BY DEF Link!LinkKept, ClaimsUnderLink, NoClaimLeft
<1> QED
  BY <1>2, <1>3 DEF LinkInv

-----------------------------------------------------------------------------
(* Every step keeps the types.                                             *)

LEMMA LinkStepTyped == LinkTypeOK /\ [Link!Next]_Link!vars => LinkTypeOK'
<1> SUFFICES ASSUME LinkTypeOK, [Link!Next]_Link!vars PROVE LinkTypeOK'
  OBVIOUS
<1> USE DEF LinkTypeOK, LinkAsking, Link!Idle, Link!Unlinked
<1>1. ASSUME NEW b \in Browsers, Link!OpenLink(b) \/ Link!MintSession(b) \/ Link!SessionExpires(b) \/ Link!RequestEnds(b)
      PROVE  LinkTypeOK'
  <2>1. CASE Link!OpenLink(b)
    BY <2>1 DEF Link!OpenLink
  <2>2. CASE Link!MintSession(b)
    <3>1. browserRequest[b].token \in Nat
      OBVIOUS
    <3> QED
      BY <2>2, <3>1 DEF Link!MintSession
  <2>3. CASE Link!SessionExpires(b)
    BY <2>3 DEF Link!SessionExpires
  <2>4. CASE Link!RequestEnds(b)
    BY <2>4 DEF Link!RequestEnds
  <2> QED
    BY <1>1, <2>1, <2>2, <2>3, <2>4
<1>2. ASSUME NEW b \in Browsers, NEW a \in Accounts, Link!AskToClaim(b, a) \/ Link!LoadPage(b, a)
      PROVE  LinkTypeOK'
  <2>1. CASE Link!AskToClaim(b, a)
    BY <2>1 DEF Link!AskToClaim
  <2>2. CASE Link!LoadPage(b, a)
    BY <2>2 DEF Link!LoadPage
  <2> QED
    BY <1>2, <2>1, <2>2
<1>3. ASSUME NEW b \in Browsers, Link!Claim(b)
      PROVE  LinkTypeOK'
  BY <1>3 DEF Link!Claim
<1>4. ASSUME NEW b \in Browsers, Link!AskToRotate(b) \/ Link!ReadPredecessor(b)
      PROVE  LinkTypeOK'
  <2>1. CASE Link!AskToRotate(b)
    BY <2>1 DEF Link!AskToRotate
  <2>2. CASE Link!ReadPredecessor(b)
    <3>1. browserRequest' \in [Browsers -> LinkAsking]
      BY <2>2 DEF Link!ReadPredecessor
    <3> QED
      BY <2>2, <3>1 DEF Link!ReadPredecessor
  <2> QED
    BY <1>4, <2>1, <2>2
<1>5. ASSUME NEW b \in Browsers, Link!Rotate(b)
      PROVE  LinkTypeOK'
  <2>1. browserRequest' \in [Browsers -> LinkAsking] /\ owner' = owner /\ cohost' = cohost /\ claimOpen' = claimOpen
    BY <1>5 DEF Link!Rotate
  <2>2. CASE Link!Wins(b)
    <3>1. link' = link + 1 /\ link' \in Nat \ {0}
      BY <1>5, <2>2 DEF Link!Rotate
    <3>2. browserSession' \in [Browsers -> [token: Nat, creator: BOOLEAN, live: BOOLEAN]]
      <4>1. browserSession' = [c \in Browsers |->
                          IF browserSession[c].token = link THEN [browserSession[c] EXCEPT !.live = FALSE] ELSE browserSession[c]]
        BY <1>5, <2>2 DEF Link!Rotate
      <4> QED
        BY <4>1
    <3>3. actor' \in [Accounts -> Nat]
      BY <1>5, <2>2, <3>1 DEF Link!Rotate
    <3> QED
      BY <2>1, <3>1, <3>2, <3>3
  <2>3. CASE ~Link!Wins(b)
    BY <1>5, <2>1, <2>3 DEF Link!Rotate
  <2> QED
    BY <2>2, <2>3
<1>6. ASSUME NEW b \in Browsers, Link!ReserveByLink(b)
      PROVE  LinkTypeOK'
  BY <1>6 DEF Link!ReserveByLink
<1>7. ASSUME NEW a \in Accounts, Link!EnsureActor(a)
      PROVE  LinkTypeOK'
  BY <1>7 DEF Link!EnsureActor
<1>8. CASE (\E t \in reserved : Link!LinkUploadsEnd(t)) \/ UNCHANGED Link!vars
  BY <1>8 DEF Link!LinkUploadsEnd, Link!vars
<1> QED
  BY <1>1, <1>2, <1>3, <1>4, <1>5, <1>6, <1>7, <1>8 DEF Link!Next

-----------------------------------------------------------------------------
(* Every step keeps what hangs on the link.                                *)

LEMMA NextLinkKept == LinkTypeOK /\ Link!LinkKept /\ [Link!Next]_Link!vars => Link!LinkKept'
<1> SUFFICES ASSUME LinkTypeOK, Link!LinkKept, [Link!Next]_Link!vars PROVE Link!LinkKept'
  OBVIOUS
<1> USE DEF LinkTypeOK, Link!LinkKept, Link!Unlinked
<1>1. ASSUME NEW b \in Browsers,
             Link!OpenLink(b) \/ Link!MintSession(b) \/ Link!SessionExpires(b) \/ Link!RequestEnds(b) \/ Link!AskToRotate(b)
                \/ Link!ReadPredecessor(b) \/ \E a \in Accounts : Link!AskToClaim(b, a) \/ Link!LoadPage(b, a)
      PROVE  Link!LinkKept'
  <2>1. UNCHANGED <<link, owner, claimOpen, actor, reserved>>
    BY <1>1 DEF Link!OpenLink, Link!MintSession, Link!SessionExpires, Link!RequestEnds,
       Link!AskToRotate, Link!ReadPredecessor, Link!AskToClaim, Link!LoadPage
  <2> QED
    BY <2>1
<1>2. ASSUME NEW b \in Browsers, Link!Claim(b)
      PROVE  Link!LinkKept'
  BY <1>2 DEF Link!Claim
<1>3. ASSUME NEW b \in Browsers, Link!Rotate(b)
      PROVE  Link!LinkKept'
  BY <1>3 DEF Link!Rotate
<1>4. ASSUME NEW b \in Browsers, Link!ReserveByLink(b)
      PROVE  Link!LinkKept'
  BY <1>4 DEF Link!ReserveByLink, Link!Resolves
<1>5. ASSUME NEW a \in Accounts, Link!EnsureActor(a)
      PROVE  Link!LinkKept'
  BY <1>5 DEF Link!EnsureActor
<1>6. CASE (\E t \in reserved : Link!LinkUploadsEnd(t)) \/ UNCHANGED Link!vars
  <2>1. reserved' \subseteq reserved /\ UNCHANGED <<link, owner, claimOpen, actor>>
    BY <1>6 DEF Link!LinkUploadsEnd, Link!vars
  <2> QED
    BY <2>1
<1> QED
  BY <1>1, <1>2, <1>3, <1>4, <1>5, <1>6 DEF Link!Next

-----------------------------------------------------------------------------
(* A claim that is under way keeps the link it was asked under.            *)

LEMMA NextClaims == LinkTypeOK /\ ClaimsUnderLink /\ [Link!Next]_Link!vars => ClaimsUnderLink'
<1> SUFFICES ASSUME LinkTypeOK, ClaimsUnderLink, [Link!Next]_Link!vars PROVE ClaimsUnderLink'
  OBVIOUS
<1> USE DEF LinkTypeOK, LinkAsking, ClaimsUnderLink
<1>1. ASSUME NEW b \in Browsers,
             Link!OpenLink(b) \/ Link!MintSession(b) \/ Link!SessionExpires(b) \/ Link!RequestEnds(b) \/ Link!AskToRotate(b)
                \/ Link!ReadPredecessor(b) \/ \E a \in Accounts : Link!LoadPage(b, a)
      PROVE  ClaimsUnderLink'
  <2>1. \A c \in Browsers : browserRequest'[c].pc = "claiming" => browserRequest[c].pc = "claiming"
    <3>1. CASE Link!OpenLink(b) \/ \E a \in Accounts : Link!LoadPage(b, a)
      BY <3>1 DEF Link!OpenLink, Link!LoadPage, Link!Idle
    <3>2. CASE Link!MintSession(b) \/ Link!RequestEnds(b)
      BY <3>2 DEF Link!MintSession, Link!RequestEnds, Link!Idle
    <3>3. CASE Link!AskToRotate(b) \/ Link!ReadPredecessor(b)
      BY <3>3 DEF Link!AskToRotate, Link!ReadPredecessor
    <3>4. CASE Link!SessionExpires(b)
      BY <3>4 DEF Link!SessionExpires
    <3> QED
      BY <1>1, <3>1, <3>2, <3>3, <3>4
  <2>2. link' = link
    BY <1>1 DEF Link!OpenLink, Link!MintSession, Link!SessionExpires, Link!RequestEnds,
       Link!AskToRotate, Link!ReadPredecessor, Link!LoadPage
  <2>3. \A c \in Browsers : browserRequest[c].pc = "claiming" =>
            browserSession'[c].token = browserSession[c].token /\ (browserSession'[c].live => browserSession[c].live)
    <3>1. CASE Link!MintSession(b)
      BY <3>1 DEF Link!MintSession
    <3>2. CASE Link!SessionExpires(b)
      BY <3>2 DEF Link!SessionExpires
    <3>3. CASE browserSession' = browserSession
      BY <3>3
    <3> QED
      BY <1>1, <3>1, <3>2, <3>3 DEF Link!OpenLink, Link!RequestEnds, Link!AskToRotate,
         Link!ReadPredecessor, Link!LoadPage
  <2> QED
    BY <2>1, <2>2, <2>3
<1>2. ASSUME NEW b \in Browsers, NEW a \in Accounts, Link!AskToClaim(b, a)
      PROVE  ClaimsUnderLink'
  BY <1>2 DEF Link!AskToClaim, Link!Resolves, Link!Idle
<1>3. ASSUME NEW b \in Browsers, Link!Claim(b)
      PROVE  ClaimsUnderLink'
  BY <1>3 DEF Link!Claim, Link!Idle
<1>4. ASSUME NEW b \in Browsers, Link!Rotate(b)
      PROVE  ClaimsUnderLink'
  BY <1>4 DEF Link!Rotate, Link!Idle
<1>5. CASE \/ \E b \in Browsers : Link!ReserveByLink(b)
           \/ \E a \in Accounts : Link!EnsureActor(a)
           \/ \E t \in reserved : Link!LinkUploadsEnd(t)
           \/ UNCHANGED Link!vars
  BY <1>5 DEF Link!ReserveByLink, Link!EnsureActor, Link!LinkUploadsEnd, Link!vars
<1> QED
  BY <1>1, <1>2, <1>3, <1>4, <1>5 DEF Link!Next

-----------------------------------------------------------------------------
(* What can no longer be claimed cannot be claimed later.                  *)

\* Nobody who could not claim the event can do so later.
LEMMA ClaimFades == LinkTypeOK /\ [Link!Next]_Link!vars /\ Link!ClaimPossible' => Link!ClaimPossible
<1> SUFFICES ASSUME LinkTypeOK, [Link!Next]_Link!vars, Link!ClaimPossible' PROVE Link!ClaimPossible
  OBVIOUS
<1> USE DEF LinkTypeOK, Link!ClaimPossible
<1>1. ASSUME NEW b \in Browsers, Link!MintSession(b) \/ Link!SessionExpires(b)
      PROVE  Link!ClaimPossible
  BY <1>1 DEF Link!MintSession, Link!SessionExpires
<1>2. ASSUME NEW b \in Browsers, Link!Claim(b)
      PROVE  Link!ClaimPossible
  BY <1>2 DEF Link!Claim
<1>3. ASSUME NEW b \in Browsers, Link!Rotate(b)
      PROVE  Link!ClaimPossible
  BY <1>3 DEF Link!Rotate
<1>4. CASE UNCHANGED <<claimOpen, browserSession>>
  BY <1>4
<1> QED
  BY <1>1, <1>2, <1>3, <1>4
  DEF Link!Next, Link!vars, Link!OpenLink, Link!AskToClaim, Link!LoadPage, Link!AskToRotate, Link!ReadPredecessor, Link!ReserveByLink,
      Link!LinkUploadsEnd, Link!EnsureActor, Link!RequestEnds

\* An event that had an owner keeps that one.
LEMMA OwnerStays == [Link!Next]_Link!vars /\ owner' # owner => owner = NoAccount /\ \E b \in Browsers : Link!Claim(b)
<1> SUFFICES ASSUME [Link!Next]_Link!vars, owner' # owner
             PROVE  owner = NoAccount /\ \E b \in Browsers : Link!Claim(b)
  OBVIOUS
<1>1. PICK b \in Browsers : Link!Claim(b)
  BY DEF Link!Next, Link!vars, Link!OpenLink, Link!MintSession, Link!SessionExpires, Link!AskToClaim,
     Link!LoadPage, Link!AskToRotate, Link!ReadPredecessor,
         Link!Rotate, Link!ReserveByLink, Link!LinkUploadsEnd, Link!EnsureActor, Link!RequestEnds
<1> QED
  BY <1>1 DEF Link!Claim, Link!Members

LEMMA NextNoClaim == LinkTypeOK /\ NoClaimLeft /\ [Link!Next]_Link!vars => NoClaimLeft'
<1> SUFFICES ASSUME LinkTypeOK, NoClaimLeft, [Link!Next]_Link!vars,
                    NEW b \in Browsers, browserRequest'[b].pc \in {"asked", "rotating"}, owner' = NoAccount
             PROVE  ~Link!ClaimPossible'
  BY DEF NoClaimLeft
<1>1. owner = NoAccount
  BY OwnerStays
<1>2. browserRequest[b].pc \in {"asked", "rotating"} \/ Link!AskToRotate(b)
  <2> SUFFICES ASSUME browserRequest[b].pc \notin {"asked", "rotating"} PROVE Link!AskToRotate(b)
    OBVIOUS
  <2> USE DEF LinkTypeOK, LinkAsking, Link!Idle
  <2>1. ASSUME NEW c \in Browsers, NEW a \in Accounts, Link!AskToClaim(c, a) \/ Link!LoadPage(c, a)
        PROVE  FALSE
    <3>1. browserRequest' = [browserRequest EXCEPT ![c] = browserRequest'[c]] /\ browserRequest'[c].pc \in {"claiming", "page"}
      BY <2>1 DEF Link!AskToClaim, Link!LoadPage
    <3> QED
      BY <3>1
  <2>2. ASSUME NEW c \in Browsers, Link!OpenLink(c) \/ Link!MintSession(c) \/ Link!RequestEnds(c) \/ Link!Claim(c) \/ Link!Rotate(c)
        PROVE  FALSE
    <3>1. browserRequest' = [browserRequest EXCEPT ![c] = browserRequest'[c]] /\ browserRequest'[c].pc \in {"minting", "idle"}
      <4>1. CASE Link!OpenLink(c)
        BY <4>1 DEF Link!OpenLink
      <4>2. CASE browserRequest' = [browserRequest EXCEPT ![c] = Link!Idle]
        BY <4>2
      <4> QED
        BY <2>2, <4>1, <4>2 DEF Link!MintSession, Link!RequestEnds, Link!Claim, Link!Rotate
    <3> QED
      BY <3>1
  <2>3. ASSUME NEW c \in Browsers, Link!ReadPredecessor(c)
        PROVE  FALSE
    BY <2>3 DEF Link!ReadPredecessor
  <2>4. ASSUME NEW c \in Browsers, Link!AskToRotate(c)
        PROVE  c = b
    BY <2>4 DEF Link!AskToRotate
  <2>5. browserRequest' # browserRequest
    OBVIOUS
  <2> QED
    BY <2>1, <2>2, <2>3, <2>4, <2>5
    DEF Link!Next, Link!vars, Link!SessionExpires, Link!ReserveByLink, Link!LinkUploadsEnd, Link!EnsureActor
<1>3. ~Link!ClaimPossible
  BY <1>1, <1>2 DEF NoClaimLeft, Link!AskToRotate
<1> QED
  BY <1>3, ClaimFades

LEMMA LinkStays == LinkInv /\ [Link!Next]_Link!vars => LinkInv'
BY LinkStepTyped, NextLinkKept, NextClaims, NextNoClaim DEF LinkInv

-----------------------------------------------------------------------------
(* Theorems.                                                               *)

LEMMA LinkInvariant == Link!Spec => []LinkInv
BY LinkStarts, LinkStays, PTL DEF Link!Spec

\* The link, its sessions and the requests under way are well typed, for any browsers
\* and accounts.
THEOREM LinkTyped == Link!Spec => []LinkTypeOK
<1>1. LinkInv => LinkTypeOK
  BY DEF LinkInv
<1> QED
  BY <1>1, LinkInvariant, PTL

\* However rotations, claims and uploads interleave: no reservation is left under a
\* link that was replaced, an account's upload actor follows the link, and an event
\* with an owner is not open to a legacy claim.
THEOREM LinkIsKept == Link!Spec => []Link!LinkKept
<1>1. LinkInv => Link!LinkKept
  BY DEF LinkInv
<1> QED
  BY <1>1, LinkInvariant, PTL

LEMMA StepRespectsLink == LinkInv /\ [Link!Next]_Link!vars => Link!RespectsLink
<1> SUFFICES ASSUME LinkInv, [Link!Next]_Link!vars PROVE Link!RespectsLink
  OBVIOUS
<1> USE DEF LinkInv, LinkTypeOK
<1>1. ASSUME link' # link
      PROVE  /\ owner = NoAccount => ~Link!ClaimPossible
             /\ \E b \in Browsers :
                  browserRequest[b].pc = "rotating" /\ browserRequest'[b] = Link!Idle /\ browserRequest[b].revision = link
  <2>1. PICK b \in Browsers : Link!Rotate(b) /\ Link!Wins(b)
    BY <1>1 DEF Link!Next, Link!vars, Link!OpenLink, Link!MintSession, Link!SessionExpires,
       Link!AskToClaim, Link!LoadPage, Link!AskToRotate, Link!ReadPredecessor,
                Link!Rotate, Link!ReserveByLink, Link!LinkUploadsEnd, Link!EnsureActor, Link!RequestEnds, Link!Claim
  <2> QED
    BY <2>1 DEF Link!Rotate, Link!Wins, NoClaimLeft
<1>2. ASSUME owner' # owner
      PROVE  /\ owner = NoAccount
             /\ \E b \in Browsers : browserRequest[b].pc = "claiming" /\ browserRequest'[b] = Link!Idle /\ Link!Resolves(browserSession[b])
  <2>1. PICK b \in Browsers : Link!Claim(b)
    BY <1>2, OwnerStays
  <2>2. Link!MayClaim(browserSession[b]) /\ browserRequest[b].pc = "claiming" /\ browserRequest'[b] = Link!Idle
    BY <1>2, <2>1 DEF Link!Claim
  <2> QED
    BY <1>2, <2>2, OwnerStays DEF ClaimsUnderLink, Link!MayClaim, Link!Resolves
<1> QED
  BY <1>1, <1>2 DEF Link!RespectsLink

\* A link is replaced only by the request of a host whose page showed it, never while
\* the creator of an unowned event could still claim it; an owner stays, and becomes
\* one under a session of the link that stands.
THEOREM LinkIsRespected == Link!Spec => Link!LinkRespected
BY LinkInvariant, StepRespectsLink, PTL DEF Link!Spec, Link!LinkRespected

-----------------------------------------------------------------------------
(* A host's account.                                                        *)

AccountRow == [password: Account!Passwords \cup {NoPassword}, old: BOOLEAN, version: Nat]
AccountAsking == [pc: {"idle", "rehashing", "entering", "spending", "consuming", "resetting",
                "resending", "completing", "activating"},
           password: Account!Passwords \cup {NoPassword}, version: Nat, code: 0..MaxCodes, old: BOOLEAN]
HostSession == [password: Account!Passwords \cup {NoPassword}, version: Nat, live: BOOLEAN]

AccountTypeOK ==
    /\ account \in AccountRow
    /\ pending \in [device: Devices \cup {NoPassword}, code: 0..MaxCodes, attempts: Nat, live: BOOLEAN]
    /\ reset \in [code: 0..MaxCodes, attempts: Nat, live: BOOLEAN]
    /\ drawn \in 0..MaxCodes
    /\ device \in [Devices -> AccountAsking]
    /\ hostSession \in [Devices -> HostSession]
    /\ tried \in [Account!Codes -> Nat] /\ used \in [Account!Codes -> Nat]

\* What names a version names the password of that version, or an older one.
Knows(version, password) ==
    version <= account.version /\ (version = account.version => password = account.password)
KnowsItsVersion ==
    \A d \in Devices :
        /\ device[d].pc \in {"entering", "rehashing"} => Knows(device[d].version, device[d].password)
        /\ hostSession[d].live => Knows(hostSession[d].version, hostSession[d].password)

\* The code a resend mailed and has not stored yet.
Mailed(d) == device[d].version

\* A code that is drawn, and is in none of the places where it could be tried.
Free(c) ==
    /\ c \in 1..drawn
    /\ reset.live => reset.code # c
    /\ pending.live => pending.code # c
Unspent(c) == tried[c] = 0 /\ used[c] = 0

CodesApart ==
    /\ reset.live => reset.code \in 1..drawn
    /\ pending.live => pending.code \in 1..drawn
    /\ reset.live /\ pending.live => reset.code # pending.code
    /\ \A c \in Account!Codes : c > drawn => Unspent(c)
    /\ \A d \in Devices : device[d].pc = "resending" =>
         /\ Free(Mailed(d)) /\ Unspent(Mailed(d))
         /\ \A e \in Devices \ {d} : device[e].pc = "resending" => Mailed(e) # Mailed(d)

GuessesCounted ==
    /\ reset.live => tried[reset.code] <= reset.attempts /\ used[reset.code] = 0
    /\ pending.live => tried[pending.code] <= pending.attempts /\ used[pending.code] = 0
    /\ \A c \in Account!Codes : tried[c] <= CodeAttempts /\ used[c] <= 1

AccountInv == AccountTypeOK /\ KnowsItsVersion /\ CodesApart /\ GuessesCounted

LEMMA AccountStarts == AccountBounds /\ Account!Init => AccountInv
<1> SUFFICES ASSUME AccountBounds, Account!Init PROVE AccountInv
  OBVIOUS
<1> USE DEF AccountBounds, Account!Init, Account!Idle, Account!NoSession, Account!Passwords, Account!Codes
<1>1. AccountTypeOK
  <2>1. account \in AccountRow
    <3>1. /\ [password |-> NoPassword, old |-> FALSE, version |-> 0] \in AccountRow
          /\ [password |-> FirstPassword, old |-> TRUE, version |-> 1] \in AccountRow
      BY DEF AccountRow
    <3> QED
      BY <3>1
  <2>2. device \in [Devices -> AccountAsking]
    BY DEF AccountAsking
  <2>3. hostSession \in [Devices -> HostSession]
    BY DEF HostSession
  <2>4. tried \in [Account!Codes -> Nat] /\ used \in [Account!Codes -> Nat] /\ drawn \in 0..MaxCodes
    OBVIOUS
  <2>5. /\ pending \in [device: Devices \cup {NoPassword}, code: 0..MaxCodes, attempts: Nat, live: BOOLEAN]
        /\ reset \in [code: 0..MaxCodes, attempts: Nat, live: BOOLEAN]
    OBVIOUS
  <2> QED
    BY <2>1, <2>2, <2>3, <2>4, <2>5, Zenon DEF AccountTypeOK
<1>2. KnowsItsVersion /\ CodesApart /\ GuessesCounted
  BY DEF KnowsItsVersion, CodesApart, GuessesCounted, Unspent
<1> QED
  BY <1>1, <1>2 DEF AccountInv

-----------------------------------------------------------------------------
(* Types.                                                                  *)

\* A request that goes on goes on as one.
LEMMA GoesTyped ==
    ASSUME AccountBounds, AccountTypeOK, NEW d \in Devices
    PROVE  /\ Account!Idle \in AccountAsking
           /\ device[d] \in AccountAsking
           /\ Account!Goes(d, Account!Idle) => device' \in [Devices -> AccountAsking]
           /\ \A pc \in {"entering", "consuming", "resetting", "activating"} :
                device' = [device EXCEPT ![d].pc = pc] => device' \in [Devices -> AccountAsking]
           /\ \A pc \in {"spending", "completing", "resending"}, version \in Nat, code \in 0..MaxCodes :
                Account!Goes(d, [Account!Idle EXCEPT !.pc = pc, !.version = version, !.code = code])
                    => device' \in [Devices -> AccountAsking]
           /\ \A pc \in {"entering", "rehashing"}, password \in Account!Passwords \cup {NoPassword}, version \in Nat,
                 old \in BOOLEAN :
                Account!Goes(d, [Account!Idle EXCEPT !.pc = pc, !.password = password, !.version = version, !.old = old])
                    => device' \in [Devices -> AccountAsking]
<1> USE DEF AccountBounds, AccountTypeOK
<1>1. Account!Idle \in AccountAsking /\ device[d] \in AccountAsking
  BY DEF Account!Idle, AccountAsking
<1>2. Account!Goes(d, Account!Idle) => device' \in [Devices -> AccountAsking]
  BY <1>1 DEF Account!Goes
<1>3. ASSUME NEW pc \in {"entering", "consuming", "resetting", "activating"},
             device' = [device EXCEPT ![d].pc = pc]
      PROVE  device' \in [Devices -> AccountAsking]
  <2>1. [device[d] EXCEPT !.pc = pc] \in AccountAsking
    BY <1>1 DEF AccountAsking
  <2> QED
    BY <1>3, <2>1
<1>4. ASSUME NEW pc \in {"spending", "completing", "resending"}, NEW version \in Nat, NEW code \in 0..MaxCodes,
             Account!Goes(d, [Account!Idle EXCEPT !.pc = pc, !.version = version, !.code = code])
      PROVE  device' \in [Devices -> AccountAsking]
  <2>1. [Account!Idle EXCEPT !.pc = pc, !.version = version, !.code = code] \in AccountAsking
    BY DEF Account!Idle, AccountAsking
  <2> QED
    BY <1>4, <2>1 DEF Account!Goes
<1>5. ASSUME NEW pc \in {"entering", "rehashing"}, NEW password \in Account!Passwords \cup {NoPassword}, NEW version \in Nat,
             NEW old \in BOOLEAN,
             Account!Goes(d, [Account!Idle EXCEPT !.pc = pc, !.password = password, !.version = version, !.old = old])
      PROVE  device' \in [Devices -> AccountAsking]
  <2>1. [Account!Idle EXCEPT !.pc = pc, !.password = password, !.version = version, !.old = old] \in AccountAsking
    BY <1>1 DEF AccountAsking
  <2> QED
    BY <1>5, <2>1 DEF Account!Goes
<1> QED
  BY <1>1, <1>2, <1>3, <1>4, <1>5

\* Entering with what the account now is, without the mark of an old hash.
LEMMA EntersTyped ==
    ASSUME AccountBounds, AccountTypeOK, NEW d \in Devices, NEW password \in Account!Passwords \cup {NoPassword}, NEW version \in Nat,
           Account!Goes(d, [Account!Idle EXCEPT !.pc = "entering", !.password = password, !.version = version])
    PROVE  device' \in [Devices -> AccountAsking]
<1>1. [Account!Idle EXCEPT !.pc = "entering", !.password = password, !.version = version] \in AccountAsking
  BY GoesTyped DEF AccountAsking
<1> QED
  BY <1>1 DEF Account!Goes, AccountTypeOK

\* The code of a request whose challenge stands is one that was drawn.
LEMMA CodeStands ==
    ASSUME AccountBounds, AccountTypeOK, CodesApart, NEW d \in Devices
    PROVE  /\ Account!ResetStands(d) => device[d].code \in Account!Codes /\ device[d].code = reset.code
           /\ Account!PendingStands(d) => device[d].code \in Account!Codes /\ device[d].code = pending.code
BY DEF AccountBounds, AccountTypeOK, CodesApart, Account!ResetStands, Account!PendingStands,
   Account!Codes

LEMMA AccountStepTyped == AccountBounds /\ AccountTypeOK /\ CodesApart /\ [Account!Next]_Account!vars => AccountTypeOK'
<1> SUFFICES ASSUME AccountBounds, AccountTypeOK, CodesApart, [Account!Next]_Account!vars PROVE AccountTypeOK'
  OBVIOUS
<1> USE DEF AccountBounds
<1>0. /\ account.password \in Account!Passwords \cup {NoPassword} /\ account.old \in BOOLEAN /\ account.version \in Nat
      /\ drawn \in 0..MaxCodes /\ reset.code \in 0..MaxCodes /\ pending.code \in 0..MaxCodes
  BY DEF AccountTypeOK, AccountRow
<1>1. CASE Account!Forgot
  BY <1>1 DEF Account!Forgot, AccountTypeOK
<1>2. ASSUME NEW d \in Devices, Account!Authenticate(d)
      PROVE  AccountTypeOK'
  <2>1. device' \in [Devices -> AccountAsking]
    BY <1>0, <1>2, GoesTyped DEF Account!Authenticate
  <2> QED
    BY <1>2, <2>1 DEF Account!Authenticate, AccountTypeOK
<1>3. ASSUME NEW d \in Devices, Account!Rehash(d)
      PROVE  AccountTypeOK'
  <2>1. device' \in [Devices -> AccountAsking]
    BY <1>3, GoesTyped DEF Account!Rehash
  <2>2. account' \in AccountRow
    BY <1>0, <1>3 DEF Account!Rehash, Account!Current, AccountTypeOK, AccountRow
  <2> QED
    BY <1>3, <2>1, <2>2 DEF Account!Rehash, AccountTypeOK
<1>4. ASSUME NEW d \in Devices, Account!Enter(d) \/ Account!Leave(d)
      PROVE  AccountTypeOK'
  <2>1. device[d].password \in Account!Passwords \cup {NoPassword} /\ device[d].version \in Nat
    BY DEF AccountTypeOK, AccountAsking
  <2>2. hostSession' \in [Devices -> HostSession]
    <3>1. /\ [password |-> device[d].password, version |-> device[d].version, live |-> TRUE] \in HostSession
          /\ [hostSession[d] EXCEPT !.live = FALSE] \in HostSession
      BY <2>1 DEF AccountTypeOK, HostSession
    <3> QED
      BY <1>4, <3>1 DEF Account!Enter, Account!Leave, AccountTypeOK
  <2>3. device' \in [Devices -> AccountAsking]
    BY <1>4, GoesTyped DEF Account!Enter, Account!Leave, AccountTypeOK
  <2> QED
    BY <1>4, <2>2, <2>3 DEF Account!Enter, Account!Leave, AccountTypeOK
<1>5. ASSUME NEW d \in Devices, Account!Ends(d)
      PROVE  AccountTypeOK'
  BY <1>5, GoesTyped DEF Account!Ends, AccountTypeOK
<1>6. ASSUME NEW d \in Devices, Account!AskReset(d)
      PROVE  AccountTypeOK'
  <2>1. device' \in [Devices -> AccountAsking]
    BY <1>0, <1>6, GoesTyped DEF Account!AskReset
  <2> QED
    BY <1>6, <2>1 DEF Account!AskReset, AccountTypeOK
<1>7. ASSUME NEW d \in Devices, Account!SpendReset(d)
      PROVE  AccountTypeOK'
  <2>1. device' \in [Devices -> AccountAsking]
    BY <1>7, GoesTyped DEF Account!SpendReset
  <2>2. reset' \in [code: 0..MaxCodes, attempts: Nat, live: BOOLEAN] /\ tried' \in [Account!Codes -> Nat]
    BY <1>7 DEF Account!SpendReset, AccountTypeOK
  <2> QED
    BY <1>7, <2>1, <2>2 DEF Account!SpendReset, AccountTypeOK
<1>8. ASSUME NEW d \in Devices, Account!ConsumeReset(d)
      PROVE  AccountTypeOK'
  <2>1. device' \in [Devices -> AccountAsking]
    BY <1>8, GoesTyped DEF Account!ConsumeReset
  <2>2. reset' \in [code: 0..MaxCodes, attempts: Nat, live: BOOLEAN] /\ used' \in [Account!Codes -> Nat]
    <3>1. CASE Account!ResetStands(d)
      <4>1. /\ reset' = [reset EXCEPT !.live = FALSE]
            /\ used' = [used EXCEPT ![device[d].code] = used[device[d].code] + 1]
        BY <1>8, <3>1 DEF Account!ConsumeReset
      <4>2. device[d].code \in Account!Codes /\ used \in [Account!Codes -> Nat] /\ used[device[d].code] + 1 \in Nat
        BY <3>1, CodeStands DEF AccountTypeOK
      <4>3. used' \in [Account!Codes -> Nat]
        BY <4>1, <4>2
      <4> QED
        BY <4>1, <4>3 DEF AccountTypeOK
    <3>2. CASE ~Account!ResetStands(d)
      BY <1>8, <3>2 DEF Account!ConsumeReset, AccountTypeOK
    <3> QED
      BY <3>1, <3>2
  <2> QED
    BY <1>8, <2>1, <2>2 DEF Account!ConsumeReset, AccountTypeOK
<1>9. ASSUME NEW d \in Devices, Account!ResetPassword(d)
      PROVE  AccountTypeOK'
  <2>1. CASE account.version = device[d].version
    <3>1. account' = [password |-> d, old |-> FALSE, version |-> account.version + 1]
      BY <1>9, <2>1 DEF Account!ResetPassword
    <3>2. account' \in AccountRow /\ account'.version \in Nat /\ d \in Account!Passwords
      BY <1>0, <3>1 DEF AccountRow, Account!Passwords
    <3>3. device' \in [Devices -> AccountAsking]
      BY <1>9, <2>1, <3>2, EntersTyped DEF Account!ResetPassword
    <3>4. hostSession' \in [Devices -> HostSession]
      <4>1. \A e \in Devices : [hostSession[e] EXCEPT !.live = FALSE] \in HostSession
        BY DEF AccountTypeOK, HostSession
      <4> QED
        BY <1>9, <2>1, <4>1 DEF Account!ResetPassword
    <3> QED
      BY <1>9, <3>2, <3>3, <3>4 DEF Account!ResetPassword, AccountTypeOK
  <2>2. CASE account.version # device[d].version
    BY <1>9, <2>2, GoesTyped DEF Account!ResetPassword, AccountTypeOK
  <2> QED
    BY <2>1, <2>2
<1>10. ASSUME NEW d \in Devices, Account!Register(d)
       PROVE  AccountTypeOK'
  BY <1>10 DEF Account!Register, AccountTypeOK
<1>11. ASSUME NEW d \in Devices, Account!Resend(d)
       PROVE  AccountTypeOK'
  <2>1. drawn' \in 0..MaxCodes /\ drawn' \in Nat
    BY <1>0, <1>11 DEF Account!Resend
  <2>2. device' \in [Devices -> AccountAsking]
    <3>1. Account!Goes(d, [Account!Idle EXCEPT !.pc = "resending", !.version = drawn', !.code = pending.code])
      <4>1. [Account!Idle EXCEPT !.pc = "resending", !.code = pending.code, !.version = drawn']
                = [Account!Idle EXCEPT !.pc = "resending", !.version = drawn', !.code = pending.code]
        BY DEF Account!Idle
      <4> QED
        BY <1>11, <4>1 DEF Account!Resend
    <3> QED
      BY <1>0, <2>1, <3>1, GoesTyped
  <2> QED
    BY <1>11, <2>1, <2>2 DEF Account!Resend, AccountTypeOK
<1>12. ASSUME NEW d \in Devices, Account!StoreCode(d)
       PROVE  AccountTypeOK'
  <2>1. device[d].version \in 0..MaxCodes
    BY <1>12, <1>0 DEF CodesApart, Account!StoreCode, Free, Mailed
  <2>2. pending' \in [device: Devices \cup {NoPassword}, code: 0..MaxCodes, attempts: Nat, live: BOOLEAN]
    BY <1>12, <2>1 DEF Account!StoreCode, AccountTypeOK
  <2> QED
    BY <1>12, <2>2, GoesTyped DEF Account!StoreCode, AccountTypeOK
<1>13. ASSUME NEW d \in Devices, Account!AskComplete(d)
       PROVE  AccountTypeOK'
  <2>1. device' \in [Devices -> AccountAsking]
    <3>1. [Account!Idle EXCEPT !.pc = "completing", !.code = pending.code] \in AccountAsking
      BY <1>0, GoesTyped DEF AccountAsking
    <3> QED
      BY <1>13, <3>1 DEF Account!AskComplete, Account!Goes, AccountTypeOK
  <2> QED
    BY <1>13, <2>1 DEF Account!AskComplete, AccountTypeOK
<1>14. ASSUME NEW d \in Devices, Account!SpendComplete(d)
       PROVE  AccountTypeOK'
  <2>1. device' \in [Devices -> AccountAsking]
    BY <1>14, GoesTyped DEF Account!SpendComplete
  <2>2. /\ pending' \in [device: Devices \cup {NoPassword}, code: 0..MaxCodes, attempts: Nat, live: BOOLEAN]
        /\ tried' \in [Account!Codes -> Nat]
    BY <1>14 DEF Account!SpendComplete, AccountTypeOK
  <2> QED
    BY <1>14, <2>1, <2>2 DEF Account!SpendComplete, AccountTypeOK
<1>15. ASSUME NEW d \in Devices, Account!Activate(d)
       PROVE  AccountTypeOK'
  <2>1. CASE Account!PendingStands(d)
    <3>1. account' = IF account.version > 0 THEN account ELSE [password |-> d, old |-> FALSE, version |-> 1]
      BY <1>15, <2>1 DEF Account!Activate
    <3>2. /\ account' \in AccountRow
          /\ account'.password \in Account!Passwords \cup {NoPassword} /\ account'.version \in Nat
      BY <1>0, <3>1 DEF AccountRow, Account!Passwords, AccountTypeOK
    <3>3. device' \in [Devices -> AccountAsking]
      BY <1>15, <2>1, <3>2, EntersTyped DEF Account!Activate
    <3>4. /\ pending' \in [device: Devices \cup {NoPassword}, code: 0..MaxCodes, attempts: Nat, live: BOOLEAN]
          /\ used' \in [Account!Codes -> Nat]
      <4>1. /\ pending' = [pending EXCEPT !.live = FALSE]
            /\ used' = [used EXCEPT ![device[d].code] = used[device[d].code] + 1]
        BY <1>15, <2>1 DEF Account!Activate
      <4>2. device[d].code \in Account!Codes /\ used \in [Account!Codes -> Nat] /\ used[device[d].code] + 1 \in Nat
        BY <2>1, CodeStands DEF AccountTypeOK
      <4>3. used' \in [Account!Codes -> Nat]
        BY <4>1, <4>2
      <4> QED
        BY <4>1, <4>3 DEF AccountTypeOK
    <3> QED
      BY <1>15, <3>2, <3>3, <3>4 DEF Account!Activate, AccountTypeOK
  <2>2. CASE ~Account!PendingStands(d)
    BY <1>15, <2>2, GoesTyped DEF Account!Activate, AccountTypeOK
  <2> QED
    BY <2>1, <2>2
<1>16. CASE UNCHANGED Account!vars
  BY <1>16 DEF Account!vars, AccountTypeOK
<1> QED
  BY <1>1, <1>2, <1>3, <1>4, <1>5, <1>6, <1>7, <1>8, <1>9, <1>10, <1>11, <1>12, <1>13, <1>14, <1>15,
     <1>16 DEF Account!Next

-----------------------------------------------------------------------------
(* Versions.                                                               *)

\* A request that names a password of the account knows it of the account's version.
LEMMA NextKnows == AccountTypeOK /\ KnowsItsVersion /\ [Account!Next]_Account!vars => KnowsItsVersion'
<1> SUFFICES ASSUME AccountTypeOK, KnowsItsVersion, [Account!Next]_Account!vars PROVE KnowsItsVersion'
  OBVIOUS
<1> USE DEF AccountTypeOK, AccountRow, AccountAsking, HostSession, Account!Idle, KnowsItsVersion, Knows
<1>1. ASSUME NEW d \in Devices, Account!Authenticate(d)
      PROVE  KnowsItsVersion'
  BY <1>1 DEF Account!Authenticate, Account!Goes
<1>2. ASSUME NEW d \in Devices, Account!Rehash(d)
      PROVE  KnowsItsVersion'
  BY <1>2 DEF Account!Rehash, Account!Current
<1>3. ASSUME NEW d \in Devices, Account!Enter(d)
      PROVE  KnowsItsVersion'
  BY <1>3 DEF Account!Enter, Account!Goes
<1>4. ASSUME NEW d \in Devices, Account!Leave(d)
      PROVE  KnowsItsVersion'
  BY <1>4 DEF Account!Leave
<1>5. ASSUME NEW d \in Devices, Account!ResetPassword(d)
      PROVE  KnowsItsVersion'
  <2>1. CASE account.version = device[d].version
    <3>1. /\ account'.version = account.version + 1 /\ account'.password = d
          /\ \A e \in Devices : ~hostSession'[e].live
      BY <1>5, <2>1 DEF Account!ResetPassword
    <3>2. /\ \A e \in Devices \ {d} : device'[e] = device[e]
          /\ device'[d].version = account'.version /\ device'[d].password = account'.password
      <4>1. Account!Goes(d, [Account!Idle EXCEPT !.pc = "entering", !.password = d, !.version = account'.version])
        BY <1>5, <2>1 DEF Account!ResetPassword
      <4> QED
        BY <3>1, <4>1 DEF Account!Goes
    <3> QED
      BY <3>1, <3>2
  <2>2. CASE account.version # device[d].version
    BY <1>5, <2>2 DEF Account!ResetPassword, Account!Goes
  <2> QED
    BY <2>1, <2>2
<1>6. ASSUME NEW d \in Devices, Account!Activate(d)
      PROVE  KnowsItsVersion'
  <2>1. CASE Account!PendingStands(d)
    <3>1. /\ hostSession' = hostSession
          /\ account' = IF account.version > 0 THEN account ELSE [password |-> d, old |-> FALSE, version |-> 1]
      BY <1>6, <2>1 DEF Account!Activate
    <3>2. /\ \A e \in Devices \ {d} : device'[e] = device[e]
          /\ device'[d].version = account'.version /\ device'[d].password = account'.password
      <4>1. Account!Goes(d, [Account!Idle EXCEPT !.pc = "entering", !.password = account'.password, !.version = account'.version])
        BY <1>6, <2>1 DEF Account!Activate
      <4> QED
        BY <4>1 DEF Account!Goes
    <3>3. account' = account \/ (account.version = 0 /\ account'.version = 1)
      <4>1. account.version \in Nat
        OBVIOUS
      <4>2. CASE account.version > 0
        <5>1. account' = account
          BY <3>1, <4>2
        <5> QED
          BY <5>1
      <4>3. CASE ~(account.version > 0)
        <5>1. account' = [password |-> d, old |-> FALSE, version |-> 1]
          BY <3>1, <4>3, Zenon
        <5> QED
          BY <4>1, <4>3, <5>1
      <4> QED
        BY <4>2, <4>3
    <3> QED
      BY <3>1, <3>2, <3>3
  <2>2. CASE ~Account!PendingStands(d)
    BY <1>6, <2>2 DEF Account!Activate, Account!Goes
  <2> QED
    BY <2>1, <2>2
<1>7. CASE /\ UNCHANGED <<account, hostSession>>
           /\ \A e \in Devices : device'[e].pc \in {"entering", "rehashing"} => device'[e] = device[e]
  BY <1>7
<1>8. ASSUME NEW d \in Devices, Account!Ends(d) \/ Account!AskReset(d) \/ Account!AskComplete(d) \/ Account!Resend(d) \/ Account!StoreCode(d)
      PROVE  KnowsItsVersion'
  <2>1. UNCHANGED <<account, hostSession>>
    BY <1>8 DEF Account!Ends, Account!AskReset, Account!AskComplete, Account!Resend, Account!StoreCode
  <2>2. \A e \in Devices : device'[e].pc \in {"entering", "rehashing"} => device'[e] = device[e]
    <3>1. CASE Account!Ends(d) \/ Account!StoreCode(d)
      BY <3>1 DEF Account!Ends, Account!StoreCode, Account!Goes
    <3>2. CASE Account!AskReset(d)
      BY <3>2 DEF Account!AskReset, Account!Goes
    <3>3. CASE Account!AskComplete(d)
      BY <3>3 DEF Account!AskComplete, Account!Goes
    <3>4. CASE Account!Resend(d)
      BY <3>4 DEF Account!Resend, Account!Goes
    <3> QED
      BY <1>8, <3>1, <3>2, <3>3, <3>4
  <2> QED
    BY <1>7, <2>1, <2>2
<1>9. ASSUME NEW d \in Devices, Account!SpendReset(d) \/ Account!ConsumeReset(d) \/ Account!SpendComplete(d)
      PROVE  KnowsItsVersion'
  <2>1. UNCHANGED <<account, hostSession>>
    BY <1>9 DEF Account!SpendReset, Account!ConsumeReset, Account!SpendComplete
  <2>2. \/ device' = [device EXCEPT ![d] = Account!Idle]
        \/ \E pc \in {"consuming", "resetting", "activating"} : device' = [device EXCEPT ![d].pc = pc]
    <3>1. CASE Account!SpendReset(d)
      BY <3>1 DEF Account!SpendReset, Account!Goes
    <3>2. CASE Account!ConsumeReset(d)
      BY <3>2 DEF Account!ConsumeReset, Account!Goes
    <3>3. CASE Account!SpendComplete(d)
      BY <3>3 DEF Account!SpendComplete, Account!Goes
    <3> QED
      BY <1>9, <3>1, <3>2, <3>3
  <2> QED
    BY <1>7, <2>1, <2>2
<1>10. CASE Account!Forgot \/ (\E d \in Devices : Account!Register(d)) \/ UNCHANGED Account!vars
  BY <1>7, <1>10 DEF Account!Forgot, Account!Register, Account!vars
<1> QED
  BY <1>1, <1>2, <1>3, <1>4, <1>5, <1>6, <1>8, <1>9, <1>10 DEF Account!Next

-----------------------------------------------------------------------------
(* Codes.                                                                  *)

\* A guess against a registration that was replaced is no guess of its code.
LEMMA GuessedAnother ==
    ASSUME AccountTypeOK, NEW d \in Devices, Account!SpendComplete(d), ~Account!PendingStands(d)
    PROVE  tried' = tried
<1> DEFINE c == device[d].code
<1>1. \/ tried' = tried
      \/ tried' = [tried EXCEPT ![c] = tried[c] + 0]
  BY DEF Account!SpendComplete
<1>2. tried \in [Account!Codes -> Nat]
  BY DEF AccountTypeOK
<1>3. CASE c \in Account!Codes
  <2>1. tried[c] + 0 = tried[c]
    BY <1>2, <1>3
  <2> QED
    BY <1>1, <1>2, <2>1
<1>4. CASE c \notin Account!Codes
  BY <1>1, <1>2, <1>4
<1> QED
  BY <1>3, <1>4

\* Only a resend begins with a code of its own.
LEMMA ResendsAlone ==
    ASSUME AccountTypeOK, NEW d \in Devices
    PROVE  /\ \/ Account!Authenticate(d) \/ Account!Rehash(d) \/ Account!Enter(d) \/ Account!Ends(d) \/ Account!AskReset(d)
              \/ Account!ResetPassword(d) \/ Account!StoreCode(d) \/ Account!AskComplete(d) \/ Account!Activate(d)
              \/ Account!SpendReset(d) \/ Account!ConsumeReset(d) \/ Account!SpendComplete(d)
              => \A e \in Devices : device'[e].pc = "resending" => e # d /\ device'[e] = device[e]
<1> USE DEF AccountTypeOK, AccountAsking, Account!Idle, Account!Goes
<1> SUFFICES ASSUME NEW e \in Devices, device'[e].pc = "resending"
             PROVE  \/ Account!Authenticate(d) \/ Account!Rehash(d) \/ Account!Enter(d) \/ Account!Ends(d) \/ Account!AskReset(d)
                    \/ Account!ResetPassword(d) \/ Account!StoreCode(d) \/ Account!AskComplete(d) \/ Account!Activate(d)
                    \/ Account!SpendReset(d) \/ Account!ConsumeReset(d) \/ Account!SpendComplete(d)
                    => e # d /\ device'[e] = device[e]
  OBVIOUS
<1>1. Account!Authenticate(d) => e # d /\ device'[e] = device[e]
  BY DEF Account!Authenticate
<1>2. Account!Rehash(d) => e # d /\ device'[e] = device[e]
  BY DEF Account!Rehash
<1>3. Account!Enter(d) => e # d /\ device'[e] = device[e]
  BY DEF Account!Enter
<1>4. Account!Ends(d) => e # d /\ device'[e] = device[e]
  BY DEF Account!Ends
<1>5. Account!AskReset(d) => e # d /\ device'[e] = device[e]
  BY DEF Account!AskReset
<1>6. Account!ResetPassword(d) => e # d /\ device'[e] = device[e]
  <2> SUFFICES ASSUME Account!ResetPassword(d) PROVE e # d /\ device'[e] = device[e]
    OBVIOUS
  <2>1. CASE account.version = device[d].version
    <3>1. Account!Goes(d, [Account!Idle EXCEPT !.pc = "entering", !.password = d, !.version = account'.version])
      BY <2>1 DEF Account!ResetPassword
    <3> QED
      BY <3>1
  <2>2. CASE ~(account.version = device[d].version)
    BY <2>2 DEF Account!ResetPassword
  <2> QED
    BY <2>1, <2>2
<1>7. Account!StoreCode(d) => e # d /\ device'[e] = device[e]
  BY DEF Account!StoreCode
<1>8. Account!AskComplete(d) => e # d /\ device'[e] = device[e]
  BY DEF Account!AskComplete
<1>9. Account!Activate(d) => e # d /\ device'[e] = device[e]
  <2> SUFFICES ASSUME Account!Activate(d) PROVE e # d /\ device'[e] = device[e]
    OBVIOUS
  <2>1. CASE Account!PendingStands(d)
    <3>1. Account!Goes(d, [Account!Idle EXCEPT !.pc = "entering", !.password = account'.password, !.version = account'.version])
      BY <2>1 DEF Account!Activate
    <3> QED
      BY <3>1
  <2>2. CASE ~(Account!PendingStands(d))
    BY <2>2 DEF Account!Activate
  <2> QED
    BY <2>1, <2>2
<1>10. Account!SpendReset(d) => e # d /\ device'[e] = device[e]
  BY DEF Account!SpendReset
<1>11. Account!ConsumeReset(d) => e # d /\ device'[e] = device[e]
  BY DEF Account!ConsumeReset
<1>12. Account!SpendComplete(d) => e # d /\ device'[e] = device[e]
  BY DEF Account!SpendComplete
<1> QED
  BY <1>1, <1>2, <1>3, <1>4, <1>5, <1>6, <1>7, <1>8, <1>9, <1>10, <1>11, <1>12

LEMMA NextApart == AccountBounds /\ AccountTypeOK /\ CodesApart /\ [Account!Next]_Account!vars => CodesApart'
<1> SUFFICES ASSUME AccountBounds, AccountTypeOK, CodesApart, [Account!Next]_Account!vars PROVE CodesApart'
  OBVIOUS
<1> USE DEF AccountBounds, Account!Codes, CodesApart, Free, Unspent, Mailed
<1>0. drawn \in 0..MaxCodes /\ tried \in [Account!Codes -> Nat] /\ used \in [Account!Codes -> Nat]
  BY DEF AccountTypeOK
<1>1. CASE Account!Forgot
  BY <1>0, <1>1 DEF Account!Forgot
<1>2. ASSUME NEW d \in Devices, Account!Register(d)
      PROVE  CodesApart'
  BY <1>0, <1>2 DEF Account!Register
<1>3. ASSUME NEW d \in Devices, Account!Resend(d)
      PROVE  CodesApart'
  <2>1. /\ drawn' = drawn + 1 /\ drawn' \in Account!Codes
        /\ UNCHANGED <<pending, reset, tried, used>>
    BY <1>0, <1>3 DEF Account!Resend
  <2>2. /\ device'[d].version = drawn'
        /\ \A e \in Devices \ {d} : device'[e] = device[e]
    BY <1>3 DEF Account!Resend, Account!Goes, AccountTypeOK, AccountAsking, Account!Idle
  <2>3. Free(Mailed(d))' /\ Unspent(Mailed(d))'
    BY <1>0, <2>1, <2>2
  <2>4. ASSUME NEW e \in Devices \ {d}, device[e].pc = "resending"
        PROVE  Mailed(e)' = Mailed(e) /\ Mailed(e) # drawn' /\ Free(Mailed(e))' /\ Unspent(Mailed(e))'
    BY <1>0, <2>1, <2>2, <2>4
  <2>5. /\ reset'.live => reset'.code \in 1..drawn'
        /\ pending'.live => pending'.code \in 1..drawn'
        /\ reset'.live /\ pending'.live => reset'.code # pending'.code
        /\ \A c \in Account!Codes : c > drawn' => Unspent(c)'
    BY <1>0, <2>1
  <2> QED
    BY <2>2, <2>3, <2>4, <2>5
\* What stays apart when nothing is drawn and no live row gets another code.
<1>4. ASSUME NEW c \in Account!Codes,
             UNCHANGED drawn,
             \A e \in Devices : device'[e].pc = "resending" => device'[e] = device[e],
             reset'.live => reset.live /\ reset'.code = reset.code,
             pending'.live => pending.live /\ pending'.code = pending.code,
             \A b \in Account!Codes \ {c} : tried'[b] = tried[b] /\ used'[b] = used[b],
             \/ tried'[c] = tried[c] /\ used'[c] = used[c]
             \/ reset.live /\ c = reset.code
             \/ pending.live /\ c = pending.code
      PROVE  CodesApart'
  <2>1. ASSUME NEW b \in Account!Codes, b > drawn \/ Free(b)
        PROVE  Unspent(b) => Unspent(b)'
    BY <1>0, <1>4, <2>1
  <2>2. \A b : Free(b) => b \in Account!Codes /\ Free(b)'
    BY <1>0, <1>4
  <2>3. /\ reset'.live => reset'.code \in 1..drawn'
        /\ pending'.live => pending'.code \in 1..drawn'
        /\ reset'.live /\ pending'.live => reset'.code # pending'.code
    BY <1>4
  <2>4. \A b \in Account!Codes : b > drawn' => Unspent(b)'
    BY <1>4, <2>1
  <2>5. ASSUME NEW e \in Devices, device'[e].pc = "resending"
        PROVE  Free(Mailed(e))' /\ Unspent(Mailed(e))'
    <3>1. device'[e] = device[e] /\ Free(Mailed(e)) /\ Unspent(Mailed(e))
      BY <1>4, <2>5
    <3> QED
      BY <3>1, <2>1, <2>2 DEF Mailed
  <2>6. ASSUME NEW e \in Devices, device'[e].pc = "resending",
               NEW b \in Devices \ {e}, device'[b].pc = "resending"
        PROVE  Mailed(b)' # Mailed(e)'
    BY <1>4, <2>6
  <2> QED
    BY <2>3, <2>4, <2>5, <2>6
<1>5. ASSUME NEW d \in Devices,
             Account!Authenticate(d) \/ Account!Rehash(d) \/ Account!Enter(d) \/ Account!Ends(d) \/ Account!AskReset(d) \/ Account!ResetPassword(d) \/ Account!AskComplete(d)
      PROVE  CodesApart'
  <2>1. UNCHANGED <<pending, reset, drawn, tried, used>>
    BY <1>5 DEF Account!Authenticate, Account!Rehash, Account!Enter, Account!Ends, Account!AskReset,
       Account!ResetPassword, Account!AskComplete
  <2> QED
    BY <1>5, <2>1, ResendsAlone
<1>6. ASSUME NEW d \in Devices, Account!StoreCode(d)
      PROVE  CodesApart'
  <2>1. CASE Account!PendingStands(d)
    <3>1. /\ pending'.live /\ pending'.code = Mailed(d)
          /\ UNCHANGED <<reset, drawn, tried, used>>
      BY <1>6, <2>1 DEF Account!StoreCode, Account!PendingStands, AccountTypeOK
    <3>2. device[d].pc = "resending"
      BY <1>6 DEF Account!StoreCode
    <3> QED
      BY <1>6, <3>1, <3>2, ResendsAlone
  <2>2. CASE ~Account!PendingStands(d)
    <3>1. UNCHANGED <<pending, reset, drawn, tried, used>>
      BY <1>6, <2>2 DEF Account!StoreCode
    <3> QED
      BY <1>6, <3>1, ResendsAlone
  <2> QED
    BY <2>1, <2>2
<1>7. ASSUME NEW d \in Devices, Account!SpendReset(d) \/ Account!ConsumeReset(d)
      PROVE  CodesApart'
  <2>1. \A e \in Devices : device'[e].pc = "resending" => device'[e] = device[e]
    BY <1>7, ResendsAlone
  <2>2. CASE UNCHANGED <<reset, tried, used>>
    BY <1>7, <2>1, <2>2 DEF Account!SpendReset, Account!ConsumeReset
  <2>3. CASE Account!ResetStands(d)
    <3>1. reset.live /\ reset.code \in Account!Codes /\ device[d].code = reset.code
      BY <2>3, CodeStands DEF Account!ResetStands
    <3>2. /\ reset'.live => reset'.code = reset.code
          /\ \A b \in Account!Codes \ {reset.code} : tried'[b] = tried[b] /\ used'[b] = used[b]
          /\ UNCHANGED <<pending, drawn>>
      BY <1>0, <1>7, <2>3, <3>1 DEF Account!SpendReset, Account!ConsumeReset, AccountTypeOK
    <3> QED
      BY <1>4, <2>1, <3>1, <3>2
  <2> QED
    BY <1>7, <2>2, <2>3 DEF Account!SpendReset, Account!ConsumeReset
<1>8. ASSUME NEW d \in Devices, Account!SpendComplete(d) \/ Account!Activate(d)
      PROVE  CodesApart'
  <2>1. \A e \in Devices : device'[e].pc = "resending" => device'[e] = device[e]
    BY <1>8, ResendsAlone
  <2>2. CASE ~Account!PendingStands(d)
    <3>1. /\ pending'.live => pending.live /\ pending'.code = pending.code
          /\ UNCHANGED <<reset, drawn, used>>
      BY <1>8, <2>2 DEF Account!SpendComplete, Account!Activate, AccountTypeOK
    <3>2. tried' = tried
      BY <1>8, <2>2, GuessedAnother DEF Account!Activate
    <3> QED
      BY <2>1, <3>1, <3>2
  <2>3. CASE Account!PendingStands(d)
    <3>1. pending.live /\ pending.code \in Account!Codes /\ device[d].code = pending.code
      BY <2>3, CodeStands DEF Account!PendingStands
    <3>2. /\ pending'.live => pending'.code = pending.code
          /\ \A b \in Account!Codes \ {pending.code} : tried'[b] = tried[b] /\ used'[b] = used[b]
          /\ UNCHANGED <<reset, drawn>>
      BY <1>0, <1>8, <2>3, <3>1 DEF Account!SpendComplete, Account!Activate, AccountTypeOK
    <3> QED
      BY <1>4, <2>1, <3>1, <3>2
  <2> QED
    BY <2>2, <2>3
<1>9. CASE (\E d \in Devices : Account!Leave(d)) \/ UNCHANGED Account!vars
  BY <1>9 DEF Account!Leave, Account!vars
<1> QED
  BY <1>1, <1>2, <1>3, <1>5, <1>6, <1>7, <1>8, <1>9 DEF Account!Next

-----------------------------------------------------------------------------
(* Guesses.                                                                *)

LEMMA NextGuesses == AccountBounds /\ AccountTypeOK /\ CodesApart /\ GuessesCounted /\ [Account!Next]_Account!vars => GuessesCounted'
<1> SUFFICES ASSUME AccountBounds, AccountTypeOK, CodesApart, GuessesCounted, [Account!Next]_Account!vars PROVE GuessesCounted'
  OBVIOUS
<1> USE DEF GuessesCounted
<1>0. /\ drawn \in 0..MaxCodes /\ tried \in [Account!Codes -> Nat] /\ used \in [Account!Codes -> Nat]
      /\ reset.attempts \in Nat /\ pending.attempts \in Nat
  BY DEF AccountTypeOK
<1>1. CASE Account!Forgot
  <2>1. drawn + 1 \in Account!Codes /\ Unspent(drawn + 1)
    BY <1>0, <1>1 DEF Account!Forgot, CodesApart, Account!Codes, AccountBounds
  <2>2. reset'.code = drawn + 1 /\ reset'.attempts = 0 /\ UNCHANGED <<pending, tried, used>>
    BY <1>1 DEF Account!Forgot
  <2> QED
    BY <2>1, <2>2 DEF Unspent
<1>8. ASSUME NEW d \in Devices, Account!Register(d)
      PROVE  GuessesCounted'
  <2>1. drawn + 1 \in Account!Codes /\ Unspent(drawn + 1)
    BY <1>0, <1>8 DEF Account!Register, CodesApart, Account!Codes, AccountBounds
  <2>2. pending'.code = drawn + 1 /\ pending'.attempts = 0 /\ UNCHANGED <<reset, tried, used>>
    BY <1>8 DEF Account!Register
  <2> QED
    BY <2>1, <2>2 DEF Unspent
<1>2. ASSUME NEW d \in Devices, Account!StoreCode(d)
      PROVE  GuessesCounted'
  <2>1. Unspent(Mailed(d))
    BY <1>2 DEF Account!StoreCode, CodesApart
  <2> QED
    BY <1>0, <1>2, <2>1 DEF Account!StoreCode, Unspent, Mailed, AccountTypeOK
<1>3. ASSUME NEW d \in Devices, Account!SpendReset(d)
      PROVE  GuessesCounted'
  <2>1. CASE UNCHANGED <<reset, tried>>
    BY <1>3, <2>1 DEF Account!SpendReset
  <2>2. CASE Account!ResetStands(d) /\ reset.attempts < CodeAttempts
    <3>1. reset.live /\ reset.code \in Account!Codes /\ device[d].code = reset.code
      BY <2>2, CodeStands DEF Account!ResetStands
    <3>2. /\ reset'.live = reset.live /\ reset'.code = reset.code /\ reset'.attempts = reset.attempts + 1
          /\ tried'[reset.code] = tried[reset.code] + 1
          /\ \A c \in Account!Codes \ {reset.code} : tried'[c] = tried[c]
          /\ UNCHANGED <<pending, used>>
      <4>1. /\ reset' = [reset EXCEPT !.attempts = reset.attempts + 1]
            /\ tried' = [tried EXCEPT ![reset.code] = tried[reset.code] + 1]
            /\ UNCHANGED <<pending, used>>
        BY <1>3, <2>2, <3>1 DEF Account!SpendReset
      <4>2. /\ reset'.live = reset.live /\ reset'.code = reset.code
            /\ reset'.attempts = reset.attempts + 1
        BY <4>1 DEF AccountTypeOK
      <4> QED
        BY <1>0, <3>1, <4>1, <4>2
    <3>3. pending.live => pending.code \in Account!Codes /\ pending.code # reset.code
      BY <1>0, <3>1 DEF CodesApart, Account!Codes, AccountBounds
    <3> QED
      BY <1>0, <2>2, <3>1, <3>2, <3>3 DEF AccountBounds
  <2> QED
    BY <1>3, <2>1, <2>2 DEF Account!SpendReset
<1>4. ASSUME NEW d \in Devices, Account!ConsumeReset(d)
      PROVE  GuessesCounted'
  <2>1. CASE ~Account!ResetStands(d)
    BY <1>4, <2>1 DEF Account!ConsumeReset
  <2>2. CASE Account!ResetStands(d)
    <3>1. reset.live /\ reset.code \in Account!Codes /\ device[d].code = reset.code
      BY <2>2, CodeStands DEF Account!ResetStands
    <3>2. /\ ~reset'.live
          /\ used'[reset.code] = used[reset.code] + 1
          /\ \A c \in Account!Codes \ {reset.code} : used'[c] = used[c]
          /\ UNCHANGED <<pending, tried>>
      <4>1. /\ reset' = [reset EXCEPT !.live = FALSE]
            /\ used' = [used EXCEPT ![reset.code] = used[reset.code] + 1]
            /\ UNCHANGED <<pending, tried>>
        BY <1>4, <2>2, <3>1 DEF Account!ConsumeReset
      <4> QED
        BY <1>0, <3>1, <4>1 DEF AccountTypeOK
    <3>3. pending.live => pending.code \in Account!Codes /\ pending.code # reset.code
      BY <1>0, <3>1 DEF CodesApart, Account!Codes, AccountBounds
    <3> QED
      BY <1>0, <3>1, <3>2, <3>3
  <2> QED
    BY <2>1, <2>2
<1>5. ASSUME NEW d \in Devices, Account!SpendComplete(d)
      PROVE  GuessesCounted'
  <2>1. CASE UNCHANGED <<pending, tried>>
    BY <1>5, <2>1 DEF Account!SpendComplete
  <2>2. CASE Account!PendingStands(d) /\ pending.attempts < CodeAttempts
    <3>1. pending.live /\ pending.code \in Account!Codes /\ device[d].code = pending.code
      BY <2>2, CodeStands DEF Account!PendingStands
    <3>2. /\ pending'.live = pending.live /\ pending'.code = pending.code /\ pending'.attempts = pending.attempts + 1
          /\ tried'[pending.code] = tried[pending.code] + 1
          /\ \A c \in Account!Codes \ {pending.code} : tried'[c] = tried[c]
          /\ UNCHANGED <<reset, used>>
      <4>1. pending.live /\ pending.device = d /\ pending.attempts < CodeAttempts
        BY <2>2 DEF Account!PendingStands
      <4>2. /\ pending' = [pending EXCEPT !.attempts = pending.attempts + 1]
            /\ tried' = [tried EXCEPT ![pending.code] = tried[pending.code] + 1]
            /\ UNCHANGED <<reset, used>>
        BY <1>5, <2>2, <3>1, <4>1 DEF Account!SpendComplete
      <4>3. /\ pending'.live = pending.live /\ pending'.code = pending.code
            /\ pending'.attempts = pending.attempts + 1
        BY <4>2 DEF AccountTypeOK
      <4> QED
        BY <1>0, <3>1, <4>2, <4>3
    <3>3. reset.live => reset.code \in Account!Codes /\ pending.code # reset.code
      BY <1>0, <3>1 DEF CodesApart, Account!Codes, AccountBounds
    <3> QED
      BY <1>0, <2>2, <3>1, <3>2, <3>3 DEF AccountBounds
  <2>3. CASE ~Account!PendingStands(d) /\ pending.attempts < CodeAttempts
    <3>1. /\ pending'.live = pending.live /\ pending'.code = pending.code
          /\ pending'.attempts \in {pending.attempts, pending.attempts + 1}
          /\ UNCHANGED <<reset, used>>
      BY <1>0, <1>5, <2>3 DEF Account!SpendComplete, AccountTypeOK
    <3>2. tried' = tried
      BY <1>5, <2>3, GuessedAnother
    <3> QED
      <4>1. pending.live => pending.code \in Account!Codes
        BY <1>0 DEF CodesApart, Account!Codes, AccountBounds
      <4> QED
        BY <1>0, <3>1, <3>2, <4>1
  <2> QED
    BY <1>5, <2>1, <2>2, <2>3 DEF Account!SpendComplete
<1>6. ASSUME NEW d \in Devices, Account!Activate(d)
      PROVE  GuessesCounted'
  <2>1. CASE ~Account!PendingStands(d)
    BY <1>6, <2>1 DEF Account!Activate
  <2>2. CASE Account!PendingStands(d)
    <3>1. pending.live /\ pending.code \in Account!Codes /\ device[d].code = pending.code
      BY <2>2, CodeStands DEF Account!PendingStands
    <3>2. /\ ~pending'.live
          /\ used'[pending.code] = used[pending.code] + 1
          /\ \A c \in Account!Codes \ {pending.code} : used'[c] = used[c]
          /\ UNCHANGED <<reset, tried>>
      <4>1. /\ pending' = [pending EXCEPT !.live = FALSE]
            /\ used' = [used EXCEPT ![pending.code] = used[pending.code] + 1]
            /\ UNCHANGED <<reset, tried>>
        BY <1>6, <2>2, <3>1 DEF Account!Activate
      <4> QED
        BY <1>0, <3>1, <4>1 DEF AccountTypeOK
    <3>3. reset.live => reset.code \in Account!Codes /\ pending.code # reset.code
      BY <1>0, <3>1 DEF CodesApart, Account!Codes, AccountBounds
    <3> QED
      BY <1>0, <3>1, <3>2, <3>3
  <2> QED
    BY <2>1, <2>2
<1>7. CASE UNCHANGED <<pending, reset, tried, used>>
  BY <1>7
<1>9. ASSUME NEW d \in Devices,
             \/ Account!Authenticate(d) \/ Account!Rehash(d) \/ Account!Enter(d) \/ Account!Leave(d)
             \/ Account!Ends(d) \/ Account!AskReset(d) \/ Account!ResetPassword(d)
             \/ Account!Resend(d) \/ Account!AskComplete(d)
      PROVE  GuessesCounted'
  <2>1. CASE Account!Authenticate(d) \/ Account!Rehash(d) \/ Account!Enter(d) \/ Account!Leave(d) \/ Account!Ends(d)
    BY <1>7, <2>1 DEF Account!Authenticate, Account!Rehash, Account!Enter, Account!Leave, Account!Ends
  <2>2. CASE Account!AskReset(d) \/ Account!ResetPassword(d) \/ Account!Resend(d) \/ Account!AskComplete(d)
    BY <1>7, <2>2 DEF Account!AskReset, Account!ResetPassword, Account!Resend, Account!AskComplete
  <2> QED
    BY <1>9, <2>1, <2>2
<1>10. CASE UNCHANGED Account!vars
  BY <1>7, <1>10 DEF Account!vars
<1> QED
  BY <1>1, <1>2, <1>3, <1>4, <1>5, <1>6, <1>8, <1>9, <1>10 DEF Account!Next

LEMMA AccountStays == AccountBounds /\ AccountInv /\ [Account!Next]_Account!vars => AccountInv'
BY AccountStepTyped, NextKnows, NextApart, NextGuesses DEF AccountInv

-----------------------------------------------------------------------------
(* Theorems.                                                               *)

LEMMA AccountInvariant == ASSUME AccountBounds PROVE Account!Spec => []AccountInv
<1>1. Account!Init => AccountInv
  BY AccountStarts
<1>2. AccountInv /\ [Account!Next]_Account!vars => AccountInv'
  BY AccountStays
<1> QED
  BY <1>1, <1>2, PTL DEF Account!Spec

\* The account, its challenges, requests and sessions are well typed, for any devices,
\* codes and attempts.
THEOREM AccountTyped == ASSUME AccountBounds PROVE Account!Spec => []AccountTypeOK
<1>1. AccountInv => AccountTypeOK
  BY DEF AccountInv
<1> QED
  BY <1>1, AccountInvariant, PTL

\* However sign-ins, rehashes, resets and registrations overtake each other: who is
\* signed in stands behind the password the account has now, a code is guessed at most
\* CodeAttempts times while it stands, and works once.
THEOREM AccountIsKept == ASSUME AccountBounds PROVE Account!Spec => []Account!AccountKept
<1>1. AccountInv => Account!AccountKept
  BY DEF AccountInv, AccountTypeOK, AccountRow, KnowsItsVersion, Knows, GuessesCounted,
     Account!AccountKept, Account!Resolves
<1> QED
  BY <1>1, AccountInvariant, PTL

LEMMA StepRespectsAccount == AccountInv /\ [Account!Next]_Account!vars => Account!RespectsAccount
<1> SUFFICES ASSUME AccountInv, [Account!Next]_Account!vars, account.version > 0, account'.password # account.password
             PROVE  account'.version = account.version + 1 /\ \A d \in Devices : ~Account!Resolves(d)'
  BY DEF Account!RespectsAccount
<1>1. PICK d \in Devices : Account!ResetPassword(d)
  <2>1. ASSUME NEW d \in Devices, Account!Rehash(d)
        PROVE  FALSE
    BY <2>1 DEF Account!Rehash, Account!Current, AccountInv, AccountTypeOK, AccountRow
  <2>2. ASSUME NEW d \in Devices, Account!Activate(d)
        PROVE  FALSE
    BY <2>2 DEF Account!Activate
  <2>3. account' # account
    OBVIOUS
  <2> QED
    BY <2>1, <2>2, <2>3 DEF Account!Next, Account!vars, Account!Forgot, Account!Authenticate,
       Account!Enter, Account!Leave, Account!Ends, Account!AskReset, Account!SpendReset,
       Account!ConsumeReset, Account!Register, Account!Resend, Account!StoreCode, Account!AskComplete, Account!SpendComplete
<1>2. account'.version = account.version + 1 /\ \A e \in Devices : ~hostSession'[e].live
  BY <1>1 DEF Account!ResetPassword, AccountInv, AccountTypeOK, HostSession
<1> QED
  BY <1>2 DEF Account!Resolves

\* The password of an account changes only by a reset, which signs every device out.
THEOREM AccountIsRespected == ASSUME AccountBounds PROVE Account!Spec => Account!AccountRespected
BY AccountInvariant, StepRespectsAccount, PTL DEF Account!Spec, Account!AccountRespected

-----------------------------------------------------------------------------
(* The mails to the owner.                                                  *)

Reasons == {"none", "address_unverified", "suppressed_by_preference", "event_deleted", "send_failed"}
Letter == [status: {"pending", "sending", "sent", "failed"}, due: BOOLEAN, holder: Passes \cup {NoPass},
           lapsed: BOOLEAN, attempts: Nat, reason: Reasons]
Courier == [left: SUBSET Rows, at: {"page", "sending", "delivered", "refused"}, of: SUBSET Rows]

MailTyped ==
    /\ mail \in [Rows -> Letter] /\ courier \in [Passes -> Courier]
    /\ verified \in BOOLEAN /\ wanted \in BOOLEAN /\ deleted \in BOOLEAN /\ verifying \in BOOLEAN
    /\ unheard \in BOOLEAN
    /\ sent \in [Rows -> Nat] /\ lapses \in [Rows -> Nat]

\* The passes that are about to ask the provider to take this mail.
Sending(r) == {p \in Passes : courier[p].at = "sending" /\ r \in courier[p].of}

\* A mail that may still be authorized under the lease it has, or without one.
Authorizable(r) ==
    \/ mail[r].status = "pending"
    \/ mail[r].status = "failed" /\ mail[r].reason = "address_unverified"
    \/ /\ mail[r].status = "sending" /\ mail[r].holder \in Passes
       /\ \/ r \in courier[mail[r].holder].left
          \/ courier[mail[r].holder].at = "refused" /\ r \in courier[mail[r].holder].of

\* Every lease pays for one mail at most: taken, on its way, or still possible.
PaidFor ==
    \A r \in Rows :
        sent[r] + Cardinality(Sending(r)) + (IF Authorizable(r) THEN 1 ELSE 0) <= 1 + lapses[r]

\* A pass deals with each of its rows once.
OneAtATime ==
    \A p \in Passes :
        /\ courier[p].of \cap courier[p].left = {}
        /\ courier[p].at = "page" => courier[p].of = {}
        /\ courier[p].at = "delivered" => \A r \in courier[p].of : sent[r] > 0

\* What may be tried again has been tried less often than allowed.
TriesLeft ==
    \A r \in Rows :
        /\ mail[r].attempts <= MaxSends
        /\ \/ mail[r].status \in {"pending", "sending"}
           \/ mail[r].status = "failed" /\ mail[r].reason = "address_unverified"
           => mail[r].attempts < MaxSends
        /\ mail[r].status = "sent" => sent[r] > 0

Heard == verified /\ ~verifying /\ ~unheard =>
            \A r \in Rows : ~(mail[r].status = "failed" /\ mail[r].reason = "address_unverified")

MailInv == MailTyped /\ PaidFor /\ OneAtATime /\ TriesLeft /\ Heard /\ (verifying => verified)

Paid(r) == sent[r] + Cardinality(Sending(r)) + (IF Authorizable(r) THEN 1 ELSE 0) <= 1 + lapses[r]

LEMMA SendingFinite ==
    ASSUME MailBounds, NEW r \in Rows
    PROVE  IsFiniteSet(Sending(r)) /\ Cardinality(Sending(r)) \in Nat
BY FS_Subset, FS_CardinalityType DEF MailBounds, Sending

LEMMA SendingFinitePrimed ==
    ASSUME MailBounds, NEW r \in Rows
    PROVE  IsFiniteSet(Sending(r)') /\ Cardinality(Sending(r)') \in Nat
<1>1. Sending(r)' \subseteq Passes
  BY DEF Sending
<1> QED
  BY <1>1, FS_Subset, FS_CardinalityType DEF MailBounds

\* No mail is asked for, and none becomes possible but by a lease that is over.
LEMMA StaysPaid ==
    ASSUME MailBounds, MailInv, MailTyped', NEW r \in Rows,
           Sending(r)' \subseteq Sending(r), sent'[r] = sent[r],
           \/ lapses'[r] = lapses[r] /\ (Authorizable(r)' => Authorizable(r))
           \/ lapses'[r] = lapses[r] + 1
    PROVE  Paid(r)'
<1>1. Cardinality(Sending(r)') <= Cardinality(Sending(r)) /\ Cardinality(Sending(r)') \in Nat
      /\ Cardinality(Sending(r)) \in Nat
  BY SendingFinite, FS_Subset, FS_CardinalityType
<1>2. sent[r] \in Nat /\ lapses[r] \in Nat /\ Paid(r)
  BY DEF MailInv, MailTyped, PaidFor, Paid
<1> QED
  BY <1>1, <1>2 DEF Paid

LEMMA MailStarts == MailBounds /\ Mail!Init => MailInv
<1> SUFFICES ASSUME MailBounds, Mail!Init PROVE MailInv
  OBVIOUS
<1> USE DEF Mail!Init, Mail!Waiting, Mail!Idle
<1>1. MailTyped
  BY DEF MailTyped, Letter, Courier, Reasons
<1>2. PaidFor
  <2> SUFFICES ASSUME NEW r \in Rows PROVE Paid(r)
    BY DEF PaidFor, Paid
  <2>1. Sending(r) = {}
    BY DEF Sending
  <2> QED
    BY <2>1, FS_EmptySet DEF Paid
<1>3. OneAtATime /\ TriesLeft /\ Heard /\ (verifying => verified)
  BY DEF OneAtATime, TriesLeft, Heard, MailBounds
<1> QED
  BY <1>1, <1>2, <1>3 DEF MailInv

\* The clock, and the cron's first statement.
LEMMA ClockKeepsMail ==
    ASSUME MailBounds, MailInv,
           (\E r \in Rows : Mail!RetryDue(r) \/ Mail!LeaseEnds(r)) \/ Mail!ReclaimExpired
    PROVE  MailInv'
<1> USE DEF MailInv
<1>1. UNCHANGED <<courier, verified, wanted, deleted, verifying, sent, unheard>>
  BY DEF Mail!RetryDue, Mail!LeaseEnds, Mail!ReclaimExpired
<1>2. \A r \in Rows :
        /\ mail'[r] \in Letter /\ lapses'[r] \in {lapses[r], lapses[r] + 1}
        /\ mail'[r].attempts = mail[r].attempts /\ mail'[r].reason = mail[r].reason
        /\ \/ mail'[r].status = mail[r].status /\ mail'[r].holder = mail[r].holder
           \/ mail[r].status = "sending" /\ mail'[r].status = "pending" /\ lapses'[r] = lapses[r] + 1
  <2>1. ASSUME NEW q \in Rows, Mail!RetryDue(q) \/ Mail!LeaseEnds(q), NEW r \in Rows
        PROVE  /\ mail'[r] \in Letter /\ lapses'[r] = lapses[r] /\ mail'[r].attempts = mail[r].attempts
               /\ mail'[r].reason = mail[r].reason /\ mail'[r].status = mail[r].status /\ mail'[r].holder = mail[r].holder
    <3>1. CASE Mail!RetryDue(q)
      BY <3>1 DEF Mail!RetryDue, MailTyped, Letter
    <3>2. CASE Mail!LeaseEnds(q)
      BY <3>2 DEF Mail!LeaseEnds, MailTyped, Letter
    <3> QED
      BY <2>1, <3>1, <3>2
  <2>2. ASSUME Mail!ReclaimExpired, NEW r \in Rows
        PROVE  /\ mail'[r] \in Letter /\ lapses'[r] \in {lapses[r], lapses[r] + 1}
               /\ mail'[r].attempts = mail[r].attempts /\ mail'[r].reason = mail[r].reason
               /\ \/ mail'[r] = mail[r]
                  \/ mail[r].status = "sending" /\ mail'[r].status = "pending" /\ lapses'[r] = lapses[r] + 1
    BY <2>2 DEF Mail!ReclaimExpired, Mail!Freed, MailTyped, Letter
  <2> QED
    BY <2>1, <2>2
<1>3. MailTyped'
  <2>1. mail' \in [Rows -> Letter] /\ lapses' \in [Rows -> Nat]
    BY <1>2 DEF Mail!RetryDue, Mail!LeaseEnds, Mail!ReclaimExpired, MailTyped
  <2> QED
    BY <1>1, <2>1 DEF MailTyped
<1>4. PaidFor'
  <2> SUFFICES ASSUME NEW r \in Rows PROVE Paid(r)'
    BY DEF PaidFor, Paid
  <2>1. Sending(r)' = Sending(r) /\ sent'[r] = sent[r]
    BY <1>1 DEF Sending
  <2>2. lapses'[r] = lapses[r] => (Authorizable(r)' => Authorizable(r))
    <3>1. lapses[r] \in Nat
      BY DEF MailTyped
    <3> QED
      BY <1>1, <1>2, <3>1 DEF Authorizable
  <2> QED
    BY <1>2, <1>3, <2>1, <2>2, StaysPaid
<1>5. OneAtATime' /\ (verifying => verified)'
  BY <1>1 DEF OneAtATime
<1>6. TriesLeft'
  BY <1>1, <1>2 DEF TriesLeft
<1>7. Heard'
  BY <1>1, <1>2 DEF Heard
<1> QED
  BY <1>3, <1>4, <1>5, <1>6, <1>7

\* A step of one pass keeps the others apart.
LEMMA StaysApart ==
    ASSUME MailInv, NEW p \in Passes, \A q \in Passes \ {p} : courier'[q] = courier[q],
           \A r \in Rows : sent'[r] \in Nat /\ sent'[r] >= sent[r],
           courier'[p].of \cap courier'[p].left = {},
           courier'[p].at = "page" => courier'[p].of = {},
           courier'[p].at = "delivered" => \A r \in courier'[p].of : sent'[r] > 0
    PROVE  OneAtATime'
<1>1. ASSUME NEW q \in Passes \ {p}
      PROVE  /\ courier'[q].of \cap courier'[q].left = {}
             /\ courier'[q].at = "page" => courier'[q].of = {}
             /\ courier'[q].at = "delivered" => \A r \in courier'[q].of : sent'[r] > 0
  <2>1. courier'[q] = courier[q] /\ courier[q].of \subseteq Rows
    BY DEF MailInv, MailTyped, Courier
  <2>2. /\ courier[q].of \cap courier[q].left = {}
        /\ courier[q].at = "page" => courier[q].of = {}
        /\ courier[q].at = "delivered" => \A r \in courier[q].of : sent[r] > 0
    BY DEF MailInv, OneAtATime
  <2>3. \A r \in Rows : sent[r] \in Nat
    BY DEF MailInv, MailTyped
  <2>4. courier'[q].at = "delivered" => \A r \in courier'[q].of : sent'[r] > 0
    BY <2>1, <2>2, <2>3
  <2> QED
    BY <2>1, <2>2, <2>4
<1> QED
  BY <1>1 DEF OneAtATime

LEMMA ClaimKeepsMail ==
    ASSUME MailBounds, MailInv, NEW p \in Passes, Mail!ClaimDue(p)
    PROVE  MailInv'
<1> USE DEF MailInv
<1> DEFINE due == {r \in Rows : mail[r].status = "pending" /\ mail[r].due}
<1>1. /\ UNCHANGED <<verified, wanted, deleted, verifying, sent, lapses, unheard>>
      /\ \A r \in Rows : mail'[r] = IF r \in due THEN [mail[r] EXCEPT !.status = "sending", !.holder = p] ELSE mail[r]
      /\ mail' = [r \in Rows |-> mail'[r]]
      /\ courier[p] = Mail!Idle /\ courier' = [courier EXCEPT ![p].left = due]
  BY DEF Mail!ClaimDue
<1>2. /\ courier'[p] = [left |-> due, at |-> "page", of |-> {}] /\ courier' \in [Passes -> Courier]
      /\ \A q \in Passes \ {p} : courier'[q] = courier[q]
  <2>1. courier'[p] = [courier[p] EXCEPT !.left = due] /\ \A q \in Passes \ {p} : courier'[q] = courier[q]
    BY <1>1 DEF MailTyped
  <2>2. courier'[p] = [left |-> due, at |-> "page", of |-> {}]
    <3> HIDE DEF due
    <3>1. courier'[p] = [[left |-> {}, at |-> "page", of |-> {}] EXCEPT !.left = due]
      BY <1>1, <2>1 DEF Mail!Idle
    <3> QED
      BY <3>1
  <2>3. courier'[p] \in Courier
    BY <2>2 DEF Courier
  <2> QED
    BY <1>1, <2>1, <2>2, <2>3 DEF MailTyped
<1>3. \A r \in Rows : /\ mail'[r] \in Letter /\ mail'[r].attempts = mail[r].attempts /\ mail'[r].reason = mail[r].reason
                      /\ \/ r \in due /\ mail[r].status = "pending" /\ mail'[r].status = "sending"
                         \/ r \notin due /\ mail'[r] = mail[r]
  BY <1>1 DEF MailTyped, Letter
<1>4. MailTyped'
  BY <1>1, <1>2, <1>3 DEF MailTyped
<1>5. PaidFor'
  <2> SUFFICES ASSUME NEW r \in Rows PROVE Paid(r)'
    BY DEF PaidFor, Paid
  <2>1. Sending(r)' \subseteq Sending(r)
    BY <1>2 DEF Sending
  <2>2. Authorizable(r)' => Authorizable(r)
    <3>1. CASE r \in due
      BY <3>1 DEF Authorizable
    <3>2. CASE r \notin due
      <4>1. mail'[r] = mail[r]
        BY <1>3, <3>2
      <4>2. mail[r].holder # p => (Authorizable(r)' => Authorizable(r))
        BY <1>2, <4>1 DEF Authorizable
      <4>3. mail[r].holder = p => (Authorizable(r)' => Authorizable(r))
        BY <1>2, <3>2, <4>1 DEF Authorizable
      <4> QED
        BY <4>2, <4>3
    <3> QED
      BY <3>1, <3>2
  <2> QED
    BY <1>1, <1>4, <2>1, <2>2, StaysPaid
<1>6. OneAtATime' /\ (verifying => verified)'
  <2> HIDE DEF due
  <2>1. sent' = sent /\ sent \in [Rows -> Nat] /\ due \cap {} = {} /\ verifying' = verifying /\ verified' = verified
    BY <1>1 DEF MailTyped
  <2>2. \A r \in Rows : sent'[r] \in Nat /\ sent'[r] >= sent[r]
    BY <2>1
  <2>3. courier'[p].of = {} /\ courier'[p].at = "page"
    BY <1>2
  <2>4. OneAtATime'
    BY <1>2, <2>2, <2>3, StaysApart
  <2> QED
    BY <2>1, <2>4
<1>7. TriesLeft' /\ Heard'
  BY <1>1, <1>3 DEF TriesLeft, Heard
<1> QED
  BY <1>4, <1>5, <1>6, <1>7

LEMMA AuthorizeKeepsMail ==
    ASSUME MailBounds, MailInv, NEW p \in Passes, NEW m \in Rows, Mail!Authorize(p, m)
    PROVE  MailInv'
<1> USE DEF MailInv
<1>1. /\ UNCHANGED <<verified, wanted, deleted, verifying, sent, lapses, unheard>>
      /\ courier[p].at = "page" /\ m \in courier[p].left /\ courier[p].of = {} /\ courier[p] \in Courier
  BY DEF Mail!Authorize, MailTyped, OneAtATime
<1>0. \A r \in Rows : sent'[r] \in Nat /\ sent'[r] >= sent[r]
  BY <1>1 DEF MailTyped
<1>2. CASE Mail!Permitted(p, m) /\ Mail!Refusal = "none"
  <2>1. /\ UNCHANGED mail
        /\ courier'[p] = [left |-> courier[p].left \ {m}, at |-> "sending", of |-> {m}]
        /\ courier' \in [Passes -> Courier] /\ \A q \in Passes \ {p} : courier'[q] = courier[q]
    <3>1. courier' = [courier EXCEPT ![p] = [left |-> courier[p].left \ {m}, at |-> "sending", of |-> {m}]] /\ UNCHANGED mail
      BY <1>2 DEF Mail!Authorize
    <3>2. [left |-> courier[p].left \ {m}, at |-> "sending", of |-> {m}] \in Courier
      BY <1>1 DEF Courier
    <3> QED
      BY <3>1, <3>2 DEF MailTyped
  <2>2. MailTyped'
    BY <1>1, <2>1 DEF MailTyped
  <2>3. PaidFor'
    <3> SUFFICES ASSUME NEW r \in Rows PROVE Paid(r)'
      BY DEF PaidFor, Paid
    <3>1. CASE r = m
      <4>1. Sending(m)' = Sending(m) \cup {p} /\ p \notin Sending(m)
        BY <1>1, <2>1 DEF Sending
      <4>2. Cardinality(Sending(m)') = Cardinality(Sending(m)) + 1
        BY <4>1, SendingFinite, FS_AddElement
      <4>3. mail[m].status = "sending" /\ mail[m].holder = p
        BY <1>2 DEF Mail!Permitted, Mail!Held
      <4>4. Authorizable(m) /\ ~Authorizable(m)'
        BY <1>1, <2>1, <4>3 DEF Authorizable
      <4>5. sent[m] \in Nat /\ lapses[m] \in Nat /\ Cardinality(Sending(m)) \in Nat /\ Paid(m)
        BY SendingFinite DEF MailTyped, PaidFor, Paid
      <4> QED
        BY <1>1, <3>1, <4>2, <4>4, <4>5 DEF Paid
    <3>2. CASE r # m
      <4>1. Sending(r)' \subseteq Sending(r)
        BY <2>1, <3>2 DEF Sending
      <4>2. Authorizable(r)' => Authorizable(r)
        BY <2>1, <3>2 DEF Authorizable
      <4> QED
        BY <1>1, <2>2, <4>1, <4>2, StaysPaid
    <3> QED
      BY <3>1, <3>2
  <2>4. OneAtATime' /\ (verifying => verified)'
    BY <1>0, <1>1, <2>1, StaysApart
  <2>5. TriesLeft' /\ Heard'
    BY <1>1, <2>1 DEF TriesLeft, Heard
  <2> QED
    BY <2>2, <2>3, <2>4, <2>5
<1>3. CASE ~(Mail!Permitted(p, m) /\ Mail!Refusal = "none")
  <2>1. /\ courier'[p] = [left |-> courier[p].left \ {m}, at |-> "page", of |-> {}]
        /\ courier' \in [Passes -> Courier] /\ \A q \in Passes \ {p} : courier'[q] = courier[q]
    <3>1. courier' = [courier EXCEPT ![p].left = @ \ {m}]
      BY <1>3 DEF Mail!Authorize
    <3>2. courier'[p] = [courier[p] EXCEPT !.left = @ \ {m}] /\ \A q \in Passes \ {p} : courier'[q] = courier[q]
      BY <3>1 DEF MailTyped
    <3>3. [courier[p] EXCEPT !.left = @ \ {m}] = [left |-> courier[p].left \ {m}, at |-> "page", of |-> {}]
      BY <1>1 DEF Courier
    <3>4. [courier[p] EXCEPT !.left = @ \ {m}] \in Courier
      BY <1>1, <3>3 DEF Courier
    <3> QED
      BY <3>1, <3>2, <3>3, <3>4 DEF MailTyped
  <2>2. CASE ~Mail!Permitted(p, m)
    <3>1. UNCHANGED mail
      BY <1>3, <2>2 DEF Mail!Authorize
    <3>2. MailTyped'
      BY <1>1, <2>1, <3>1 DEF MailTyped
    <3>3. PaidFor'
      <4> SUFFICES ASSUME NEW r \in Rows PROVE Paid(r)'
        BY DEF PaidFor, Paid
      <4>1. Sending(r)' \subseteq Sending(r)
        BY <2>1 DEF Sending
      <4>2. Authorizable(r)' => Authorizable(r)
        BY <2>1, <3>1 DEF Authorizable
      <4> QED
        BY <1>1, <3>2, <4>1, <4>2, StaysPaid
    <3>4. OneAtATime' /\ (verifying => verified)'
      BY <1>0, <1>1, <2>1, StaysApart
    <3>5. TriesLeft' /\ Heard'
      BY <1>1, <3>1 DEF TriesLeft, Heard
    <3> QED
      BY <3>2, <3>3, <3>4, <3>5
  <2>3. CASE Mail!Permitted(p, m)
    <3>1. Mail!Refusal \in Reasons \ {"none", "send_failed"} /\ (Mail!Refusal = "address_unverified" => ~verified)
      BY <1>3, <2>3 DEF Mail!Refusal, Reasons, MailTyped
    <3>2. mail' = [mail EXCEPT ![m] = [Mail!Freed(m) EXCEPT !.status = "failed", !.reason = Mail!Refusal]]
      BY <1>3, <2>3 DEF Mail!Authorize
    <3>3. /\ mail'[m] \in Letter /\ mail'[m].status = "failed" /\ mail'[m].reason = Mail!Refusal
          /\ mail'[m].attempts = mail[m].attempts /\ mail' \in [Rows -> Letter]
          /\ \A r \in Rows \ {m} : mail'[r] = mail[r]
      BY <3>1, <3>2 DEF MailTyped, Letter, Mail!Freed
    <3>4. mail[m].status = "sending" /\ mail[m].holder = p
      BY <2>3 DEF Mail!Permitted, Mail!Held
    <3>5. MailTyped'
      BY <1>1, <2>1, <3>3 DEF MailTyped
    <3>6. PaidFor'
      <4> SUFFICES ASSUME NEW r \in Rows PROVE Paid(r)'
        BY DEF PaidFor, Paid
      <4>1. Sending(r)' \subseteq Sending(r)
        BY <2>1 DEF Sending
      <4>2. Authorizable(m)
        BY <1>1, <3>4 DEF Authorizable
      <4>3. Authorizable(r)' => Authorizable(r)
        BY <2>1, <3>3, <4>2 DEF Authorizable
      <4> QED
        BY <1>1, <3>5, <4>1, <4>3, StaysPaid
    <3>7. OneAtATime' /\ (verifying => verified)'
      BY <1>0, <1>1, <2>1, StaysApart
    <3>8. TriesLeft' /\ Heard'
      BY <1>1, <3>1, <3>3, <3>4 DEF TriesLeft, Heard
    <3> QED
      BY <3>5, <3>6, <3>7, <3>8
  <2> QED
    BY <2>2, <2>3
<1> QED
  BY <1>2, <1>3

LEMMA SendKeepsMail ==
    ASSUME MailBounds, MailInv, NEW p \in Passes, Mail!Send(p)
    PROVE  MailInv'
<1> USE DEF MailInv
<1>1. /\ UNCHANGED <<mail, verified, wanted, deleted, verifying, lapses, unheard>>
      /\ courier[p].at = "sending" /\ courier[p] \in Courier
  BY DEF Mail!Send, MailTyped
<1>2. /\ courier' \in [Passes -> Courier] /\ \A q \in Passes \ {p} : courier'[q] = courier[q]
      /\ courier'[p].left = courier[p].left /\ courier'[p].of = courier[p].of /\ courier'[p].at \in {"delivered", "refused"}
  BY <1>1 DEF Mail!Send, MailTyped, Courier
<1>3. /\ sent' \in [Rows -> Nat]
      /\ \A r \in Rows : sent'[r] = IF courier'[p].at = "delivered" /\ r \in courier[p].of THEN sent[r] + 1 ELSE sent[r]
  BY <1>1 DEF Mail!Send, MailTyped, Courier
<1>4. MailTyped'
  BY <1>1, <1>2, <1>3 DEF MailTyped
<1>5. PaidFor'
  <2> SUFFICES ASSUME NEW r \in Rows PROVE Paid(r)'
    BY DEF PaidFor, Paid
  <2>1. CASE r \notin courier[p].of
    <3>1. Sending(r)' \subseteq Sending(r)
      BY <1>2, <2>1 DEF Sending
    <3>2. Authorizable(r)' => Authorizable(r)
      BY <1>1, <1>2, <2>1 DEF Authorizable
    <3> QED
      BY <1>1, <1>3, <1>4, <2>1, <3>1, <3>2, StaysPaid
  <2>2. CASE r \in courier[p].of
    <3>1. Sending(r)' = Sending(r) \ {p} /\ p \in Sending(r)
      BY <1>1, <1>2, <2>2 DEF Sending
    <3>2. Cardinality(Sending(r)') = Cardinality(Sending(r)) - 1
      BY <3>1, SendingFinite, FS_RemoveElement
    <3>3. sent[r] \in Nat /\ lapses[r] \in Nat /\ Cardinality(Sending(r)) \in Nat /\ Paid(r)
      BY SendingFinite DEF MailTyped, PaidFor, Paid
    <3>4. CASE courier'[p].at = "delivered"
      <4>1. Authorizable(r)' => Authorizable(r)
        BY <1>1, <1>2, <2>2, <3>4 DEF Authorizable
      <4> QED
        BY <1>1, <1>3, <2>2, <3>2, <3>3, <3>4, <4>1 DEF Paid
    <3>5. CASE courier'[p].at = "refused"
      <4>1. ~Authorizable(r) \/ mail[r].status # "sending" \/ mail[r].holder # p
        BY <1>1, <2>2 DEF OneAtATime, Authorizable
      <4>2. sent'[r] = sent[r]
        BY <1>3, <3>5
      <4> QED
        BY <1>1, <3>2, <3>3, <4>1, <4>2 DEF Paid
    <3> QED
      BY <1>2, <3>4, <3>5
  <2> QED
    BY <2>1, <2>2
<1>6. OneAtATime' /\ (verifying => verified)'
  <2>1. \A r \in Rows : sent'[r] \in Nat /\ sent'[r] >= sent[r]
    BY <1>3 DEF MailTyped
  <2>2. courier[p].of \cap courier[p].left = {} /\ courier[p].of \subseteq Rows
    BY <1>1 DEF OneAtATime, Courier
  <2>3. courier'[p].at = "delivered" => \A r \in courier'[p].of : sent'[r] > 0
    BY <1>2, <1>3, <2>2 DEF MailTyped
  <2> QED
    BY <1>1, <1>2, <2>1, <2>2, <2>3, StaysApart
<1>7. TriesLeft' /\ Heard'
  BY <1>1, <1>3 DEF TriesLeft, Heard, MailTyped
<1> QED
  BY <1>4, <1>5, <1>6, <1>7

LEMMA SettleKeepsMail ==
    ASSUME MailBounds, MailInv, NEW p \in Passes, Mail!Settle(p)
    PROVE  MailInv'
<1> USE DEF MailInv
<1> DEFINE mine == {r \in Rows : r \in courier[p].of /\ mail[r].status = "sending" /\ mail[r].holder = p}
<1>1. /\ UNCHANGED <<verified, wanted, deleted, verifying, sent, lapses, unheard>>
      /\ courier[p].at \in {"delivered", "refused"} /\ courier[p] \in Courier
  BY DEF Mail!Settle, MailTyped
<1>2. /\ courier'[p] = [left |-> courier[p].left, at |-> "page", of |-> {}] /\ courier' \in [Passes -> Courier]
      /\ \A q \in Passes \ {p} : courier'[q] = courier[q]
  <2>1. [Mail!Idle EXCEPT !.left = courier[p].left] = [left |-> courier[p].left, at |-> "page", of |-> {}]
    BY DEF Mail!Idle
  <2>2. [left |-> courier[p].left, at |-> "page", of |-> {}] \in Courier
    BY <1>1 DEF Courier
  <2>3. courier' = [courier EXCEPT ![p] = [left |-> courier[p].left, at |-> "page", of |-> {}]]
    BY <2>1 DEF Mail!Settle
  <2> QED
    BY <2>2, <2>3 DEF MailTyped
<1>3. /\ mail' = [r \in Rows |-> mail'[r]]
      /\ \A r \in Rows :
            IF r \in mine
              THEN /\ mail'[r] \in Letter
                   /\ mail'[r].attempts = mail[r].attempts + 1
                   /\ mail'[r].holder = NoPass
                   /\ \/ courier[p].at = "delivered" /\ mail'[r].status = "sent" /\ mail'[r].reason = "none"
                      \/ /\ courier[p].at = "refused" /\ mail'[r].reason = "send_failed"
                         /\ \/ mail'[r].status = "failed"
                            \/ mail'[r].status = "pending" /\ mail[r].attempts + 1 < MaxSends
              ELSE mail'[r] = mail[r]
  <2>1. \A r \in Rows : mail'[r] =
           IF r \notin mine THEN mail[r]
           ELSE [Mail!Freed(r) EXCEPT
                    !.status = IF courier[p].at = "delivered" THEN "sent"
                               ELSE IF Mail!Tried(p, r) >= MaxSends THEN "failed" ELSE "pending",
                    !.due = FALSE,
                    !.attempts = Mail!Tried(p, r),
                    !.reason = IF courier[p].at = "delivered" THEN "none" ELSE "send_failed"]
    BY DEF Mail!Settle, Mail!Fenced, Mail!Held
  <2>2. mail' = [r \in Rows |-> mail'[r]]
    BY DEF Mail!Settle
  <2>3. ASSUME NEW r \in mine
        PROVE  /\ mail'[r] \in Letter
               /\ mail'[r].attempts = mail[r].attempts + 1
               /\ mail'[r].holder = NoPass
               /\ \/ courier[p].at = "delivered" /\ mail'[r].status = "sent" /\ mail'[r].reason = "none"
                  \/ /\ courier[p].at = "refused" /\ mail'[r].reason = "send_failed"
                     /\ \/ mail'[r].status = "failed"
                        \/ mail'[r].status = "pending" /\ mail[r].attempts + 1 < MaxSends
    <3>1. mail[r] \in Letter /\ Mail!Freed(r) \in Letter
      BY DEF MailTyped, Letter, Mail!Freed
    <3>2. Mail!Tried(p, r) = mail[r].attempts + 1 /\ Mail!Tried(p, r) \in Nat /\ MaxSends \in Nat
      BY <3>1 DEF Mail!Tried, Letter, MailBounds
    <3>3. CASE courier[p].at = "delivered"
      <4>1. mail'[r] = [Mail!Freed(r) EXCEPT !.status = "sent", !.due = FALSE, !.attempts = Mail!Tried(p, r), !.reason = "none"]
        BY <2>1, <3>3
      <4> HIDE DEF mine
      <4> QED
        BY <3>1, <3>2, <3>3, <4>1 DEF Letter, Reasons, Mail!Freed
    <3>4. CASE courier[p].at = "refused"
      <4>1. CASE Mail!Tried(p, r) >= MaxSends
        <5>1. mail'[r] = [Mail!Freed(r) EXCEPT !.status = "failed", !.due = FALSE, !.attempts = Mail!Tried(p, r), !.reason = "send_failed"]
          BY <2>1, <3>4, <4>1
        <5> HIDE DEF mine
        <5> QED
          BY <3>1, <3>2, <3>4, <5>1 DEF Letter, Reasons, Mail!Freed
      <4>2. CASE ~(Mail!Tried(p, r) >= MaxSends)
        <5>1. mail'[r] = [Mail!Freed(r) EXCEPT !.status = "pending", !.due = FALSE, !.attempts = Mail!Tried(p, r), !.reason = "send_failed"]
          BY <2>1, <3>4, <4>2
        <5> HIDE DEF mine
        <5> QED
          <6>1. mail'[r] \in Letter /\ mail'[r].attempts = Mail!Tried(p, r) /\ mail'[r].holder = NoPass
                /\ mail'[r].reason = "send_failed" /\ mail'[r].status = "pending"
            BY <3>1, <3>2, <5>1 DEF Letter, Reasons, Mail!Freed
          <6>2. mail[r].attempts + 1 < MaxSends
            BY <3>1, <3>2, <4>2 DEF Letter
          <6> QED
            BY <3>2, <3>4, <6>1, <6>2
      <4> QED
        BY <4>1, <4>2
    <3> QED
      BY <1>1, <3>3, <3>4
  <2> QED
    BY <2>1, <2>2, <2>3
<1>4. MailTyped'
  <2>1. \A r \in Rows : mail'[r] \in Letter
    BY <1>3 DEF MailTyped
  <2> QED
    BY <1>1, <1>2, <1>3, <2>1 DEF MailTyped
<1>5. PaidFor'
  <2> SUFFICES ASSUME NEW r \in Rows PROVE Paid(r)'
    BY DEF PaidFor, Paid
  <2>1. Sending(r)' \subseteq Sending(r)
    BY <1>2 DEF Sending
  <2>2. Authorizable(r)' => Authorizable(r)
    <3>1. CASE r \notin mine
      <4>1. mail'[r] = mail[r]
        BY <1>3, <3>1
      <4> QED
        BY <1>1, <1>2, <4>1 DEF Authorizable
    <3>2. CASE r \in mine
      <4>1. CASE courier[p].at = "refused"
        BY <3>2, <4>1 DEF Authorizable
      <4>2. CASE courier[p].at = "delivered"
        <5>1. mail'[r].status = "sent"
          BY <1>3, <3>2, <4>2
        <5> QED
          BY <5>1 DEF Authorizable
      <4> QED
        BY <1>1, <4>1, <4>2
    <3> QED
      BY <3>1, <3>2
  <2> QED
    BY <1>1, <1>4, <2>1, <2>2, StaysPaid
<1>6. OneAtATime' /\ (verifying => verified)'
  <2>1. \A r \in Rows : sent'[r] \in Nat /\ sent'[r] >= sent[r]
    BY <1>1 DEF MailTyped
  <2> QED
    BY <1>1, <1>2, <2>1, StaysApart
<1>7. TriesLeft'
  <2> SUFFICES ASSUME NEW r \in Rows
               PROVE  /\ mail'[r].attempts <= MaxSends
                      /\ \/ mail'[r].status \in {"pending", "sending"}
                         \/ mail'[r].status = "failed" /\ mail'[r].reason = "address_unverified"
                         => mail'[r].attempts < MaxSends
                      /\ mail'[r].status = "sent" => sent'[r] > 0
    BY DEF TriesLeft
  <2>1. mail[r].attempts \in Nat /\ MaxSends \in Nat /\ sent'[r] = sent[r]
    BY <1>1 DEF MailTyped, Letter, MailBounds
  <2>2. CASE r \notin mine
    <3>1. mail'[r] = mail[r]
      BY <1>3, <2>2
    <3> QED
      BY <2>1, <3>1 DEF TriesLeft
  <2>3. CASE r \in mine
    <3>1. mail[r].attempts < MaxSends
      BY <2>3 DEF TriesLeft
    <3>2. courier[p].at = "delivered" => sent[r] > 0
      BY <2>3 DEF OneAtATime
    <3> HIDE DEF mine
    <3> QED
      BY <1>3, <2>1, <2>3, <3>1, <3>2
  <2> QED
    BY <2>2, <2>3
<1>8. Heard'
  <2> HIDE DEF mine
  <2>1. \A r \in Rows : mail'[r].reason = "address_unverified" => mail'[r] = mail[r]
    BY <1>3
  <2> QED
    BY <1>1, <2>1 DEF Heard
<1> QED
  BY <1>4, <1>5, <1>6, <1>7, <1>8

LEMMA DeathKeepsMail ==
    ASSUME MailBounds, MailInv, NEW p \in Passes, Mail!PassDies(p)
    PROVE  MailInv'
<1> USE DEF MailInv
<1>1. UNCHANGED <<verified, wanted, deleted, verifying, sent, lapses, unheard>>
  BY DEF Mail!PassDies
<1>2. /\ courier'[p] = Mail!Idle /\ courier' \in [Passes -> Courier]
      /\ \A q \in Passes \ {p} : courier'[q] = courier[q]
  <2>1. Mail!Idle \in Courier
    BY DEF Mail!Idle, Courier
  <2> QED
    BY <2>1 DEF Mail!PassDies, MailTyped
<1>3. /\ mail' = [r \in Rows |-> mail'[r]]
      /\ \A r \in Rows : /\ mail'[r] \in Letter /\ mail'[r].attempts = mail[r].attempts
                          /\ mail'[r].reason = mail[r].reason /\ mail'[r].status = mail[r].status
                          /\ (mail'[r].holder = NoPass \/ (mail'[r] = mail[r] /\ ~(mail[r].status = "sending" /\ mail[r].holder = p)))
  <2>1. \A r \in Rows : mail'[r] = IF mail[r].status = "sending" /\ mail[r].holder = p
                                     THEN [mail[r] EXCEPT !.holder = NoPass] ELSE mail[r]
    BY DEF Mail!PassDies, Mail!Held
  <2>2. mail' = [r \in Rows |-> mail'[r]]
    BY DEF Mail!PassDies
  <2>3. ASSUME NEW r \in Rows
        PROVE  /\ mail'[r] \in Letter /\ mail'[r].attempts = mail[r].attempts
               /\ mail'[r].reason = mail[r].reason /\ mail'[r].status = mail[r].status
               /\ (mail'[r].holder = NoPass \/ (mail'[r] = mail[r] /\ ~(mail[r].status = "sending" /\ mail[r].holder = p)))
    <3>1. mail[r] \in Letter
      BY DEF MailTyped
    <3>2. CASE mail[r].status = "sending" /\ mail[r].holder = p
      <4>1. mail'[r] = [mail[r] EXCEPT !.holder = NoPass]
        BY <2>1, <3>2
      <4>2. mail'[r] \in Letter
        BY <3>1, <4>1 DEF Letter
      <4>3. /\ mail'[r].attempts = mail[r].attempts /\ mail'[r].reason = mail[r].reason
            /\ mail'[r].status = mail[r].status /\ mail'[r].holder = NoPass
        BY <3>1, <4>1 DEF Letter
      <4> QED
        BY <4>2, <4>3
    <3>3. CASE ~(mail[r].status = "sending" /\ mail[r].holder = p)
      BY <2>1, <3>1, <3>3
    <3> QED
      BY <3>2, <3>3
  <2> QED
    BY <2>2, <2>3
<1>4. MailTyped'
  BY <1>1, <1>2, <1>3 DEF MailTyped
<1>5. PaidFor'
  <2> SUFFICES ASSUME NEW r \in Rows PROVE Paid(r)'
    BY DEF PaidFor, Paid
  <2>1. Sending(r)' \subseteq Sending(r)
    BY <1>2 DEF Sending, Mail!Idle
  <2>2. Authorizable(r)' => Authorizable(r)
    BY <1>2, <1>3 DEF Authorizable, MailBounds
  <2> QED
    BY <1>1, <1>4, <2>1, <2>2, StaysPaid
<1>6. OneAtATime' /\ (verifying => verified)'
  <2>1. \A r \in Rows : sent'[r] \in Nat /\ sent'[r] >= sent[r]
    BY <1>1 DEF MailTyped
  <2> QED
    BY <1>1, <1>2, <2>1, StaysApart DEF Mail!Idle
<1>7. TriesLeft' /\ Heard'
  BY <1>1, <1>3 DEF TriesLeft, Heard
<1> QED
  BY <1>4, <1>5, <1>6, <1>7

\* The owner: what was held back for want of an address comes back untried.
LEMMA OwnerKeepsMail ==
    ASSUME MailBounds, MailInv,
           Mail!Verify \/ Mail!ReviveUnverified \/ Mail!VerifiedElsewhere \/ Mail!Prefer \/ Mail!Delete
    PROVE  MailInv'
<1> USE DEF MailInv
<1>1. UNCHANGED <<courier, sent, lapses>>
  BY DEF Mail!Verify, Mail!ReviveUnverified, Mail!VerifiedElsewhere, Mail!Prefer, Mail!Delete
<1>2. /\ verified' \in BOOLEAN /\ wanted' \in BOOLEAN /\ deleted' \in BOOLEAN
      /\ verifying' \in BOOLEAN /\ unheard' \in BOOLEAN /\ (verifying' => verified')
  <2>1. CASE Mail!Verify
    BY <2>1 DEF MailTyped, Mail!Verify
  <2>2. CASE Mail!ReviveUnverified
    BY <2>2 DEF MailTyped, Mail!ReviveUnverified
  <2>3. CASE Mail!VerifiedElsewhere
    BY <2>3 DEF MailTyped, Mail!VerifiedElsewhere
  <2>4. CASE Mail!Prefer
    <3>1. wanted' \in BOOLEAN
      BY <2>4 DEF Mail!Prefer
    <3>2. UNCHANGED <<verified, deleted, verifying, unheard>>
      BY <2>4 DEF Mail!Prefer
    <3> QED
      BY <3>1, <3>2 DEF MailTyped
  <2>5. CASE Mail!Delete
    BY <2>5 DEF MailTyped, Mail!Delete
  <2> QED
    BY <2>1, <2>2, <2>3, <2>4, <2>5
<1>3. \A r \in Rows :
        \/ mail'[r] = mail[r]
        \/ /\ mail[r].status = "failed" /\ mail[r].reason = "address_unverified"
           /\ mail'[r].status = "pending" /\ mail'[r].attempts = mail[r].attempts
           /\ mail'[r].reason = "none" /\ mail'[r] \in Letter
  <2>1. CASE Mail!ReviveUnverified
    BY <2>1 DEF Mail!ReviveUnverified, Mail!Revived, MailTyped, Letter, Reasons
  <2>2. CASE Mail!Verify \/ Mail!VerifiedElsewhere \/ Mail!Prefer \/ Mail!Delete
    BY <2>2 DEF Mail!Verify, Mail!VerifiedElsewhere, Mail!Prefer, Mail!Delete
  <2> QED
    BY <2>1, <2>2
<1>4. MailTyped'
  <2>1. \A r \in Rows : mail'[r] \in Letter
    BY <1>3 DEF MailTyped
  <2>2. mail' = [r \in Rows |-> mail'[r]]
    BY DEF Mail!Verify, Mail!ReviveUnverified, Mail!VerifiedElsewhere, Mail!Prefer, Mail!Delete,
       MailTyped
  <2> QED
    BY <1>1, <1>2, <2>1, <2>2 DEF MailTyped
<1>5. PaidFor'
  <2> SUFFICES ASSUME NEW r \in Rows PROVE Paid(r)'
    BY DEF PaidFor, Paid
  <2>1. Sending(r)' \subseteq Sending(r)
    BY <1>1 DEF Sending
  <2>2. Authorizable(r)' => Authorizable(r)
    BY <1>1, <1>3 DEF Authorizable
  <2> QED
    BY <1>1, <1>4, <2>1, <2>2, StaysPaid
<1>6. OneAtATime'
  BY <1>1 DEF OneAtATime
<1>7. TriesLeft'
  <2> SUFFICES ASSUME NEW r \in Rows
               PROVE  /\ mail'[r].attempts <= MaxSends
                      /\ \/ mail'[r].status \in {"pending", "sending"}
                         \/ mail'[r].status = "failed" /\ mail'[r].reason = "address_unverified"
                         => mail'[r].attempts < MaxSends
                      /\ mail'[r].status = "sent" => sent'[r] > 0
    BY DEF TriesLeft
  <2> QED
    BY <1>1, <1>3 DEF TriesLeft
<1>8. Heard'
  <2>1. CASE Mail!ReviveUnverified
    BY <2>1 DEF Mail!ReviveUnverified, Mail!Revived, Heard, MailTyped, Letter
  <2>2. CASE Mail!Verify \/ Mail!VerifiedElsewhere
    BY <2>2 DEF Mail!Verify, Mail!VerifiedElsewhere, Heard
  <2>3. CASE Mail!Prefer \/ Mail!Delete
    BY <2>3 DEF Mail!Prefer, Mail!Delete, Heard
  <2> QED
    BY <2>1, <2>2, <2>3
<1> QED
  BY <1>2, <1>4, <1>5, <1>6, <1>7, <1>8

LEMMA MailStays == MailBounds /\ MailInv /\ [Mail!Next]_Mail!vars => MailInv'
<1> SUFFICES ASSUME MailBounds, MailInv, [Mail!Next]_Mail!vars PROVE MailInv'
  OBVIOUS
<1>1. CASE UNCHANGED Mail!vars
  <2>1. \A r \in Rows : Sending(r)' = Sending(r) /\ (Authorizable(r)' <=> Authorizable(r))
    BY <1>1 DEF Mail!vars, Sending, Authorizable
  <2>2. PaidFor'
    BY <1>1, <2>1 DEF Mail!vars, MailInv, PaidFor
  <2> QED
    BY <1>1, <2>2 DEF Mail!vars, MailInv, MailTyped, OneAtATime, TriesLeft, Heard
<1>2. CASE \E p \in Passes :
             Mail!ClaimDue(p) \/ (\E r \in Rows : Mail!Authorize(p, r)) \/ Mail!Send(p) \/ Mail!Settle(p) \/ Mail!PassDies(p)
  BY <1>2, ClaimKeepsMail, AuthorizeKeepsMail, SendKeepsMail, SettleKeepsMail, DeathKeepsMail
<1> QED
  BY <1>1, <1>2, ClockKeepsMail, OwnerKeepsMail DEF Mail!Next

LEMMA InvKeepsMail == MailBounds /\ MailInv => Mail!MailKept
<1> SUFFICES ASSUME MailBounds, MailInv PROVE Mail!MailKept
  OBVIOUS
<1>1. ASSUME NEW r \in Rows PROVE sent[r] <= 1 + lapses[r]
  <2>1. sent[r] \in Nat /\ lapses[r] \in Nat /\ Cardinality(Sending(r)) \in Nat
    BY SendingFinite DEF MailInv, MailTyped
  <2> QED
    BY <2>1 DEF MailInv, PaidFor
<1> QED
  BY <1>1 DEF Mail!MailKept, MailInv, TriesLeft, Heard

LEMMA StepRespectsMail == MailInv /\ [Mail!Next]_Mail!vars => Mail!RespectsMail
<1> SUFFICES ASSUME MailInv, [Mail!Next]_Mail!vars, NEW r \in Rows, mail'[r] # mail[r]
             PROVE  /\ mail[r].status # "sent"
                    /\ mail[r].status = "failed" => mail[r].reason = "address_unverified" /\ verified
  BY DEF Mail!RespectsMail
<1>1. CASE \E q \in Rows : Mail!RetryDue(q) \/ Mail!LeaseEnds(q)
  BY <1>1 DEF Mail!RetryDue, Mail!LeaseEnds, MailInv, MailTyped
<1>2. CASE Mail!ReclaimExpired
  BY <1>2 DEF Mail!ReclaimExpired
<1>3. ASSUME NEW p \in Passes, Mail!ClaimDue(p) \/ Mail!PassDies(p) PROVE mail[r].status \notin {"sent", "failed"}
  BY <1>3 DEF Mail!ClaimDue, Mail!PassDies, Mail!Held
<1>4. ASSUME NEW p \in Passes, NEW m \in Rows, Mail!Authorize(p, m) PROVE mail[r].status \notin {"sent", "failed"}
  BY <1>4 DEF Mail!Authorize, Mail!Permitted, Mail!Held, MailInv, MailTyped
<1>5. ASSUME NEW p \in Passes, Mail!Send(p) \/ Mail!Settle(p) PROVE mail[r].status \notin {"sent", "failed"}
  BY <1>5 DEF Mail!Send, Mail!Settle, Mail!Fenced, Mail!Held
<1>6. CASE Mail!ReviveUnverified
  BY <1>6 DEF Mail!ReviveUnverified, MailInv
<1>7. CASE Mail!Verify \/ Mail!VerifiedElsewhere \/ Mail!Prefer \/ Mail!Delete \/ UNCHANGED Mail!vars
  BY <1>7 DEF Mail!Verify, Mail!VerifiedElsewhere, Mail!Prefer, Mail!Delete, Mail!vars
<1> QED
  BY <1>1, <1>2, <1>3, <1>4, <1>5, <1>6, <1>7 DEF Mail!Next

THEOREM MailInvariant == ASSUME MailBounds PROVE Mail!Spec => []MailInv
<1>1. Mail!Init => MailInv
  BY MailStarts
<1>2. MailInv /\ [Mail!Next]_Mail!vars => MailInv'
  BY MailStays
<1> QED
  BY <1>1, <1>2, PTL DEF Mail!Spec

\* However passes, leases, the provider and the owner interleave: a mail is repeated
\* only after its lease was reclaimed, and none is tried too often.
THEOREM MailIsKept == ASSUME MailBounds PROVE Mail!Spec => []Mail!MailKept
<1>1. MailInv => Mail!MailKept
  BY InvKeepsMail
<1> QED
  BY <1>1, MailInvariant, PTL

\* What was sent stays sent, and what failed comes back only when verified.
THEOREM MailIsRespected == ASSUME MailBounds PROVE Mail!Spec => Mail!MailRespected
<1>1. MailInv /\ [Mail!Next]_Mail!vars => Mail!RespectsMail
  BY StepRespectsMail
<1> QED
  BY <1>1, MailInvariant, PTL DEF Mail!Spec, Mail!MailRespected

-----------------------------------------------------------------------------
(* The notes of the guests.                                                 *)

NoteRow == [state: {"none", "pending", "approved", "rejected"}, deleted: BOOLEAN]
Draft == [key: Nat \ {0}, status: {"draft", "sending", "failed"}, off: BOOLEAN]
Post == [pc: {"idle", "insert", "reread", "guards", "existing", "receipt", "answer"},
         note: Note!Notes \cup {<<>>}, window: Note!Windows, heard: BOOLEAN,
         out: {"none", "sent", "refused", "closed", "full"}]
Reader == [note: Note!Notes \cup {<<>>}, seen: {"none", "pending", "approved", "rejected", "deleted"}]
Charge == [window: Note!Windows, guest: Guests, id: Nat]

NotesTyped ==
    /\ note \in [Note!Notes -> NoteRow] /\ receipts \subseteq Note!Notes /\ confirmed \subseteq Note!Notes
    /\ clock \in Note!Windows /\ rate \subseteq Charge /\ made \in [Note!Windows -> [Guests -> Nat]]
    /\ open \in BOOLEAN /\ moderated \in BOOLEAN
    /\ composer \in [Guests -> Draft]
    /\ post \in [Requests -> Post] /\ reader \in [Moderators -> Reader]

\* What the guestbook knows of, and will not insert again.
Known == Note!Stored \cup receipts

\* A note that was confirmed, or will be, is known.
ToldKnown ==
    /\ confirmed \subseteq Known /\ receipts \cap Note!Stored = {}
    /\ \A r \in Requests :
        /\ post[r].pc # "idle" => post[r].note \in Note!Notes
        /\ post[r].pc = "idle" => post[r].note = <<>>
        /\ post[r].pc \in {"existing", "receipt"} => post[r].out # "sent"
        /\ post[r].pc = "answer" /\ post[r].out = "sent" => post[r].note \in Known

\* A note is behind its guest's draft when another draft came after it.
Behind(n) ==
    /\ n[2] <= composer[n[1]].key
    /\ composer[n[1]].status = "draft" => n[2] < composer[n[1]].key

\* Everything known or under way is behind.
AllBehind ==
    /\ \A n \in Known : Behind(n)
    /\ \A r \in Requests : post[r].pc # "idle" => Behind(post[r].note)

\* A charge is counted by its number; and every note inserted since was charged once.
ChargedOnce ==
    /\ IsFiniteSet(rate) /\ \A e \in rate : e.id <= Note!AddressCount(e.window)
    /\ \A w \in Note!Windows, g \in Guests : w >= clock => Note!SessionCount(w, g) = made[w][g]

WithinLimits ==
    /\ IsFiniteSet(Note!Stored) /\ Cardinality(Note!Stored) <= NoteLimit
    /\ \A w \in Note!Windows : Note!AddressCount(w) <= AddressLimit /\ \A g \in Guests : Note!SessionCount(w, g) <= SessionLimit

NotesInv == NotesTyped /\ ToldKnown /\ AllBehind /\ ChargedOnce /\ WithinLimits

\* The machine counts with the library's operator.
LEMMA NoteCardinality == \A S : Note!Cardinality(S) = Cardinality(S)
BY DEF Note!Cardinality, Cardinality

LEMMA NextDraftTyped ==
    ASSUME NEW g \in Guests, composer[g] \in Draft
    PROVE  Note!NextDraft(g) \in Draft /\ Note!NextDraft(g).key = composer[g].key + 1
<1>1. composer[g].key \in Nat \ {0} /\ composer[g].key + 1 \in Nat \ {0}
  BY DEF Draft
<1>2. PICK c \in Draft : c = composer[g]
  OBVIOUS
<1>3. c.key + 1 \in Nat \ {0} /\ Note!NextDraft(g) = [c EXCEPT !.key = @ + 1, !.status = "draft"]
  BY <1>1, <1>2 DEF Note!NextDraft
<1>4. [c EXCEPT !.key = @ + 1, !.status = "draft"] \in Draft
      /\ [c EXCEPT !.key = @ + 1, !.status = "draft"].key = c.key + 1
  BY <1>3 DEF Draft
<1> QED
  BY <1>2, <1>3, <1>4

LEMMA NotesStart == NoteBounds /\ Note!Init => NotesInv
<1> SUFFICES ASSUME NoteBounds, Note!Init PROVE NotesInv
  OBVIOUS
<1> USE DEF Note!Init, Note!NoNote, Note!NoRequest, Note!Unseen, Note!NoneYet, Note!Windows
<1>1. NotesTyped
  <2>1. note \in [Note!Notes -> NoteRow]
    BY DEF NoteRow
  <2>2. composer \in [Guests -> Draft]
    BY DEF Draft
  <2>3. post \in [Requests -> Post]
    BY DEF Post
  <2>4. reader \in [Moderators -> Reader]
    BY DEF Reader
  <2> QED
    BY <2>1, <2>2, <2>3, <2>4 DEF NotesTyped
<1>2. Note!Stored = {} /\ Known = {}
  BY DEF Note!Stored, Known
<1>3. ToldKnown /\ AllBehind
  BY <1>2 DEF ToldKnown, AllBehind
<1>4. \A w \in Note!Windows : Note!AddressCount(w) = 0 /\ \A g \in Guests : Note!SessionCount(w, g) = 0
  <2>1. \A w \in Note!Windows : Note!RowsOf(w) = {} /\ \A g \in Guests : {e \in Note!RowsOf(w) : e.guest = g} = {}
    BY DEF Note!RowsOf
  <2> QED
    BY <2>1, FS_EmptySet, NoteCardinality DEF Note!AddressCount, Note!SessionCount
<1>5. ChargedOnce
  BY <1>4, FS_EmptySet DEF ChargedOnce
<1>6. WithinLimits
  BY <1>2, <1>4, FS_EmptySet DEF WithinLimits, NoteBounds
<1> QED
  BY <1>1, <1>3, <1>5, <1>6 DEF NotesInv

\* Nothing of the limits moves with the rows, the charges and the window as they were.
LEMMA LimitsStay ==
    ASSUME NotesInv, UNCHANGED <<rate, made>>, clock' = clock \/ clock' = 2, Note!Stored' = Note!Stored
    PROVE  ChargedOnce' /\ WithinLimits'
<1>1. \A w \in Note!Windows : Note!AddressCount(w)' = Note!AddressCount(w) /\ \A g \in Guests : Note!SessionCount(w, g)' = Note!SessionCount(w, g)
  BY DEF Note!AddressCount, Note!SessionCount, Note!RowsOf
<1>2. WithinLimits'
  BY <1>1 DEF NotesInv, WithinLimits
<1>3. \A e \in rate : e.window \in Note!Windows
  BY DEF NotesInv, NotesTyped, Charge
<1>4. \A w \in Note!Windows : w >= clock' => w >= clock
  BY DEF NotesInv, NotesTyped, Note!Windows
<1>5. ChargedOnce'
  BY <1>1, <1>3, <1>4 DEF NotesInv, ChargedOnce
<1> QED
  BY <1>2, <1>5

\* The guest's page.
LEMMA PageKeepsNotes ==
    ASSUME NoteBounds, NotesInv, NEW g \in Guests,
           (\E r \in Requests : Note!Send(g, r)) \/ Note!Edit(g) \/ Note!Remount(g) \/ Note!Lost(g)
    PROVE  NotesInv'
<1>1. UNCHANGED <<note, receipts, clock, rate, open, moderated, reader, confirmed, made>>
  BY DEF Note!Send, Note!Edit, Note!Remount, Note!Lost
<1>2. Note!Stored' = Note!Stored /\ Known' = Known
  BY <1>1 DEF Note!Stored, Known
<1>3. ChargedOnce' /\ WithinLimits'
  BY <1>1, <1>2, LimitsStay
<1>4. composer \in [Guests -> Draft] /\ post \in [Requests -> Post] /\ composer[g] \in Draft
  BY DEF NotesInv, NotesTyped
\* What the page does to its draft.
<1>5. /\ composer' \in [Guests -> Draft] /\ \A h \in Guests \ {g} : composer'[h] = composer[h]
      /\ composer'[g].key >= composer[g].key
      /\ composer'[g].status = "draft" => composer'[g].key > composer[g].key
  <2>1. CASE \E r \in Requests : Note!Send(g, r)
    BY <1>4, <2>1 DEF Note!Send, Draft
  <2>2. CASE Note!Edit(g)
    <3>1. composer' = [composer EXCEPT ![g] = Note!NextDraft(g)]
      BY <2>2 DEF Note!Edit
    <3>2. Note!NextDraft(g) \in Draft /\ Note!NextDraft(g).key = composer[g].key + 1
      BY <1>4, NextDraftTyped
    <3> QED
      BY <1>4, <3>1, <3>2 DEF Draft
  <2>3. CASE Note!Remount(g)
    <3>1. composer' = [composer EXCEPT ![g] = [Note!NextDraft(g) EXCEPT !.off = FALSE]]
      BY <2>3 DEF Note!Remount
    <3>2. [Note!NextDraft(g) EXCEPT !.off = FALSE] \in Draft /\ [Note!NextDraft(g) EXCEPT !.off = FALSE].key = composer[g].key + 1
      BY <1>4, NextDraftTyped DEF Draft
    <3> QED
      BY <1>4, <3>1, <3>2 DEF Draft
  <2>4. CASE Note!Lost(g)
    BY <1>4, <2>4 DEF Note!Lost, Draft
  <2> QED
    BY <2>1, <2>2, <2>3, <2>4
<1>6. \A n \in Note!Notes : Behind(n) => Behind(n)'
  <2> SUFFICES ASSUME NEW n \in Note!Notes, Behind(n) PROVE Behind(n)'
    OBVIOUS
  <2>1. n[1] \in Guests /\ n[2] \in Int
    BY DEF Note!Notes, NoteBounds
  <2>2. CASE n[1] = g
    <3>1. composer[g].key \in Nat /\ composer'[g].key \in Nat
      BY <1>4, <1>5 DEF Draft
    <3> QED
      BY <1>5, <2>1, <2>2, <3>1 DEF Behind
  <2>3. CASE n[1] # g
    BY <1>5, <2>1, <2>3 DEF Behind
  <2> QED
    BY <2>2, <2>3
<1>7. /\ post' \in [Requests -> Post]
      /\ \A r \in Requests :
           \/ /\ post'[r].pc = post[r].pc /\ post'[r].note = post[r].note
              /\ post'[r].out = post[r].out
           \/ /\ post'[r].pc = "insert" /\ post'[r].note \in Note!Notes /\ Behind(post[r].note)'
  <2>1. ASSUME NEW r \in Requests, Note!Send(g, r)
        PROVE  /\ post' \in [Requests -> Post]
               /\ \A q \in Requests \ {r} : post'[q] = post[q]
               /\ post'[r].pc = "insert" /\ post'[r].note \in Note!Notes /\ Behind(post[r].note)'
    <3>1. /\ post' = [post EXCEPT ![r] = [pc |-> "insert", note |-> <<g, composer[g].key>>,
                                                window |-> clock, heard |-> TRUE, out |-> "none"]]
          /\ composer' = [composer EXCEPT ![g].status = "sending"] /\ composer[g].key <= MaxKeys
      BY <2>1 DEF Note!Send
    <3>2. composer[g].key \in Nat \ {0}
      BY <1>4 DEF Draft
    <3>3. <<g, composer[g].key>> \in Note!Notes
      BY <3>1, <3>2 DEF Note!Notes, NoteBounds
    <3>4. [pc |-> "insert", note |-> <<g, composer[g].key>>, window |-> clock, heard |-> TRUE, out |-> "none"] \in Post
      BY <3>3 DEF Post, NotesInv, NotesTyped
    <3>5. composer'[g].key = composer[g].key /\ composer'[g].status = "sending"
      BY <1>4, <3>1 DEF Draft
    <3>6. Behind(<<g, composer[g].key>>)'
      BY <3>1, <3>2, <3>5 DEF Behind
    <3>7. post'[r] = [pc |-> "insert", note |-> <<g, composer[g].key>>, window |-> clock, heard |-> TRUE, out |-> "none"]
      BY <1>4, <3>1
    <3>8. post'[r].note = <<g, composer[g].key>> /\ post'[r].pc = "insert"
      BY <3>7
    <3>9. Behind(post[r].note)'
      BY <3>5, <3>6, <3>8, <3>2 DEF Behind
    <3> QED
      BY <1>4, <3>1, <3>3, <3>4, <3>8, <3>9
  <2>2. CASE Note!Edit(g)
    BY <1>4, <2>2 DEF Note!Edit
  <2>3. CASE post' = Note!Silenced(g)
    BY <1>4, <2>3 DEF Note!Silenced, Post
  <2> QED
    BY <2>1, <2>2, <2>3 DEF Note!Remount, Note!Lost
<1>8. NotesTyped'
  BY <1>1, <1>5, <1>7 DEF NotesInv, NotesTyped
<1>9. ToldKnown'
  <2>1. \A r \in Requests : /\ post'[r].pc # "idle" => post'[r].note \in Note!Notes
                            /\ post'[r].pc = "idle" => post'[r].note = <<>>
                            /\ post'[r].pc \in {"existing", "receipt"} => post'[r].out # "sent"
                            /\ post'[r].pc = "answer" /\ post'[r].out = "sent" => post'[r].note \in Known'
    BY <1>2, <1>7 DEF NotesInv, ToldKnown
  <2> QED
    BY <1>1, <1>2, <2>1 DEF NotesInv, ToldKnown
<1>10. AllBehind'
  <2>1. \A n \in Known : n \in Note!Notes
    BY DEF Known, Note!Stored, NotesInv, NotesTyped
  <2>2. \A n \in Known' : Behind(n)'
    BY <1>2, <1>6, <2>1 DEF NotesInv, AllBehind
  <2>3. \A r \in Requests : post'[r].pc # "idle" => Behind(post[r].note)'
    <3> SUFFICES ASSUME NEW r \in Requests, post'[r].pc # "idle" PROVE Behind(post[r].note)'
      OBVIOUS
    <3>1. CASE post'[r].pc = post[r].pc /\ post'[r].note = post[r].note
      <4>1. post[r].note \in Note!Notes /\ Behind(post[r].note)
        BY <3>1 DEF NotesInv, ToldKnown, AllBehind
      <4> DEFINE n == post[r].note
      <4>2. n \in Note!Notes /\ Behind(n) /\ post'[r].note = n
        BY <3>1, <4>1
      <4>3. n[2] <= composer'[n[1]].key /\ (composer'[n[1]].status = "draft" => n[2] < composer'[n[1]].key)
        BY <1>6, <4>2 DEF Behind
      <4> HIDE DEF n
      <4> QED
        BY <4>2, <4>3 DEF Behind
    <3> QED
      BY <1>7, <3>1
  <2> QED
    BY <2>2, <2>3 DEF AllBehind
<1> QED
  BY <1>3, <1>8, <1>9, <1>10 DEF NotesInv

\* A request as it reads and is answered.
LEMMA RequestKeepsNotes ==
    ASSUME NoteBounds, NotesInv, NEW r \in Requests,
           Note!TurnedAway(r) \/ Note!Reread(r) \/ Note!ReadGuards(r) \/ Note!ReadExisting(r) \/ Note!ReadReceipt(r)
    PROVE  NotesInv'
<1>1. UNCHANGED <<note, receipts, clock, rate, open, moderated, composer, reader, confirmed, made>>
  BY DEF Note!TurnedAway, Note!Reread, Note!ReadGuards, Note!ReadExisting, Note!ReadReceipt
<1>2. Note!Stored' = Note!Stored /\ Known' = Known
  BY <1>1 DEF Note!Stored, Known
<1>3. ChargedOnce' /\ WithinLimits'
  BY <1>1, <1>2, LimitsStay
<1>4. /\ post[r] \in Post /\ post[r].pc \notin {"idle", "answer"}
      /\ post[r].note \in Note!Notes
      /\ post[r].pc \in {"existing", "receipt"} => post[r].out # "sent"
  BY DEF NotesInv, NotesTyped, ToldKnown, Note!TurnedAway, Note!Reread, Note!ReadGuards,
     Note!ReadExisting, Note!ReadReceipt
<1>5. /\ post' \in [Requests -> Post] /\ \A q \in Requests \ {r} : post'[q] = post[q]
      /\ post'[r].note = post[r].note /\ post'[r].pc \in {"existing", "receipt", "answer"}
      /\ post'[r].pc \in {"existing", "receipt"} => post'[r].out # "sent"
      /\ post'[r].out = "sent" => post[r].note \in Known
  <2> DEFINE Told(out) == [post[r] EXCEPT !.pc = "answer", !.out = out]
  <2>0. post \in [Requests -> Post]
    BY DEF NotesInv, NotesTyped
  <2>1. ASSUME NEW out \in {"none", "sent", "refused", "closed", "full"}, post' = Note!Answered(r, out),
               out = "sent" => post[r].note \in Known
        PROVE  /\ post' \in [Requests -> Post] /\ \A q \in Requests \ {r} : post'[q] = post[q]
               /\ post'[r].note = post[r].note /\ post'[r].pc \in {"existing", "receipt", "answer"}
               /\ post'[r].pc \in {"existing", "receipt"} => post'[r].out # "sent"
               /\ post'[r].out = "sent" => post[r].note \in Known
    <3>1. Told(out) \in Post /\ Told(out).note = post[r].note /\ Told(out).pc = "answer" /\ Told(out).out = out
      BY <1>4 DEF Post
    <3>2. post' = [post EXCEPT ![r] = Told(out)]
      BY <2>1 DEF Note!Answered
    <3> HIDE DEF Told
    <3> QED
      BY <2>0, <2>1, <3>1, <3>2
  <2>2. CASE Note!TurnedAway(r)
    BY <2>1, <2>2 DEF Note!TurnedAway
  <2>3. CASE Note!Reread(r)
    <3>1. CASE post[r].note \in Note!Stored
      BY <2>1, <2>3, <3>1 DEF Note!Reread, Known
    <3>2. CASE post[r].note \notin Note!Stored
      BY <2>1, <2>3, <3>2 DEF Note!Reread
    <3> QED
      BY <3>1, <3>2
  <2>4. CASE Note!ReadGuards(r)
    <3>1. CASE ~open
      BY <2>1, <2>4, <3>1 DEF Note!ReadGuards
    <3>2. CASE open
      <4>1. PICK out \in {"full", "refused"} :
               post' = [post EXCEPT ![r].pc = "existing", ![r].out = out]
        BY <2>4, <3>2 DEF Note!ReadGuards
      <4> QED
        BY <1>4, <2>0, <4>1 DEF Post
    <3> QED
      BY <3>1, <3>2
  <2>5. CASE Note!ReadExisting(r)
    <3>1. CASE post[r].note \in Note!Stored
      BY <2>1, <2>5, <3>1 DEF Note!ReadExisting, Known
    <3>2. CASE post[r].note \notin Note!Stored
      <4>1. post' = [post EXCEPT ![r].pc = "receipt"] /\ post[r].pc = "existing"
        BY <2>5, <3>2 DEF Note!ReadExisting
      <4> QED
        BY <1>4, <2>0, <4>1 DEF Post
    <3> QED
      BY <3>1, <3>2
  <2>6. CASE Note!ReadReceipt(r)
    <3>1. post[r].out \in {"none", "refused", "closed", "full"} /\ post[r].pc = "receipt"
      BY <1>4, <2>6 DEF Note!ReadReceipt, Post
    <3> QED
      <4>1. CASE post[r].note \in receipts
        BY <2>1, <2>6, <4>1 DEF Note!ReadReceipt
      <4>2. CASE post[r].note \notin receipts
        BY <2>1, <2>6, <3>1, <4>2 DEF Note!ReadReceipt
      <4> QED
        BY <4>1, <4>2
  <2> QED
    BY <2>2, <2>3, <2>4, <2>5, <2>6
<1>6. NotesTyped'
  BY <1>1, <1>5 DEF NotesInv, NotesTyped
<1>7. ToldKnown'
  <2>1. \A q \in Requests : /\ post'[q].pc # "idle" => post'[q].note \in Note!Notes
                            /\ post'[q].pc = "idle" => post'[q].note = <<>>
                            /\ post'[q].pc \in {"existing", "receipt"} => post'[q].out # "sent"
                            /\ post'[q].pc = "answer" /\ post'[q].out = "sent" => post'[q].note \in Known'
    BY <1>2, <1>4, <1>5 DEF NotesInv, ToldKnown
  <2> QED
    BY <1>1, <1>2, <2>1 DEF NotesInv, ToldKnown
<1>8. AllBehind'
  BY <1>1, <1>2, <1>4, <1>5 DEF NotesInv, AllBehind, Behind
<1> QED
  BY <1>3, <1>6, <1>7, <1>8 DEF NotesInv

LEMMA AnswerKeepsNotes ==
    ASSUME NoteBounds, NotesInv, NEW r \in Requests, Note!Answer(r)
    PROVE  NotesInv'
<1> DEFINE n == post[r].note
<1> DEFINE g == post[r].note[1]
<1>1. UNCHANGED <<note, receipts, clock, rate, open, moderated, reader, made>>
  BY DEF Note!Answer
<1>2. Note!Stored' = Note!Stored /\ Known' = Known
  BY <1>1 DEF Note!Stored, Known
<1>3. ChargedOnce' /\ WithinLimits'
  BY <1>1, <1>2, LimitsStay
<1>4. /\ post[r] \in Post /\ post[r].pc = "answer" /\ n \in Note!Notes /\ g \in Guests
      /\ post[r].out = "sent" => n \in Known
      /\ composer \in [Guests -> Draft] /\ composer[g] \in Draft
  BY DEF NotesInv, NotesTyped, ToldKnown, Note!Answer, Note!Notes
<1>5. /\ post' \in [Requests -> Post] /\ \A q \in Requests \ {r} : post'[q] = post[q]
      /\ post'[r].pc = "idle" /\ post'[r].note = <<>>
  BY DEF NotesInv, NotesTyped, Note!Answer, Note!NoRequest, Post, Note!Windows
<1>6. /\ composer' \in [Guests -> Draft] /\ \A h \in Guests \ {g} : composer'[h] = composer[h]
      /\ \/ composer'[g] = composer[g]
         \/ composer'[g].key = composer[g].key + 1
         \/ composer'[g].key = composer[g].key /\ composer'[g].status = "failed"
      /\ confirmed' = confirmed \/ (n \in Known /\ confirmed' = confirmed \cup {n})
  <2>1. CASE ~post[r].heard
    BY <1>4, <2>1 DEF Note!Answer
  <2>2. CASE post[r].heard /\ post[r].out = "sent"
    <3>1. composer' = [composer EXCEPT ![g] = Note!NextDraft(g)] /\ confirmed' = confirmed \cup {n}
      BY <2>2 DEF Note!Answer
    <3>2. Note!NextDraft(g) \in Draft /\ Note!NextDraft(g).key = composer[g].key + 1
      BY <1>4, NextDraftTyped
    <3> HIDE DEF g, n
    <3> QED
      BY <1>4, <2>2, <3>1, <3>2
  <2>3. CASE post[r].heard /\ post[r].out # "sent"
    <3>1. PICK off \in BOOLEAN : composer' = [composer EXCEPT ![g].status = "failed", ![g].off = off]
      <4> DEFINE off == composer[g].off \/ post[r].out \in {"closed", "full"}
      <4>1. composer' = [composer EXCEPT ![g].status = "failed", ![g].off = off]
        BY <2>3 DEF Note!Answer
      <4>2. off \in BOOLEAN
        OBVIOUS
      <4> HIDE DEF off
      <4> QED
        BY <4>1, <4>2
    <3>2. confirmed' = confirmed
      BY <2>3 DEF Note!Answer
    <3> HIDE DEF g, n
    <3> QED
      BY <1>4, <3>1, <3>2 DEF Draft
  <2> QED
    BY <2>1, <2>2, <2>3
<1>7. NotesTyped'
  <2>1. confirmed' \subseteq Note!Notes
    BY <1>4, <1>6 DEF NotesInv, NotesTyped
  <2> QED
    BY <1>1, <1>5, <1>6, <2>1 DEF NotesInv, NotesTyped
<1>8. ToldKnown'
  <2>1. \A q \in Requests : /\ post'[q].pc # "idle" => post'[q].note \in Note!Notes
                            /\ post'[q].pc = "idle" => post'[q].note = <<>>
                            /\ post'[q].pc \in {"existing", "receipt"} => post'[q].out # "sent"
                            /\ post'[q].pc = "answer" /\ post'[q].out = "sent" => post'[q].note \in Known'
    BY <1>2, <1>5 DEF NotesInv, ToldKnown
  <2>2. confirmed' \subseteq Known /\ receipts \cap Note!Stored = {}
    BY <1>6 DEF NotesInv, ToldKnown
  <2> QED
    BY <1>1, <1>2, <2>1, <2>2 DEF ToldKnown
<1>9. \A m \in Note!Notes : Behind(m) => Behind(m)'
  <2> SUFFICES ASSUME NEW m \in Note!Notes, Behind(m) PROVE Behind(m)'
    OBVIOUS
  <2>1. m[1] \in Guests /\ m[2] \in Int
    BY DEF Note!Notes, NoteBounds
  <2>2. composer[m[1]].key \in Nat
    BY <1>4, <2>1 DEF Draft
  <2> HIDE DEF g, n
  <2>3. CASE m[1] = g
    BY <1>6, <2>1, <2>2, <2>3 DEF Behind
  <2>4. CASE m[1] # g
    BY <1>6, <2>1, <2>4 DEF Behind
  <2> QED
    BY <2>3, <2>4
<1>10. AllBehind'
  <2>1. \A m \in Known : m \in Note!Notes
    BY DEF Known, Note!Stored, NotesInv, NotesTyped
  <2>2. \A m \in Known' : Behind(m)'
    BY <1>2, <1>9, <2>1 DEF NotesInv, AllBehind
  <2>3. \A q \in Requests : post'[q].pc # "idle" => Behind(post[q].note)'
    <3> SUFFICES ASSUME NEW q \in Requests, post'[q].pc # "idle" PROVE Behind(post[q].note)'
      OBVIOUS
    <3>1. post'[q] = post[q]
      BY <1>5
    <3>2. post[q].note \in Note!Notes /\ Behind(post[q].note)
      BY <3>1 DEF NotesInv, ToldKnown, AllBehind
    <3> DEFINE m == post[q].note
    <3>3. m \in Note!Notes /\ Behind(m)
      BY <3>2
    <3>4. post'[q].note = m
      BY <3>1
    <3>5. m[2] <= composer'[m[1]].key /\ (composer'[m[1]].status = "draft" => m[2] < composer'[m[1]].key)
      BY <1>9, <3>3 DEF Behind
    <3> HIDE DEF m
    <3> QED
      BY <3>4, <3>5 DEF Behind
  <2> QED
    BY <2>2, <2>3 DEF AllBehind
<1> QED
  BY <1>3, <1>7, <1>8, <1>10 DEF NotesInv

\* The batch: a note and its charge, or neither.
LEMMA InsertKeepsNotes ==
    ASSUME NoteBounds, NotesInv, NEW r \in Requests, Note!Insert(r)
    PROVE  NotesInv'
<1>1. /\ UNCHANGED <<receipts, clock, open, moderated, composer, reader, confirmed>>
      /\ post[r].pc = "insert" /\ post[r] \in Post /\ post[r].note \in Note!Notes
      /\ post[r].note[1] \in Guests /\ post[r].window \in Note!Windows
  BY DEF Note!Insert, NotesInv, NotesTyped, ToldKnown, Post, Note!Notes
<1>2. /\ post' \in [Requests -> Post] /\ \A q \in Requests \ {r} : post'[q] = post[q]
      /\ post'[r].note = post[r].note /\ post'[r].pc \in {"reread", "guards"}
  <2>1. PICK pc \in {"reread", "guards"} : post' = [post EXCEPT ![r].pc = pc]
    BY DEF Note!Insert
  <2>2. post \in [Requests -> Post]
    BY DEF NotesInv, NotesTyped
  <2> QED
    BY <1>1, <2>1, <2>2 DEF Post
<1>3. CASE ~Note!Insertable(r)
  <2>1. UNCHANGED <<note, rate>>
    BY <1>3 DEF Note!Insert, Note!Charged
  <2>2. made' = made
    <3>1. made' = [made EXCEPT ![post[r].window][post[r].note[1]] = @ + 0]
      BY <1>3 DEF Note!Insert
    <3>2. made \in [Note!Windows -> [Guests -> Nat]]
      BY DEF NotesInv, NotesTyped
    <3> DEFINE w == post[r].window
               g == post[r].note[1]
    <3>3. made[w][g] + 0 = made[w][g] /\ w \in Note!Windows /\ g \in Guests
      BY <1>1, <3>2
    <3>4. made' = [made EXCEPT ![w] = [made[w] EXCEPT ![g] = made[w][g] + 0]]
      BY <3>1, <3>2, <3>3
    <3> HIDE DEF w, g
    <3>5. [made[w] EXCEPT ![g] = made[w][g] + 0] = made[w]
      BY <3>2, <3>3
    <3> QED
      BY <3>2, <3>4, <3>5
  <2>3. Note!Stored' = Note!Stored /\ Known' = Known
    BY <1>1, <2>1 DEF Note!Stored, Known
  <2>4. ChargedOnce' /\ WithinLimits'
    BY <1>1, <2>1, <2>2, <2>3, LimitsStay
  <2>5. NotesTyped'
    BY <1>1, <1>2, <2>1, <2>2 DEF NotesInv, NotesTyped
  <2>6. ToldKnown'
    <3>1. \A q \in Requests : /\ post'[q].pc # "idle" => post'[q].note \in Note!Notes
                              /\ post'[q].pc = "idle" => post'[q].note = <<>>
                              /\ post'[q].pc \in {"existing", "receipt"} => post'[q].out # "sent"
                              /\ post'[q].pc = "answer" /\ post'[q].out = "sent" => post'[q].note \in Known'
      BY <1>1, <1>2, <2>3 DEF NotesInv, ToldKnown
    <3> QED
      BY <1>1, <2>3, <3>1 DEF NotesInv, ToldKnown
  <2>7. AllBehind'
    BY <1>1, <1>2, <2>3 DEF NotesInv, AllBehind, Behind
  <2> QED
    BY <2>4, <2>5, <2>6, <2>7 DEF NotesInv
<1>4. CASE Note!Insertable(r)
  <2> DEFINE n == post[r].note
             w == post[r].window
             g == post[r].note[1]
             e == Note!Event(r)
  <2>1. /\ n \notin Known /\ Note!SessionCount(w, g) < SessionLimit /\ Note!AddressCount(w) < AddressLimit
        /\ Cardinality(Note!Stored) < NoteLimit /\ n \in Note!Notes /\ g \in Guests /\ w \in Note!Windows
    BY <1>1, <1>4, NoteCardinality DEF Note!Insertable, Known
  <2>2. PICK new \in NoteRow : note' = [note EXCEPT ![n] = new] /\ new.state # "none"
    <3>1. CASE moderated
      <4>1. note' = [note EXCEPT ![n] = [state |-> "pending", deleted |-> FALSE]]
        BY <1>4, <3>1 DEF Note!Insert
      <4>2. [state |-> "pending", deleted |-> FALSE] \in NoteRow
        BY DEF NoteRow
      <4> QED
        BY <4>1, <4>2
    <3>2. CASE ~moderated
      <4>1. note' = [note EXCEPT ![n] = [state |-> "approved", deleted |-> FALSE]]
        BY <1>4, <3>2 DEF Note!Insert
      <4>2. [state |-> "approved", deleted |-> FALSE] \in NoteRow
        BY DEF NoteRow
      <4> QED
        BY <4>1, <4>2
    <3> QED
      BY <3>1, <3>2
  <2>3. rate' = rate \cup {e} /\ e = [window |-> w, guest |-> g, id |-> Note!AddressCount(w) + 1]
    BY <1>4 DEF Note!Insert, Note!Charged, Note!Event
  <2>4. made' = [made EXCEPT ![w][g] = @ + 1]
    BY <1>4 DEF Note!Insert
  <2>5. /\ note \in [Note!Notes -> NoteRow] /\ rate \subseteq Charge /\ made \in [Note!Windows -> [Guests -> Nat]]
        /\ IsFiniteSet(rate) /\ IsFiniteSet(Note!Stored)
        /\ \A f \in rate : f.id <= Note!AddressCount(f.window)
    BY DEF NotesInv, NotesTyped, ChargedOnce, WithinLimits
  <2>6. Behind(n)
    BY <1>1 DEF NotesInv, AllBehind
  <2> HIDE DEF n, w, g, e
  <2>7. Note!Stored' = Note!Stored \cup {n} /\ n \notin Note!Stored /\ Known' = Known \cup {n}
    <3>1. Note!Stored' = Note!Stored \cup {n}
      BY <2>1, <2>2, <2>5 DEF Note!Stored
    <3> QED
      BY <1>1, <2>1, <3>1 DEF Known
  <2>8. \A v \in Note!Windows : IsFiniteSet(Note!RowsOf(v)) /\ Note!AddressCount(v) \in Nat
        /\ \A h \in Guests : IsFiniteSet({f \in Note!RowsOf(v) : f.guest = h}) /\ Note!SessionCount(v, h) \in Nat
    <3>1. \A v : Note!RowsOf(v) \subseteq rate /\ \A h : {f \in Note!RowsOf(v) : f.guest = h} \subseteq rate
      BY DEF Note!RowsOf
    <3> QED
      BY <2>5, <3>1, FS_Subset, FS_CardinalityType, NoteCardinality DEF Note!AddressCount, Note!SessionCount
  <2>9. e \in Charge /\ e \notin rate /\ e.window = w /\ e.guest = g /\ e.id = Note!AddressCount(w) + 1
    <3>1. Note!AddressCount(w) \in Nat
      BY <2>1, <2>8
    <3>2. e \in Charge /\ e.window = w /\ e.guest = g /\ e.id = Note!AddressCount(w) + 1
      BY <2>1, <2>3, <3>1 DEF Charge
    <3>3. ~(e.id <= Note!AddressCount(e.window))
      BY <3>1, <3>2
    <3> QED
      BY <2>5, <3>2, <3>3
  <2>10. \A v \in Note!Windows : Note!AddressCount(v)' = IF v = w THEN Note!AddressCount(v) + 1 ELSE Note!AddressCount(v)
    <3> SUFFICES ASSUME NEW v \in Note!Windows
                 PROVE  Note!AddressCount(v)' = IF v = w THEN Note!AddressCount(v) + 1 ELSE Note!AddressCount(v)
      OBVIOUS
    <3>1. CASE v = w
      <4>1. Note!RowsOf(v)' = Note!RowsOf(v) \cup {e} /\ e \notin Note!RowsOf(v)
        BY <2>3, <2>9, <3>1 DEF Note!RowsOf
      <4>2. Cardinality(Note!RowsOf(v) \cup {e}) = Cardinality(Note!RowsOf(v)) + 1
        <5>1. IsFiniteSet(Note!RowsOf(v))
          BY <2>8
        <5> QED
          BY <4>1, <5>1, FS_AddElement
      <4> QED
        BY <3>1, <4>1, <4>2, NoteCardinality DEF Note!AddressCount
    <3>2. CASE v # w
      <4>1. Note!RowsOf(v)' = Note!RowsOf(v)
        BY <2>3, <2>9, <3>2 DEF Note!RowsOf
      <4> QED
        BY <3>2, <4>1 DEF Note!AddressCount
    <3> QED
      BY <3>1, <3>2
  <2>11. \A v \in Note!Windows, h \in Guests :
            Note!SessionCount(v, h)' = IF v = w /\ h = g THEN Note!SessionCount(v, h) + 1 ELSE Note!SessionCount(v, h)
    <3> SUFFICES ASSUME NEW v \in Note!Windows, NEW h \in Guests
                 PROVE  Note!SessionCount(v, h)' = IF v = w /\ h = g THEN Note!SessionCount(v, h) + 1 ELSE Note!SessionCount(v, h)
      OBVIOUS
    <3> DEFINE Mine == {f \in Note!RowsOf(v) : f.guest = h}
    <3>0. Note!SessionCount(v, h) = Cardinality(Mine) /\ Note!SessionCount(v, h)' = Cardinality(Mine')
      BY NoteCardinality DEF Note!SessionCount
    <3>1. CASE v = w /\ h = g
      <4>1. Mine' = Mine \cup {e} /\ e \notin Mine
        BY <2>3, <2>9, <3>1 DEF Note!RowsOf
      <4>2. Cardinality(Mine \cup {e}) = Cardinality(Mine) + 1
        <5>1. IsFiniteSet(Mine)
          BY <2>8
        <5> HIDE DEF Mine
        <5> QED
          BY <4>1, <5>1, FS_AddElement
      <4> HIDE DEF Mine
      <4> QED
        BY <3>0, <3>1, <4>1, <4>2
    <3>2. CASE ~(v = w /\ h = g)
      <4>1. Mine' = Mine
        BY <2>3, <2>9, <3>2 DEF Note!RowsOf
      <4> HIDE DEF Mine
      <4> QED
        BY <3>0, <3>2, <4>1
    <3> QED
      BY <3>1, <3>2
  <2>12. ChargedOnce'
    <3>1. IsFiniteSet(rate')
      BY <2>3, <2>5, FS_AddElement
    <3>2. \A f \in rate' : f.id <= Note!AddressCount(f.window)'
      <4> SUFFICES ASSUME NEW f \in rate' PROVE f.id <= Note!AddressCount(f.window)'
        OBVIOUS
      <4>1. CASE f = e
        BY <2>1, <2>8, <2>9, <2>10, <4>1
      <4>2. CASE f \in rate
        <5>1. f.window \in Note!Windows /\ f.id \in Nat /\ f.id <= Note!AddressCount(f.window)
          BY <2>5, <4>2 DEF Charge
        <5> QED
          BY <2>8, <2>10, <5>1
      <4> QED
        BY <2>3, <4>1, <4>2
    <3>3. \A v \in Note!Windows, h \in Guests : v >= clock => Note!SessionCount(v, h)' = made'[v][h]
      <4>1. \A v \in Note!Windows, h \in Guests : made'[v][h] = IF v = w /\ h = g THEN made[v][h] + 1 ELSE made[v][h]
        BY <2>1, <2>4, <2>5
      <4>2. \A v \in Note!Windows, h \in Guests : v >= clock => Note!SessionCount(v, h) = made[v][h]
        BY DEF NotesInv, ChargedOnce
      <4> QED
        BY <2>11, <4>1, <4>2
    <3> QED
      BY <1>1, <3>1, <3>2, <3>3 DEF ChargedOnce
  <2>13. WithinLimits'
    <3>1. IsFiniteSet(Note!Stored') /\ Cardinality(Note!Stored') <= NoteLimit
      <4>1. Cardinality(Note!Stored) \in Nat
        BY <2>5, FS_CardinalityType
      <4>2. IsFiniteSet(Note!Stored \cup {n}) /\ Cardinality(Note!Stored \cup {n}) = Cardinality(Note!Stored) + 1
        BY <2>5, <2>7, FS_AddElement
      <4>3. Cardinality(Note!Stored) + 1 <= NoteLimit
        BY <2>1, <4>1 DEF NoteBounds
      <4> QED
        BY <2>7, <4>2, <4>3
    <3>2. \A v \in Note!Windows : Note!AddressCount(v)' <= AddressLimit
      BY <2>1, <2>8, <2>10 DEF NotesInv, WithinLimits, NoteBounds
    <3>3. \A v \in Note!Windows, h \in Guests : Note!SessionCount(v, h)' <= SessionLimit
      <4> SUFFICES ASSUME NEW v \in Note!Windows, NEW h \in Guests PROVE Note!SessionCount(v, h)' <= SessionLimit
        OBVIOUS
      <4>1. Note!SessionCount(v, h) \in Nat /\ Note!SessionCount(w, g) \in Nat /\ SessionLimit \in Nat
        BY <2>1, <2>8 DEF NoteBounds
      <4>2. Note!SessionCount(v, h) <= SessionLimit
        BY DEF NotesInv, WithinLimits
      <4>3. CASE v = w /\ h = g
        BY <2>1, <2>11, <4>1, <4>3
      <4>4. CASE ~(v = w /\ h = g)
        BY <2>11, <4>2, <4>4
      <4> QED
        BY <4>3, <4>4
    <3> QED
      BY <3>1, <3>2, <3>3 DEF WithinLimits
  <2>14. NotesTyped'
    <3>1. note' \in [Note!Notes -> NoteRow] /\ rate' \subseteq Charge /\ made' \in [Note!Windows -> [Guests -> Nat]]
      BY <2>1, <2>2, <2>3, <2>4, <2>5, <2>9
    <3> QED
      BY <1>1, <1>2, <3>1 DEF NotesInv, NotesTyped
  <2>15. ToldKnown'
    <3>1. \A q \in Requests : /\ post'[q].pc # "idle" => post'[q].note \in Note!Notes
                              /\ post'[q].pc = "idle" => post'[q].note = <<>>
                              /\ post'[q].pc \in {"existing", "receipt"} => post'[q].out # "sent"
                              /\ post'[q].pc = "answer" /\ post'[q].out = "sent" => post'[q].note \in Known'
      BY <1>1, <1>2, <2>7 DEF NotesInv, ToldKnown
    <3>2. confirmed' \subseteq Known' /\ receipts' \cap Note!Stored' = {}
      BY <1>1, <2>1, <2>7 DEF NotesInv, ToldKnown, Known
    <3> QED
      BY <3>1, <3>2 DEF ToldKnown
  <2>16. AllBehind'
    <3>1. \A m \in Known' : Behind(m)'
      BY <1>1, <2>6, <2>7 DEF NotesInv, AllBehind, Behind
    <3>2. \A q \in Requests : post'[q].pc # "idle" => Behind(post[q].note)'
      BY <1>1, <1>2 DEF NotesInv, AllBehind, Behind
    <3> QED
      BY <3>1, <3>2 DEF AllBehind
  <2> QED
    BY <2>12, <2>13, <2>14, <2>15, <2>16 DEF NotesInv
<1> QED
  BY <1>3, <1>4

\* The hosts: what is known stays known, and no other note is stored.
LEMMA HostKeepsNotes ==
    ASSUME NoteBounds, NotesInv, NEW h \in Moderators,
           (\E n \in Note!Notes : Note!HostLoads(h, n)) \/ Note!ChangeState(h) \/ Note!PurgeDeleted(h)
    PROVE  NotesInv'
<1>1. UNCHANGED <<clock, rate, open, moderated, composer, post, confirmed, made>>
  BY DEF Note!HostLoads, Note!ChangeState, Note!PurgeDeleted
<1>2. note \in [Note!Notes -> NoteRow] /\ reader \in [Moderators -> Reader] /\ receipts \subseteq Note!Notes
  BY DEF NotesInv, NotesTyped
<1>3. /\ note' \in [Note!Notes -> NoteRow] /\ receipts' \subseteq Note!Notes /\ reader' \in [Moderators -> Reader]
      /\ Note!Stored' \subseteq Note!Stored /\ Known' = Known /\ receipts' \cap Note!Stored' = {}
  <2>1. ASSUME NEW n \in Note!Notes, Note!HostLoads(h, n)
        PROVE  /\ note' \in [Note!Notes -> NoteRow] /\ receipts' \subseteq Note!Notes /\ reader' \in [Moderators -> Reader]
               /\ Note!Stored' \subseteq Note!Stored /\ Known' = Known /\ receipts' \cap Note!Stored' = {}
    <3>1. UNCHANGED <<note, receipts>> /\ n \in Note!Stored /\ reader' = [reader EXCEPT ![h] = [note |-> n, seen |-> Note!State(n)]]
      BY <2>1 DEF Note!HostLoads
    <3>2. Note!State(n) \in {"pending", "approved", "rejected", "deleted"}
      BY <1>2, <3>1 DEF Note!State, Note!Stored, NoteRow
    <3>3. [note |-> n, seen |-> Note!State(n)] \in Reader
      BY <3>2 DEF Reader
    <3>4. Note!Stored' = Note!Stored /\ Known' = Known
      BY <3>1 DEF Note!Stored, Known
    <3> QED
      BY <1>2, <3>1, <3>3, <3>4 DEF NotesInv, ToldKnown
  <2>2. Note!Unseen \in Reader
    BY DEF Note!Unseen, Reader
  <2>3. CASE Note!ChangeState(h)
    <3> DEFINE n == reader[h].note
    <3>1. n \in Note!Notes /\ n \in Note!Stored /\ receipts' = receipts /\ reader' = [reader EXCEPT ![h] = Note!Unseen]
      BY <2>3 DEF Note!ChangeState, Note!Stored
    <3>2. \/ UNCHANGED note
          \/ \E new \in NoteRow : new.state # "none" /\ note' = [note EXCEPT ![n] = new]
      <4>1. note[n] \in NoteRow /\ note[n].state # "none"
        BY <1>2, <3>1 DEF Note!Stored
      <4>2. \/ UNCHANGED note \/ note' = [note EXCEPT ![n] = Note!Restored(n)]
            \/ \E to \in {"approved", "rejected"} : note' = [note EXCEPT ![n] = [note[n] EXCEPT !.state = to]]
            \/ note' = [note EXCEPT ![n] = [note[n] EXCEPT !.deleted = TRUE]]
        BY <1>2, <2>3, <3>1 DEF Note!ChangeState
      <4> HIDE DEF n
      <4>3. Note!Restored(n) \in NoteRow /\ Note!Restored(n).state # "none"
        BY DEF Note!Restored, NoteRow
      <4>4. \A to \in {"approved", "rejected"} : [note[n] EXCEPT !.state = to] \in NoteRow /\ [note[n] EXCEPT !.state = to].state # "none"
        BY <4>1 DEF NoteRow
      <4>5. [note[n] EXCEPT !.deleted = TRUE] \in NoteRow /\ [note[n] EXCEPT !.deleted = TRUE].state # "none"
        BY <4>1 DEF NoteRow
      <4> QED
        BY <4>2, <4>3, <4>4, <4>5
    <3> HIDE DEF n
    <3>3. note' \in [Note!Notes -> NoteRow] /\ Note!Stored' = Note!Stored
      BY <1>2, <3>1, <3>2 DEF Note!Stored
    <3> QED
      BY <1>2, <2>2, <3>1, <3>3 DEF Known, NotesInv, ToldKnown
  <2>4. CASE Note!PurgeDeleted(h)
    <3> DEFINE n == reader[h].note
    <3>1. n \in Note!Notes /\ n \in Note!Stored /\ reader' = [reader EXCEPT ![h] = Note!Unseen]
      BY <2>4 DEF Note!PurgeDeleted, Note!Stored
    <3>2. \/ UNCHANGED <<note, receipts>>
          \/ note' = [note EXCEPT ![n] = Note!NoNote] /\ receipts' = receipts \cup {n}
      BY <2>4 DEF Note!PurgeDeleted
    <3> HIDE DEF n
    <3>3. CASE UNCHANGED <<note, receipts>>
      BY <1>2, <2>2, <3>1, <3>3 DEF Note!Stored, Known, NotesInv, ToldKnown
    <3>4. CASE note' = [note EXCEPT ![n] = Note!NoNote] /\ receipts' = receipts \cup {n}
      <4>1. Note!NoNote \in NoteRow /\ Note!NoNote.state = "none"
        BY DEF Note!NoNote, NoteRow
      <4>2. note' \in [Note!Notes -> NoteRow] /\ Note!Stored' = Note!Stored \ {n}
        BY <1>2, <3>1, <3>4, <4>1 DEF Note!Stored
      <4> QED
        BY <1>2, <2>2, <3>1, <3>4, <4>2 DEF Known, NotesInv, ToldKnown
    <3> QED
      BY <3>2, <3>3, <3>4
  <2> QED
    BY <2>1, <2>3, <2>4
<1>4. NotesTyped'
  BY <1>1, <1>3 DEF NotesInv, NotesTyped
<1>5. ToldKnown'
  BY <1>1, <1>3 DEF NotesInv, ToldKnown
<1>6. AllBehind'
  BY <1>1, <1>3 DEF NotesInv, AllBehind, Behind
<1>7. \A w \in Note!Windows : Note!AddressCount(w)' = Note!AddressCount(w) /\ \A g \in Guests : Note!SessionCount(w, g)' = Note!SessionCount(w, g)
  BY <1>1 DEF Note!AddressCount, Note!SessionCount, Note!RowsOf
<1>8. ChargedOnce'
  <2>1. \A e \in rate : e.window \in Note!Windows
    BY DEF NotesInv, NotesTyped, Charge
  <2> QED
    BY <1>1, <1>7, <2>1 DEF NotesInv, ChargedOnce
<1>9. WithinLimits'
  <2>1. IsFiniteSet(Note!Stored') /\ Cardinality(Note!Stored') <= Cardinality(Note!Stored)
    BY <1>3, FS_Subset DEF NotesInv, WithinLimits
  <2>2. Cardinality(Note!Stored') \in Nat /\ Cardinality(Note!Stored) \in Nat
    BY <2>1, FS_CardinalityType DEF NotesInv, WithinLimits
  <2> QED
    BY <1>1, <1>7, <2>1, <2>2 DEF NotesInv, WithinLimits, NoteBounds
<1> QED
  BY <1>4, <1>5, <1>6, <1>8, <1>9 DEF NotesInv

LEMMA TimeKeepsNotes ==
    ASSUME NoteBounds, NotesInv, Note!Settings \/ Note!WindowTurns \/ Note!CleanRates
    PROVE  NotesInv'
<1>1. UNCHANGED <<note, receipts, composer, post, reader, confirmed, made>>
  BY DEF Note!Settings, Note!WindowTurns, Note!CleanRates
<1>2. Note!Stored' = Note!Stored /\ Known' = Known
  BY <1>1 DEF Note!Stored, Known
<1>3. open' \in BOOLEAN /\ moderated' \in BOOLEAN
  <2>1. CASE Note!Settings
    BY <2>1 DEF Note!Settings, NotesInv, NotesTyped
  <2>2. CASE Note!WindowTurns \/ Note!CleanRates
    BY <2>2 DEF Note!WindowTurns, Note!CleanRates, NotesInv, NotesTyped
  <2> QED
    BY <2>1, <2>2
<1>4. ToldKnown' /\ AllBehind'
  <2>1. ToldKnown'
    BY <1>1, <1>2 DEF NotesInv, ToldKnown
  <2>2. AllBehind'
    BY <1>1, <1>2 DEF NotesInv, AllBehind, Behind
  <2> QED
    BY <2>1, <2>2
<1>5. clock' \in Note!Windows /\ rate' \subseteq Charge /\ ChargedOnce' /\ WithinLimits'
  <2>1. CASE Note!Settings \/ Note!WindowTurns
    <3>1. UNCHANGED rate /\ (clock' = clock \/ clock' = 2)
      BY <2>1 DEF Note!Settings, Note!WindowTurns
    <3>2. ChargedOnce' /\ WithinLimits'
      BY <1>1, <1>2, <3>1, LimitsStay
    <3> QED
      BY <3>1, <3>2 DEF NotesInv, NotesTyped, Note!Windows
  <2>2. CASE Note!CleanRates
    <3>1. clock = 2 /\ clock' = clock /\ rate' = rate \ Note!RowsOf(1)
      BY <2>2 DEF Note!CleanRates
    <3>2. Note!RowsOf(2)' = Note!RowsOf(2) /\ Note!RowsOf(1)' = {}
      BY <3>1 DEF Note!RowsOf
    <3>3. Note!AddressCount(2)' = Note!AddressCount(2) /\ Note!AddressCount(1)' = 0
      BY <3>2, FS_EmptySet, NoteCardinality DEF Note!AddressCount
    <3>4. \A g \in Guests : Note!SessionCount(2, g)' = Note!SessionCount(2, g) /\ Note!SessionCount(1, g)' = 0
      <4>1. \A g \in Guests : {e \in {} : e.guest = g} = {}
        OBVIOUS
      <4> QED
        BY <3>2, <4>1, FS_EmptySet, NoteCardinality DEF Note!SessionCount
    <3>5. IsFiniteSet(rate') /\ rate' \subseteq rate /\ \A e \in rate' : e.window = 2
      <4>1. IsFiniteSet(rate) /\ rate \subseteq Charge
        BY DEF NotesInv, NotesTyped, ChargedOnce
      <4>2. \A e \in rate' : e.window = 2
        BY <3>1, <4>1 DEF Charge, Note!Windows, Note!RowsOf
      <4> QED
        BY <3>1, <4>1, <4>2, FS_Subset
    <3>6. ChargedOnce'
      <4>1. \A e \in rate' : e.id <= Note!AddressCount(e.window)'
        BY <3>3, <3>5 DEF NotesInv, ChargedOnce
      <4>2. \A w \in Note!Windows, g \in Guests : w >= clock' => Note!SessionCount(w, g)' = made'[w][g]
        BY <1>1, <3>1, <3>4 DEF NotesInv, ChargedOnce, Note!Windows
      <4> QED
        BY <3>5, <4>1, <4>2 DEF ChargedOnce
    <3>7. WithinLimits'
      BY <1>2, <3>3, <3>4 DEF NotesInv, WithinLimits, Note!Windows, NoteBounds
    <3> QED
      BY <3>1, <3>5, <3>6, <3>7 DEF NotesInv, NotesTyped
  <2> QED
    BY <2>1, <2>2
<1>6. NotesTyped'
  BY <1>1, <1>3, <1>5 DEF NotesInv, NotesTyped
<1> QED
  BY <1>4, <1>5, <1>6 DEF NotesInv

LEMMA NotesStay == ASSUME NoteBounds, NotesInv, [Note!Next]_Note!vars PROVE NotesInv'
<1>1. CASE UNCHANGED Note!vars
  <2>1. Note!Stored' = Note!Stored /\ Known' = Known
    BY <1>1 DEF Note!vars, Note!Stored, Known
  <2>2. ChargedOnce' /\ WithinLimits'
    BY <1>1, <2>1, LimitsStay DEF Note!vars
  <2>3. NotesTyped'
    BY <1>1 DEF Note!vars, NotesInv, NotesTyped
  <2>4. ToldKnown'
    BY <1>1, <2>1 DEF Note!vars, NotesInv, ToldKnown
  <2>5. AllBehind'
    BY <1>1, <2>1 DEF Note!vars, NotesInv, AllBehind, Behind
  <2> QED
    BY <2>2, <2>3, <2>4, <2>5 DEF NotesInv
<1>2. CASE \E g \in Guests : (\E r \in Requests : Note!Send(g, r)) \/ Note!Edit(g) \/ Note!Remount(g) \/ Note!Lost(g)
  BY <1>2, PageKeepsNotes
<1>3. CASE \E r \in Requests :
             Note!TurnedAway(r) \/ Note!Insert(r) \/ Note!Reread(r) \/ Note!ReadGuards(r) \/ Note!ReadExisting(r) \/ Note!ReadReceipt(r) \/ Note!Answer(r)
  BY <1>3, RequestKeepsNotes, InsertKeepsNotes, AnswerKeepsNotes
<1>4. CASE \E h \in Moderators : (\E n \in Note!Notes : Note!HostLoads(h, n)) \/ Note!ChangeState(h) \/ Note!PurgeDeleted(h)
  BY <1>4, HostKeepsNotes
<1> QED
  BY <1>1, <1>2, <1>3, <1>4, TimeKeepsNotes DEF Note!Next

THEOREM NotesInvariant == ASSUME NoteBounds PROVE Note!Spec => []NotesInv
<1>1. Note!Init => NotesInv
  BY NotesStart
<1>2. NotesInv /\ [Note!Next]_Note!vars => NotesInv'
  BY NotesStay
<1> QED
  BY <1>1, <1>2, PTL DEF Note!Spec

LEMMA InvKeepsNotes == NoteBounds /\ NotesInv => Note!NotesKept
<1> SUFFICES ASSUME NoteBounds, NotesInv PROVE Note!NotesKept
  OBVIOUS
<1>1. ASSUME NEW g \in Guests, composer[g].status = "draft"
      PROVE  /\ <<g, composer[g].key>> \notin Known
             /\ \A r \in Requests : post[r].note # <<g, composer[g].key>>
  <2>1. composer[g].key \in Nat
    BY DEF NotesInv, NotesTyped, Draft
  <2>2. ~Behind(<<g, composer[g].key>>)
    BY <1>1, <2>1 DEF Behind
  <2>3. <<g, composer[g].key>> # <<>>
    OBVIOUS
  <2> QED
    BY <2>2, <2>3 DEF NotesInv, AllBehind, ToldKnown
<1>2. \A g \in Guests : Note!SessionCount(clock, g) = made[clock][g]
  BY DEF NotesInv, ChargedOnce, NotesTyped, Note!Windows
<1> QED
  BY <1>1, <1>2, NoteCardinality DEF Note!NotesKept, NotesInv, ToldKnown, WithinLimits, Known

LEMMA StepRespectsNotes == NotesInv /\ [Note!Next]_Note!vars => Note!RespectsNotes
<1> SUFFICES ASSUME NotesInv, [Note!Next]_Note!vars, NEW n \in Note!Notes, ~Note!Shared(n), Note!Shared(n)'
             PROVE  \/ n \notin Note!Stored /\ ~moderated
                    \/ \E h \in Moderators : reader[h].note = n /\ reader[h].seen = Note!State(n) /\ reader[h].seen # "deleted"
  BY DEF Note!RespectsNotes
<1>1. note \in [Note!Notes -> NoteRow]
  BY DEF NotesInv, NotesTyped
<1>2. note'[n] # note[n]
  BY DEF Note!Shared
<1>3. CASE \E r \in Requests : Note!Insert(r)
  <2>1. PICK r \in Requests : Note!Insert(r)
    BY <1>3
  <2>2. Note!Insertable(r) /\ post[r].note = n
    BY <1>1, <1>2, <2>1 DEF Note!Insert
  <2>3. ~moderated
    BY <1>1, <2>1, <2>2 DEF Note!Insert, Note!Shared
  <2> QED
    BY <2>2, <2>3 DEF Note!Insertable
<1>4. CASE \E h \in Moderators : Note!ChangeState(h)
  <2>1. PICK h \in Moderators : Note!ChangeState(h)
    BY <1>4
  <2>2. reader[h].note = n /\ reader[h].seen = Note!State(n)
    BY <1>1, <1>2, <2>1 DEF Note!ChangeState
  <2>3. reader[h].seen # "deleted"
    BY <1>1, <2>1, <2>2 DEF Note!ChangeState, Note!Restored, Note!Shared
  <2> QED
    BY <2>2, <2>3
<1>5. CASE \E h \in Moderators : Note!PurgeDeleted(h)
  BY <1>1, <1>2, <1>5 DEF Note!PurgeDeleted, Note!NoNote, Note!Shared
<1>6. CASE UNCHANGED note
  BY <1>2, <1>6
<1> QED
  BY <1>3, <1>4, <1>5, <1>6 DEF Note!Next, Note!vars, Note!Send, Note!Edit, Note!Remount, Note!Lost,
     Note!TurnedAway, Note!Reread, Note!ReadGuards,
     Note!ReadExisting, Note!ReadReceipt, Note!Answer, Note!HostLoads, Note!Settings, Note!WindowTurns, Note!CleanRates

THEOREM NotesAreKept == ASSUME NoteBounds PROVE Note!Spec => []Note!NotesKept
<1>1. NotesInv => Note!NotesKept
  BY InvKeepsNotes
<1> QED
  BY <1>1, NotesInvariant, PTL

THEOREM NotesAreRespected == ASSUME NoteBounds PROVE Note!Spec => Note!NotesRespected
<1>1. NotesInv /\ [Note!Next]_Note!vars => Note!RespectsNotes
  BY StepRespectsNotes
<1> QED
  BY <1>1, NotesInvariant, PTL DEF Note!Spec, Note!NotesRespected

-----------------------------------------------------------------------------
(* Together.                                                               *)

\* Whoever is stopped, signed out, replaced or reset is out, and whoever should get in
\* does (services/event-entry.ts, db/events.ts, db/accounts.ts).
THEOREM AccessIsKept == Entry!Spec /\ Link!Spec /\ Account!Spec => []AccessKept
<1>1. AccountBounds
  BY AccessBounds
<1> QED
  BY <1>1, EntryIsKept, LinkIsKept, AccountIsKept, PTL DEF AccessKept

\* A mail is tried and repeated within its bounds (db/notification-outbox.ts), a note its
\* guest was told is sent is there, and the limits hold (db/messages.ts).
THEOREM MessagesAreKept == Mail!Spec /\ Note!Spec => []MessagesKept
<1>1. MailBounds /\ NoteBounds
  BY AccessBounds
<1> QED
  BY <1>1, MailIsKept, NotesAreKept, PTL DEF MessagesKept

\* No step undoes what a request relied on.
THEOREM RequestsAreRespected ==
    Entry!Spec /\ Link!Spec /\ Account!Spec /\ Mail!Spec /\ Note!Spec => RequestsRespected
<1>1. AccountBounds /\ MailBounds /\ NoteBounds
  BY AccessBounds
<1> QED
  BY <1>1, EntryIsRespected, LinkIsRespected, AccountIsRespected, MailIsRespected, NotesAreRespected
     DEF RequestsRespected
=============================================================================
