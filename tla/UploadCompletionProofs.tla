---------------------- MODULE UploadCompletionProofs ----------------------
(***************************************************************************)
(* A transfer and its completion are well typed and keep DeliveriesAgree   *)
(* and BytesAccounted, for any parts, contents, handlers and executions.   *)
(*                                                                         *)
(* DeliveredBytes is about what a commit finds under the final key, which  *)
(* an execution saw several awaits earlier and another may have put there. *)
(* It rests on three facts that no single statement checks.  A handler in  *)
(* its upload is the part's unsettled writer, so that a part only ever     *)
(* gets the bytes its first claim pinned (PartsWritten).  One multipart    *)
(* upload is asked for, once (Claimed), so that what it published stays    *)
(* the only object there is, and every copy of it is the same              *)
(* (CopiesAgree).  And it is published only when all parts were accepted   *)
(* (SentFirst).  Once the rows are purged nobody claims anything again.    *)
(***************************************************************************)
EXTENDS UploadCompletion, TLAPS

\* The rows are gone and the photo with them: no transfer can start any more.
Purged == tr.state = "none" /\ media # "reserved"

Sent == \A p \in Parts : part[p].sha # NoBytes /\ uploaded[p] = part[p].sha

-----------------------------------------------------------------------------
(* The rows.                                                               *)

FencedEnded == tr.state \in Active => ~tr.fenced
RowsTogether ==
    /\ tr.state = "none" => asm.state = "none" /\ \A p \in Parts : part[p].state = "none"
    /\ asm.state = "none" => asm.token = NoToken
    /\ \A p \in Parts : part[p].state = "none" <=> part[p].sha = NoBytes
Story == OutcomesAgree /\ ClaimsAgree /\ FencedEnded /\ RowsTogether

(* The parts.                                                              *)

Writer(h) ==
    LET p == handler[h].p IN
    /\ part[p].token = h /\ ~part[p].settled
    /\ part[p].state # "none" /\ part[p].sha = handler[h].c
PartsWritten ==
    /\ \A h \in Handlers :
        /\ handler[h].pc # "idle" => handler[h].c # NoBytes
        /\ handler[h].pc \in {"upload", "accept"} => Writer(h)
        /\ handler[h].pc = "accept" => uploaded[handler[h].p] = handler[h].c
    /\ \A p \in Parts : part[p].state = "accepted" => uploaded[p] = part[p].sha

(* The objects.                                                            *)

Claimed ==
    multipart # "none" \/ asm.id \/ (\E h \in Handlers : handler[h].pc = "record")
        => asm.token # NoToken \/ Purged

Copy(bytes) == bytes # Nothing => bytes = uploaded /\ multipart = "gone"
CopiesAgree ==
    Copy(object["assembly"]) /\ Copy(object["final"]) /\ Copy(calls.put) /\ Copy(asm.hash)

SentFirst ==
    \/ calls.complete \/ object["assembly"] # Nothing \/ object["final"] # Nothing
    \/ calls.put # Nothing \/ asm.hash # Nothing
    => Sent \/ Purged

FinalSeen ==
    /\ \A x \in Execs : exec[x] = "commit" => object["final"] # Nothing
    /\ media = "stored" /\ tr.state # "none" => object["final"] # Nothing

ClosedGone ==
    /\ asm.closed /\ asm.state # "absent" => multipart = "gone"
    /\ cleaner = "mark" => object["assembly"] = Nothing /\ multipart = "gone"

Stock == Claimed /\ CopiesAgree /\ SentFirst /\ FinalSeen /\ ClosedGone /\ AbsentForGood

\* The inductive invariant.
IInv == TypeOK /\ Story /\ PartsWritten /\ Stock

-----------------------------------------------------------------------------
(* Types.                                                                  *)

Putting == [pc: {"idle", "create", "creating", "record", "unknown",
                 "claim", "upload", "accept", "settle"}, p: Parts, c: Bytes]
Executing == {"idle", "look", "record", "hash", "inspect", "claim", "put", "verify",
              "commit", "retry", "reject", "release", "settle"}
Promoting == [state: {"pending", "copying", "committed"}, token: Tokens]

FlagsTyped ==
    /\ media \in {"reserved", "stored", "failed", "deleted"}
    /\ open \in BOOLEAN /\ expired \in BOOLEAN /\ lease \in BOOLEAN
    /\ instance \in {"none", "active", "ended"} /\ restarting \in BOOLEAN
    /\ cleaner \in {"idle", "mark"}
RowsTyped == tr \in Transfer /\ part \in [Parts -> Part] /\ asm \in Assembly
StorageTyped ==
    /\ multipart \in {"none", "asked", "open", "gone"}
    /\ uploaded \in Photo /\ object \in [{"assembly", "final"} -> Photo]
    /\ calls \in [complete: BOOLEAN, put: Photo]
WorkersTyped == handler \in [Handlers -> Putting] /\ exec \in [Execs -> Executing]

LEMMA TypesApart ==
    TypeOK <=> FlagsTyped /\ RowsTyped /\ promo \in Promoting /\ StorageTyped /\ WorkersTyped
BY DEF TypeOK, FlagsTyped, RowsTyped, Promoting, StorageTyped, WorkersTyped, Putting,
    Executing

LEMMA Bare ==
    /\ IdleHandler \in Putting /\ Nothing \in Photo
    /\ NoTransfer \in Transfer /\ NoPart \in Part /\ NoAssembly \in Assembly
<1>1. \E p \in Parts : TRUE
  BY PartsAssumption
<1>2. IdleHandler \in Putting
  BY <1>1 DEF IdleHandler, Putting, Bytes
<1>3. Nothing \in Photo
  BY DEF Nothing, Photo, Bytes
<1>4. NoTransfer \in Transfer
  BY DEF NoTransfer, Transfer, Tokens
<1>5. NoPart \in Part
  BY DEF NoPart, Part, Tokens, Bytes
<1>6. NoAssembly \in Assembly
  BY <1>3 DEF NoAssembly, Assembly, Tokens
<1> QED
  BY <1>2, <1>3, <1>4, <1>5, <1>6

LEMMA HandlerMoves ==
    ASSUME WorkersTyped, NEW h \in Handlers
    PROVE  /\ \A pc \in {"create", "creating", "record", "unknown", "claim", "upload",
                         "accept", "settle"} : At(h, pc) => handler' \in [Handlers -> Putting]
           /\ Leaves(h) => handler' \in [Handlers -> Putting]
BY Bare DEF WorkersTyped, At, Leaves, Putting

LEMMA ExecMoves ==
    ASSUME WorkersTyped, NEW x \in Execs, NEW pc \in Executing, To(x, pc)
    PROVE  exec' \in [Execs -> Executing]
BY DEF WorkersTyped, To

LEMMA FenceTyped ==
    ASSUME RowsTyped, NEW end \in Terminal, Fence(end)
    PROVE  RowsTyped'
<1>1. tr' \in Transfer
  BY DEF RowsTyped, Fence, Transfer, Terminal, Active, Tokens
<1>2. part' \in [Parts -> Part]
  BY DEF RowsTyped, Fence, Suppressed, Part
<1>3. asm' \in Assembly
  BY DEF RowsTyped, Fence, Assembly
<1> QED
  BY <1>1, <1>2, <1>3 DEF RowsTyped

LEMMA TypeInit == Init => TypeOK
<1> SUFFICES ASSUME Init PROVE TypeOK
  OBVIOUS
<1>1. FlagsTyped /\ RowsTyped /\ WorkersTyped
  BY Bare DEF Init, FlagsTyped, RowsTyped, WorkersTyped, Executing
<1>2. promo \in Promoting
  BY DEF Init, Promoting, Tokens
<1>3. StorageTyped
  BY Bare DEF Init, StorageTyped
<1> QED
  BY <1>1, <1>2, <1>3, TypesApart

LEMMA TypeNext == TypeOK /\ [Next]_vars => TypeOK'
<1> SUFFICES ASSUME TypeOK, [Next]_vars PROVE TypeOK'
  OBVIOUS
<1> DEFINE Typed == /\ FlagsTyped' /\ RowsTyped' /\ promo' \in Promoting
                    /\ StorageTyped' /\ WorkersTyped'
<1> SUFFICES Typed
  BY DEF TypeOK, FlagsTyped, RowsTyped, Promoting, StorageTyped, WorkersTyped, Putting,
      Executing
<1>0. FlagsTyped /\ RowsTyped /\ promo \in Promoting /\ StorageTyped /\ WorkersTyped
  BY TypesApart
<1>a. RowsTyped /\ UNCHANGED <<tr, part, asm>> => RowsTyped'
  BY DEF RowsTyped
<1>b. StorageTyped /\ UNCHANGED storage => StorageTyped'
  BY DEF StorageTyped, storage
<1>c. WorkersTyped /\ UNCHANGED <<handler, exec>> => WorkersTyped'
  BY DEF WorkersTyped
<1> USE <1>0, <1>a, <1>b, <1>c DEF rows, rowsBut, workers, others, storage
<1>1. CASE UNCHANGED vars
  BY <1>1 DEF vars, FlagsTyped
<1>2. CASE Initiate
  <2>1. tr' \in Transfer
    BY <1>2 DEF Initiate, NoTransfer, RowsTyped, Transfer, Tokens, Active
  <2> QED
    BY <1>2, <2>1 DEF Initiate, FlagsTyped, RowsTyped
<1>3. CASE ClaimCompletion
  <2>1. tr' \in Transfer
    BY <1>3 DEF ClaimCompletion, RowsTyped, Transfer, Tokens, Active
  <2>2. asm' \in Assembly
    BY <1>3 DEF ClaimCompletion, RowsTyped, Assembly, Tokens
  <2> QED
    BY <1>3, <2>1, <2>2 DEF ClaimCompletion, FlagsTyped, RowsTyped
<1>4. CASE Abort
  <2>1. RowsTyped'
    BY <1>4, FenceTyped DEF Abort, Terminal
  <2>2. FlagsTyped'
    BY <1>4 DEF Abort, FlagsTyped
  <2> QED
    BY <1>4, <2>1, <2>2 DEF Abort
<1>5. CASE MediaGone
  <2>1. RowsTyped'
    BY <1>5, FenceTyped DEF MediaGone, Terminal
  <2>2. FlagsTyped'
    BY <1>5 DEF MediaGone, FlagsTyped
  <2> QED
    BY <1>5, <2>1, <2>2 DEF MediaGone
<1>6. CASE EventGone
  <2>1. RowsTyped'
    BY <1>6, FenceTyped DEF EventGone, Terminal
  <2>2. FlagsTyped'
    BY <1>6 DEF EventGone, FlagsTyped
  <2> QED
    BY <1>6, <2>1, <2>2 DEF EventGone
<1>7. CASE FailTerminal
  <2>1. RowsTyped'
    BY <1>7, FenceTyped DEF FailTerminal, Terminal
  <2>2. FlagsTyped'
    BY <1>7 DEF FailTerminal, FlagsTyped
  <2> QED
    BY <1>7, <2>1, <2>2 DEF FailTerminal
<1>8. CASE FenceIfUnwritable
  <2>1. RowsTyped'
    BY <1>8, FenceTyped DEF FenceIfUnwritable, Terminal
  <2> QED
    BY <1>8, <2>1 DEF FenceIfUnwritable, FlagsTyped
<1>9. CASE Toggle
  BY <1>9 DEF Toggle, FlagsTyped
<1>10. CASE DeadlinePasses
  BY <1>10 DEF DeadlinePasses, FlagsTyped
<1>11. CASE Restart
  BY <1>11 DEF Restart, FlagsTyped
<1>12. CASE InstanceEnds
  BY <1>12 DEF InstanceEnds, FlagsTyped
<1>13. CASE LeaseLapses
  BY <1>13 DEF LeaseLapses, FlagsTyped
<1>14. CASE CreateLands
  <2>1. StorageTyped'
    BY <1>14 DEF CreateLands, StorageTyped
  <2> QED
    BY <1>14, <2>1 DEF CreateLands, FlagsTyped
<1>15. CASE CompleteLands
  <2>1. StorageTyped'
    BY <1>15 DEF CompleteLands, StorageTyped
  <2> QED
    BY <1>15, <2>1 DEF CompleteLands, FlagsTyped
<1>16. CASE CompleteFails
  <2>1. StorageTyped'
    BY <1>16 DEF CompleteFails, StorageTyped
  <2> QED
    BY <1>16, <2>1 DEF CompleteFails, FlagsTyped
<1>17. CASE PutLands
  <2>1. Nothing \in Photo
    BY Bare
  <2>2. StorageTyped'
    BY <1>17, <2>1 DEF PutLands, StorageTyped
  <2> QED
    BY <1>17, <2>1, <2>2 DEF PutLands, FlagsTyped
<1>18. CASE PutFails
  <2>1. Nothing \in Photo
    BY Bare
  <2>2. StorageTyped'
    BY <1>18, <2>1 DEF PutFails, StorageTyped
  <2> QED
    BY <1>18, <2>1, <2>2 DEF PutFails, FlagsTyped
<1>19. CASE AbortMultipart
  <2>1. StorageTyped'
    BY <1>19 DEF AbortMultipart, StorageTyped
  <2> QED
    BY <1>19, <2>1 DEF AbortMultipart, FlagsTyped
<1>20. CASE DeleteAssembly
  <2>1. Nothing \in Photo
    BY Bare
  <2>2. StorageTyped'
    BY <1>20, <2>1 DEF DeleteAssembly, StorageTyped
  <2> QED
    BY <1>20, <2>1, <2>2 DEF DeleteAssembly, FlagsTyped
<1>21. CASE RetireCompleted
  <2>1. asm' \in Assembly
    BY <1>21 DEF RetireCompleted, RowsTyped, Assembly, Tokens
  <2> QED
    BY <1>21, <2>1 DEF RetireCompleted, FlagsTyped, RowsTyped
<1>22. CASE RetireUnclaimed
  <2>1. asm' \in Assembly
    BY <1>22 DEF RetireUnclaimed, RowsTyped, Assembly, Tokens
  <2> QED
    BY <1>22, <2>1 DEF RetireUnclaimed, FlagsTyped, RowsTyped
<1>23. CASE MarkClosed
  <2>1. asm' \in Assembly
    BY <1>23 DEF MarkClosed, RowsTyped, Assembly, Tokens
  <2> QED
    BY <1>23, <2>1 DEF MarkClosed, FlagsTyped, RowsTyped
<1>24. CASE SettleByPlatform
  <2>1. asm' \in Assembly
    BY <1>24 DEF SettleByPlatform, RowsTyped, Assembly, Tokens
  <2> QED
    BY <1>24, <2>1 DEF SettleByPlatform, FlagsTyped, RowsTyped
<1>25. CASE MarkAbsent
  <2>1. asm' \in Assembly
    BY <1>25 DEF MarkAbsent, RowsTyped, Assembly, Tokens
  <2> QED
    BY <1>25, <2>1 DEF MarkAbsent, FlagsTyped, RowsTyped
<1>26. CASE Dispatch
  <2>1. asm' \in Assembly
    BY <1>26 DEF Dispatch, RowsTyped, Assembly, Tokens
  <2> QED
    BY <1>26, <2>1 DEF Dispatch, FlagsTyped, RowsTyped
<1>27. CASE PurgeInventory
  <2>1. RowsTyped'
    BY <1>27, Bare DEF PurgeInventory, RowsTyped
  <2> QED
    BY <1>27, <2>1 DEF PurgeInventory, FlagsTyped
<1>28. ASSUME NEW p \in Parts, PartLeaseLapses(p) PROVE Typed
  <2>1. [part[p] EXCEPT !.lease = FALSE] \in Part
    BY DEF RowsTyped, Part
  <2>2. part' \in [Parts -> Part]
    BY <1>28, <2>1 DEF PartLeaseLapses, RowsTyped
  <2> QED
    BY <1>28, <2>2 DEF PartLeaseLapses, FlagsTyped, RowsTyped
<1>29. ASSUME NEW h \in Handlers, NEW p \in Parts, NEW c \in Contents, BeginPart(h, p, c)
       PROVE  Typed
  <2>1. asm' \in Assembly
    BY <1>29 DEF BeginPart, RowsTyped, Assembly, Tokens
  <2>2. handler' \in [Handlers -> Putting]
    BY <1>29 DEF BeginPart, WorkersTyped, Putting, Bytes
  <2> QED
    BY <1>29, <2>1, <2>2 DEF BeginPart, FlagsTyped, RowsTyped, WorkersTyped
<1>30. ASSUME NEW h \in Handlers, ClaimCreate(h) PROVE Typed
  <2>1. asm' \in Assembly
    BY <1>30 DEF ClaimCreate, RowsTyped, Assembly, Tokens
  <2>2. handler' \in [Handlers -> Putting]
    BY <1>30, HandlerMoves DEF ClaimCreate
  <2>3. StorageTyped'
    BY <1>30 DEF ClaimCreate, StorageTyped
  <2> QED
    BY <1>30, <2>1, <2>2, <2>3 DEF ClaimCreate, FlagsTyped, RowsTyped, WorkersTyped
<1>31. ASSUME NEW h \in Handlers, CreateAnswered(h) PROVE Typed
  <2>1. handler' \in [Handlers -> Putting]
    BY <1>31, HandlerMoves DEF CreateAnswered
  <2> QED
    BY <1>31, <2>1 DEF CreateAnswered, FlagsTyped, WorkersTyped
<1>32. ASSUME NEW h \in Handlers, RecordCreated(h) PROVE Typed
  <2>1. asm' \in Assembly
    <3>1. PICK settled \in BOOLEAN, state \in {asm.state, "receiving"} :
             asm' = [asm EXCEPT !.id = TRUE, !.created = TRUE, !.settled = settled,
                                !.state = state]
      BY <1>32 DEF RecordCreated, RowsTyped, Assembly
    <3> QED
      BY <3>1 DEF RowsTyped, Assembly
  <2>2. handler' \in [Handlers -> Putting]
    BY <1>32, HandlerMoves DEF RecordCreated
  <2> QED
    BY <1>32, <2>1, <2>2 DEF RecordCreated, FlagsTyped, RowsTyped, WorkersTyped
<1>33. ASSUME NEW h \in Handlers, SettleUnknownCreate(h) PROVE Typed
  <2>1. asm' \in Assembly
    BY <1>33 DEF SettleUnknownCreate, RowsTyped, Assembly, Tokens
  <2>2. handler' \in [Handlers -> Putting]
    BY <1>33, HandlerMoves DEF SettleUnknownCreate
  <2> QED
    BY <1>33, <2>1, <2>2 DEF SettleUnknownCreate, FlagsTyped, RowsTyped, WorkersTyped
<1>34. ASSUME NEW h \in Handlers, ClaimPart(h) PROVE Typed
  <2>1. handler[h].p \in Parts /\ handler[h].c \in Bytes
    BY DEF WorkersTyped, Putting
  <2>2. [state |-> "writing", sha |-> handler[h].c, token |-> h, lease |-> TRUE, settled |-> FALSE] \in Part
    BY <2>1 DEF Part, Tokens
  <2>3. part' \in [Parts -> Part]
    BY <1>34, <2>1, <2>2 DEF ClaimPart, RowsTyped
  <2>4. handler' \in [Handlers -> Putting]
    BY <1>34, HandlerMoves DEF ClaimPart
  <2> QED
    BY <1>34, <2>1, <2>2, <2>3, <2>4 DEF ClaimPart, FlagsTyped, RowsTyped, WorkersTyped
<1>35. ASSUME NEW h \in Handlers, UploadPart(h) PROVE Typed
  <2>1. handler[h].p \in Parts /\ handler[h].c \in Bytes
    BY DEF WorkersTyped, Putting
  <2>2. StorageTyped'
    BY <1>35, <2>1 DEF UploadPart, StorageTyped, Photo
  <2>3. handler' \in [Handlers -> Putting]
    BY <1>35, HandlerMoves DEF UploadPart
  <2> QED
    BY <1>35, <2>1, <2>2, <2>3 DEF UploadPart, FlagsTyped, WorkersTyped
<1>36. ASSUME NEW h \in Handlers, SettlePart(h) PROVE Typed
  <2>1. \A r \in Part : [r EXCEPT !.settled = TRUE, !.lease = FALSE] \in Part
    BY DEF Part
  <2>2. handler[h].p \in Parts
    BY DEF WorkersTyped, Putting
  <2>3. part' \in [Parts -> Part]
    BY <1>36, <2>1, <2>2 DEF SettlePart, RowsTyped
  <2>4. handler' \in [Handlers -> Putting]
    BY <1>36, HandlerMoves DEF SettlePart
  <2> QED
    BY <1>36, <2>1, <2>2, <2>3, <2>4 DEF SettlePart, FlagsTyped, RowsTyped, WorkersTyped
<1>37. ASSUME NEW h \in Handlers, AcceptPart(h) PROVE Typed
  <2>1. \A p \in Parts : [part[p] EXCEPT !.state = "accepted", !.settled = TRUE] \in Part
    BY DEF RowsTyped, Part
  <2>2. part' \in [Parts -> Part]
    BY <1>37, <2>1 DEF AcceptPart, RowsTyped
  <2>3. handler' \in [Handlers -> Putting]
    BY <1>37, HandlerMoves DEF AcceptPart
  <2> QED
    BY <1>37, <2>2, <2>3 DEF AcceptPart, FlagsTyped, RowsTyped, WorkersTyped
<1>38. ASSUME NEW h \in Handlers, HandlerDies(h) PROVE Typed
  <2>1. handler' \in [Handlers -> Putting]
    BY <1>38, HandlerMoves DEF HandlerDies
  <2> QED
    BY <1>38, <2>1 DEF HandlerDies, FlagsTyped, WorkersTyped
<1>39. ASSUME NEW x \in Execs, BeginCompletion(x) PROVE Typed
  <2>1. tr' \in Transfer
    BY <1>39 DEF BeginCompletion, RowsTyped, Transfer, Tokens, Active
  <2>2. asm' \in Assembly
    BY <1>39 DEF BeginCompletion, RowsTyped, Assembly, Tokens
  <2>3. exec' \in [Execs -> Executing]
    BY <1>39, ExecMoves DEF BeginCompletion, Else, Executing
  <2> QED
    BY <1>39, <2>1, <2>2, <2>3 DEF BeginCompletion, FlagsTyped, RowsTyped, WorkersTyped
<1>40. ASSUME NEW x \in Execs, LookAssembly(x) PROVE Typed
  <2>1. exec' \in [Execs -> Executing]
    BY <1>40, ExecMoves DEF LookAssembly, Else, Executing
  <2>2. StorageTyped'
    BY <1>40 DEF LookAssembly, StorageTyped
  <2> QED
    BY <1>40, <2>1, <2>2 DEF LookAssembly, FlagsTyped, WorkersTyped
<1>41. ASSUME NEW x \in Execs, RecordObject(x) PROVE Typed
  <2>1. exec' \in [Execs -> Executing]
    BY <1>41, ExecMoves DEF RecordObject, Else, Executing
  <2>2. asm' \in Assembly
    BY <1>41 DEF RecordObject, RowsTyped, Assembly, Tokens
  <2> QED
    BY <1>41, <2>1, <2>2 DEF RecordObject, FlagsTyped, RowsTyped, WorkersTyped
<1>42. ASSUME NEW x \in Execs, RecordHash(x) PROVE Typed
  <2>1. exec' \in [Execs -> Executing]
    BY <1>42, ExecMoves DEF RecordHash, Else, Executing
  <2>2. object["assembly"] \in Photo
    BY DEF StorageTyped
  <2>3. asm' \in Assembly
    BY <1>42, <2>2 DEF RecordHash, RowsTyped, Assembly
  <2> QED
    BY <1>42, <2>1, <2>2, <2>3 DEF RecordHash, FlagsTyped, RowsTyped, WorkersTyped
<1>43. ASSUME NEW x \in Execs, Inspect(x) PROVE Typed
  <2>1. exec' \in [Execs -> Executing]
    BY <1>43, ExecMoves DEF Inspect, Else, Executing
  <2> QED
    BY <1>43, <2>1 DEF Inspect, FlagsTyped, WorkersTyped
<1>44. ASSUME NEW x \in Execs, ClaimFinal(x) PROVE Typed
  <2>1. exec' \in [Execs -> Executing]
    BY <1>44, ExecMoves DEF ClaimFinal, Else, Executing
  <2>2. promo' \in Promoting
    BY <1>44 DEF ClaimFinal, Promoting, Tokens
  <2> QED
    BY <1>44, <2>1, <2>2 DEF ClaimFinal, FlagsTyped, WorkersTyped
<1>45. ASSUME NEW x \in Execs, PutFinal(x) PROVE Typed
  <2>1. exec' \in [Execs -> Executing]
    BY <1>45, ExecMoves DEF PutFinal, Else, Executing
  <2>2. StorageTyped'
    BY <1>45 DEF PutFinal, StorageTyped
  <2> QED
    BY <1>45, <2>1, <2>2 DEF PutFinal, FlagsTyped, WorkersTyped
<1>46. ASSUME NEW x \in Execs, VerifyFinal(x) PROVE Typed
  <2>1. exec' \in [Execs -> Executing]
    BY <1>46, ExecMoves DEF VerifyFinal, Else, Executing
  <2> QED
    BY <1>46, <2>1 DEF VerifyFinal, FlagsTyped, WorkersTyped
<1>47. ASSUME NEW x \in Execs, CommitFinal(x) PROVE Typed
  <2>1. exec' \in [Execs -> Executing]
    BY <1>47, ExecMoves DEF CommitFinal, Else, Executing
  <2>2. tr' \in Transfer
    BY <1>47 DEF CommitFinal, RowsTyped, Transfer, Tokens, Active
  <2>3. promo' \in Promoting
    BY <1>47 DEF CommitFinal, Promoting, Tokens
  <2>4. FlagsTyped'
    BY <1>47 DEF CommitFinal, FlagsTyped
  <2> QED
    BY <1>47, <2>1, <2>2, <2>3, <2>4 DEF CommitFinal, FlagsTyped, RowsTyped, WorkersTyped
<1>48. ASSUME NEW x \in Execs, FailCompletion(x) PROVE Typed
  <2>1. exec' \in [Execs -> Executing]
    BY <1>48, ExecMoves DEF FailCompletion, Else, Executing
  <2>2. CASE Fence("rejected")
    BY <1>48, <2>1, <2>2, FenceTyped DEF FailCompletion, FlagsTyped, WorkersTyped, Terminal
  <2>3. CASE ~Fence("rejected")
    <3>1. tr' \in Transfer
      BY <1>48, <2>3 DEF FailCompletion, RowsTyped, Transfer, Active
    <3> QED
      BY <1>48, <2>1, <2>3, <3>1 DEF FailCompletion, FlagsTyped, RowsTyped, WorkersTyped
  <2> QED
    BY <2>2, <2>3
<1>49. ASSUME NEW x \in Execs, ReleaseRejected(x) PROVE Typed
  <2>1. exec' \in [Execs -> Executing]
    BY <1>49, ExecMoves DEF ReleaseRejected, Else, Executing
  <2>2. RowsTyped'
    BY <1>49, FenceTyped DEF ReleaseRejected, Terminal
  <2>3. FlagsTyped'
    BY <1>49 DEF ReleaseRejected, FlagsTyped
  <2> QED
    BY <1>49, <2>1, <2>2, <2>3 DEF ReleaseRejected, WorkersTyped
<1>50. ASSUME NEW x \in Execs, SettleCompletion(x) PROVE Typed
  <2>1. exec' \in [Execs -> Executing]
    BY <1>50 DEF SettleCompletion, WorkersTyped, Executing
  <2>2. asm' \in Assembly
    BY <1>50 DEF SettleCompletion, RowsTyped, Assembly, Tokens
  <2> QED
    BY <1>50, <2>1, <2>2 DEF SettleCompletion, FlagsTyped, RowsTyped, WorkersTyped
<1>51. ASSUME NEW x \in Execs, Interrupted(x) PROVE Typed
  <2>1. exec' \in [Execs -> Executing]
    BY <1>51, ExecMoves DEF Interrupted, Else, Executing
  <2> QED
    BY <1>51, <2>1 DEF Interrupted, FlagsTyped, WorkersTyped
<1>52. ASSUME NEW x \in Execs, ExecDies(x) PROVE Typed
  <2>1. exec' \in [Execs -> Executing]
    BY <1>52 DEF ExecDies, WorkersTyped, Executing
  <2> QED
    BY <1>52, <2>1 DEF ExecDies, FlagsTyped, WorkersTyped
<1> QED
  BY <1>1, <1>2, <1>3, <1>4, <1>5, <1>6, <1>7, <1>8, <1>9, <1>10, <1>11, <1>12, <1>13,
     <1>14, <1>15, <1>16, <1>17, <1>18, <1>19, <1>20, <1>21, <1>22, <1>23, <1>24, <1>25,
     <1>26, <1>27, <1>28, <1>29, <1>30, <1>31, <1>32, <1>33, <1>34, <1>35, <1>36, <1>37,
     <1>38, <1>39, <1>40, <1>41, <1>42, <1>43, <1>44, <1>45, <1>46, <1>47, <1>48, <1>49,
     <1>50, <1>51, <1>52
     DEF Next, TransferStep, ExecStep, CleanupStep

-----------------------------------------------------------------------------
(* The rows tell one story.                                                *)

LEMMA StoryNext == IInv /\ [Next]_vars => Story'
<1> SUFFICES ASSUME IInv, [Next]_vars PROVE Story'
  OBVIOUS
<1>t. tr \in Transfer /\ part \in [Parts -> Part] /\ asm \in Assembly
      /\ media \in {"reserved", "stored", "failed", "deleted"}
  BY DEF IInv, TypeOK
<1>s. Story /\ handler \in [Handlers -> Putting]
      /\ \A h \in Handlers : handler[h].pc # "idle" => handler[h].c # NoBytes
  BY DEF IInv, PartsWritten, TypeOK, Putting
<1> USE <1>t, <1>s, ContentsAssumption, TokensAssumption DEF Story, OutcomesAgree,
    ClaimsAgree, FencedEnded, RowsTogether,
    Transfer, Part, Assembly, Active, Terminal, rows, rowsBut, storage, workers, others
<1>1. CASE UNCHANGED vars
  BY <1>1 DEF vars
<1>2. CASE Initiate
  BY <1>2 DEF Initiate, NoTransfer
<1>3. CASE ClaimCompletion
  BY <1>3 DEF ClaimCompletion, Receiving
<1>4. CASE Abort
  BY <1>4 DEF Abort, Fence, Suppressed
<1>5. CASE MediaGone
  BY <1>5 DEF MediaGone, Fence, Suppressed
<1>6. CASE EventGone
  BY <1>6 DEF EventGone, Fence, Suppressed
<1>7. CASE FenceIfUnwritable
  BY <1>7 DEF FenceIfUnwritable, Fence, Suppressed, Writable
<1>8. CASE FailTerminal
  BY <1>8 DEF FailTerminal, Fence, Suppressed
<1>9. CASE Toggle
  BY <1>9 DEF Toggle
<1>10. CASE DeadlinePasses
  BY <1>10 DEF DeadlinePasses
<1>11. CASE CreateLands
  BY <1>11 DEF CreateLands
<1>12. CASE Dispatch
  BY <1>12 DEF Dispatch, MaySettle
<1>13. CASE Restart
  BY <1>13 DEF Restart
<1>14. CASE InstanceEnds
  BY <1>14 DEF InstanceEnds
<1>15. CASE LeaseLapses
  BY <1>15 DEF LeaseLapses
<1>16. CASE CompleteLands
  BY <1>16 DEF CompleteLands
<1>17. CASE CompleteFails
  BY <1>17 DEF CompleteFails
<1>18. CASE PutLands
  BY <1>18 DEF PutLands
<1>19. CASE PutFails
  BY <1>19 DEF PutFails
<1>20. CASE RetireCompleted
  BY <1>20 DEF RetireCompleted
<1>21. CASE RetireUnclaimed
  BY <1>21 DEF RetireUnclaimed
<1>22. CASE AbortMultipart
  BY <1>22 DEF AbortMultipart, Retiring
<1>23. CASE MarkClosed
  BY <1>23 DEF MarkClosed
<1>24. CASE SettleByPlatform
  BY <1>24 DEF SettleByPlatform
<1>25. CASE DeleteAssembly
  BY <1>25 DEF DeleteAssembly, Retiring
<1>26. CASE MarkAbsent
  BY <1>26 DEF MarkAbsent, Retiring
<1>27. CASE PurgeInventory
  BY <1>27 DEF PurgeInventory, HasInventory, PartsSettled, NoTransfer, NoPart, NoAssembly
<1>28. ASSUME NEW p \in Parts, PartLeaseLapses(p) PROVE Story'
  BY <1>28 DEF PartLeaseLapses
<1>29. ASSUME NEW h \in Handlers, NEW p \in Parts, NEW c \in Contents, BeginPart(h, p, c)
       PROVE  Story'
  BY <1>29 DEF BeginPart, Receiving, Writable
<1>30. ASSUME NEW h \in Handlers, ClaimCreate(h) PROVE Story'
  BY <1>30 DEF ClaimCreate, Receiving, Writable
<1>31. ASSUME NEW h \in Handlers, CreateAnswered(h) PROVE Story'
  BY <1>31 DEF CreateAnswered
<1>32. ASSUME NEW h \in Handlers, RecordCreated(h) PROVE Story'
  BY <1>32 DEF RecordCreated
<1>33. ASSUME NEW h \in Handlers, SettleUnknownCreate(h) PROVE Story'
  BY <1>33 DEF SettleUnknownCreate
<1>34. ASSUME NEW h \in Handlers, ClaimPart(h) PROVE Story'
  BY <1>34 DEF ClaimPart, Receiving, Writable, Claimable
<1>35. ASSUME NEW h \in Handlers, UploadPart(h) PROVE Story'
  BY <1>35 DEF UploadPart
<1>36. ASSUME NEW h \in Handlers, AcceptPart(h) PROVE Story'
  BY <1>36 DEF AcceptPart, Receiving, Writable
<1>37. ASSUME NEW h \in Handlers, SettlePart(h) PROVE Story'
  BY <1>37 DEF SettlePart
<1>38. ASSUME NEW h \in Handlers, HandlerDies(h) PROVE Story'
  BY <1>38 DEF HandlerDies
<1>39. ASSUME NEW x \in Execs, BeginCompletion(x) PROVE Story'
  BY <1>39 DEF BeginCompletion
<1>40. ASSUME NEW x \in Execs, LookAssembly(x) PROVE Story'
  BY <1>40 DEF LookAssembly
<1>41. ASSUME NEW x \in Execs, RecordObject(x) PROVE Story'
  <2>1. asm'.state = asm.state /\ asm'.token = asm.token
    BY <1>41 DEF RecordObject
  <2>2. UNCHANGED <<media, tr, part>>
    BY <1>41 DEF RecordObject
  <2> QED
    BY <2>1, <2>2
<1>42. ASSUME NEW x \in Execs, RecordHash(x) PROVE Story'
  BY <1>42 DEF RecordHash
<1>43. ASSUME NEW x \in Execs, Inspect(x) PROVE Story'
  BY <1>43 DEF Inspect
<1>44. ASSUME NEW x \in Execs, ClaimFinal(x) PROVE Story'
  BY <1>44 DEF ClaimFinal
<1>45. ASSUME NEW x \in Execs, PutFinal(x) PROVE Story'
  BY <1>45 DEF PutFinal
<1>46. ASSUME NEW x \in Execs, VerifyFinal(x) PROVE Story'
  BY <1>46 DEF VerifyFinal
<1>47. ASSUME NEW x \in Execs, CommitFinal(x) PROVE Story'
  BY <1>47 DEF CommitFinal, Writable, ClaimHeld
<1>48. ASSUME NEW x \in Execs, FailCompletion(x) PROVE Story'
  BY <1>48 DEF FailCompletion, Live, Holds, Writable, Fence, Suppressed
<1>49. ASSUME NEW x \in Execs, ReleaseRejected(x) PROVE Story'
  BY <1>49 DEF ReleaseRejected, Fence, Suppressed
<1>50. ASSUME NEW x \in Execs, SettleCompletion(x) PROVE Story'
  BY <1>50 DEF SettleCompletion
<1>51. ASSUME NEW x \in Execs, Interrupted(x) PROVE Story'
  BY <1>51 DEF Interrupted
<1>52. ASSUME NEW x \in Execs, ExecDies(x) PROVE Story'
  BY <1>52 DEF ExecDies
<1> QED
  BY <1>1, <1>2, <1>3, <1>4, <1>5, <1>6, <1>7, <1>8, <1>9, <1>10, <1>11, <1>12, <1>13,
     <1>14, <1>15, <1>16, <1>17, <1>18, <1>19, <1>20, <1>21, <1>22, <1>23, <1>24, <1>25,
     <1>26, <1>27, <1>28, <1>29, <1>30, <1>31, <1>32, <1>33, <1>34, <1>35, <1>36, <1>37,
     <1>38, <1>39, <1>40, <1>41, <1>42, <1>43, <1>44, <1>45, <1>46, <1>47, <1>48, <1>49,
     <1>50, <1>51, <1>52
     DEF Next, TransferStep, ExecStep, CleanupStep

-----------------------------------------------------------------------------
(* A part gets the bytes its first claim pinned.                           *)

LEMMA ClaimablePinned ==
    ASSUME NEW p, NEW c, Claimable(p, c)
    PROVE  part[p].state = "none" \/ (part[p].sha = c /\ part[p].settled)
BY DEF Claimable

LEMMA PartsNext == IInv /\ [Next]_vars => PartsWritten'
<1> SUFFICES ASSUME IInv, [Next]_vars PROVE PartsWritten'
  OBVIOUS
<1>t. part \in [Parts -> Part] /\ handler \in [Handlers -> Putting]
      /\ uploaded \in [Parts -> Bytes]
  BY DEF IInv, TypeOK, Putting, Photo
<1>s. PartsWritten /\ \A p \in Parts : part[p].state = "none" <=> part[p].sha = NoBytes
  BY DEF IInv, Story, RowsTogether
<1> USE <1>t, <1>s, ContentsAssumption, TokensAssumption DEF PartsWritten, Writer, Part,
    Putting, Bytes,
    At, Leaves, IdleHandler, rows, rowsBut, storage, workers, others
<1>1. CASE UNCHANGED vars
  BY <1>1 DEF vars
<1>2. CASE Initiate
  BY <1>2 DEF Initiate, NoTransfer
<1>3. CASE ClaimCompletion
  BY <1>3 DEF ClaimCompletion, Receiving
<1>4. CASE Abort
  BY <1>4 DEF Abort, Fence, Suppressed
<1>5. CASE MediaGone
  BY <1>5 DEF MediaGone, Fence, Suppressed
<1>6. CASE EventGone
  BY <1>6 DEF EventGone, Fence, Suppressed
<1>7. CASE FenceIfUnwritable
  BY <1>7 DEF FenceIfUnwritable, Fence, Suppressed, Writable
<1>8. CASE FailTerminal
  BY <1>8 DEF FailTerminal, Fence, Suppressed
<1>9. CASE Toggle
  BY <1>9 DEF Toggle
<1>10. CASE DeadlinePasses
  BY <1>10 DEF DeadlinePasses
<1>11. CASE CreateLands
  BY <1>11 DEF CreateLands
<1>12. CASE Dispatch
  BY <1>12 DEF Dispatch, MaySettle
<1>13. CASE Restart
  BY <1>13 DEF Restart
<1>14. CASE InstanceEnds
  BY <1>14 DEF InstanceEnds
<1>15. CASE LeaseLapses
  BY <1>15 DEF LeaseLapses
<1>16. CASE CompleteLands
  BY <1>16 DEF CompleteLands
<1>17. CASE CompleteFails
  BY <1>17 DEF CompleteFails
<1>18. CASE PutLands
  BY <1>18 DEF PutLands
<1>19. CASE PutFails
  BY <1>19 DEF PutFails
<1>20. CASE RetireCompleted
  BY <1>20 DEF RetireCompleted
<1>21. CASE RetireUnclaimed
  BY <1>21 DEF RetireUnclaimed
<1>22. CASE AbortMultipart
  BY <1>22 DEF AbortMultipart, Retiring
<1>23. CASE MarkClosed
  BY <1>23 DEF MarkClosed
<1>24. CASE SettleByPlatform
  BY <1>24 DEF SettleByPlatform
<1>25. CASE DeleteAssembly
  BY <1>25 DEF DeleteAssembly, Retiring
<1>26. CASE MarkAbsent
  BY <1>26 DEF MarkAbsent, Retiring
<1>27. CASE PurgeInventory
  BY <1>27 DEF PurgeInventory, HasInventory, PartsSettled, NoTransfer, NoPart, NoAssembly
<1>28. ASSUME NEW p \in Parts, PartLeaseLapses(p) PROVE PartsWritten'
  BY <1>28 DEF PartLeaseLapses
<1>29. ASSUME NEW h \in Handlers, NEW p \in Parts, NEW c \in Contents, BeginPart(h, p, c)
       PROVE  PartsWritten'
  BY <1>29 DEF BeginPart, Receiving, Writable
<1>30. ASSUME NEW h \in Handlers, ClaimCreate(h) PROVE PartsWritten'
  BY <1>30 DEF ClaimCreate, Receiving, Writable
<1>31. ASSUME NEW h \in Handlers, CreateAnswered(h) PROVE PartsWritten'
  <2>1. PICK pc \in {"record", "unknown"} : handler' = [handler EXCEPT ![h].pc = pc]
    BY <1>31 DEF CreateAnswered
  <2>2. \A g \in Handlers :
           /\ handler'[g].p = handler[g].p /\ handler'[g].c = handler[g].c
           /\ handler'[g].pc = IF g = h THEN pc ELSE handler[g].pc
    BY <2>1
  <2>3. handler[h].pc = "creating" /\ UNCHANGED <<part, uploaded>>
    BY <1>31 DEF CreateAnswered
  <2> QED
    BY <2>2, <2>3
<1>32. ASSUME NEW h \in Handlers, RecordCreated(h) PROVE PartsWritten'
  BY <1>32 DEF RecordCreated
<1>33. ASSUME NEW h \in Handlers, SettleUnknownCreate(h) PROVE PartsWritten'
  BY <1>33 DEF SettleUnknownCreate
<1>34. ASSUME NEW h \in Handlers, ClaimPart(h) PROVE PartsWritten'
  <2> DEFINE p == handler[h].p
             c == handler[h].c
             claimed == [state |-> "writing", sha |-> c, token |-> h, lease |-> TRUE, settled |-> FALSE]
  <2>1. p \in Parts /\ c # NoBytes /\ handler[h].pc = "claim" /\ uploaded' = uploaded
    BY <1>34 DEF ClaimPart
  <2>2. CASE Receiving /\ Claimable(p, c)
    <3>1. part' = [part EXCEPT ![p] = claimed] /\ handler' = [handler EXCEPT ![h].pc = "upload"]
      BY <1>34, <2>2 DEF ClaimPart
    <3>2. \A g \in Handlers : /\ handler'[g].p = handler[g].p /\ handler'[g].c = handler[g].c
                              /\ handler'[g].pc = IF g = h THEN "upload" ELSE handler[g].pc
      BY <3>1
    <3>3. \A q \in Parts : part'[q] = IF q = p THEN claimed ELSE part[q]
      BY <2>1, <3>1
    <3>4. part[p].state = "none" \/ (part[p].sha = c /\ part[p].settled)
      BY <2>2, ClaimablePinned
    <3>5. \A g \in Handlers \ {h} : handler[g].pc \in {"upload", "accept"} => handler[g].p # p
      BY <3>4
    <3>6. \A g \in Handlers :
             /\ handler'[g].pc # "idle" => handler'[g].c # NoBytes
             /\ handler'[g].pc \in {"upload", "accept"} => Writer(g)'
             /\ handler'[g].pc = "accept" => uploaded'[handler'[g].p] = handler'[g].c
      BY <2>1, <3>2, <3>3, <3>5
    <3> QED
      BY <2>1, <3>3, <3>6
  <2>3. CASE ~(Receiving /\ Claimable(p, c))
    <3>1. UNCHANGED part /\ handler' = [handler EXCEPT ![h] = IdleHandler]
      BY <1>34, <2>3 DEF ClaimPart
    <3> QED
      BY <2>1, <3>1
  <2> QED
    BY <2>2, <2>3
<1>35. ASSUME NEW h \in Handlers, UploadPart(h) PROVE PartsWritten'
  BY <1>35 DEF UploadPart
<1>36. ASSUME NEW h \in Handlers, AcceptPart(h) PROVE PartsWritten'
  <2>1. \A g \in Handlers :
           /\ handler'[g].p = handler[g].p /\ handler'[g].c = handler[g].c
           /\ handler'[g].pc = IF g = h THEN "settle" ELSE handler[g].pc
    BY <1>36 DEF AcceptPart
  <2>2. handler[h].pc = "accept" /\ handler[h].p \in Parts /\ uploaded' = uploaded
    BY <1>36 DEF AcceptPart
  <2>3. \A p \in Parts :
           /\ part'[p].token = part[p].token /\ part'[p].sha = part[p].sha
           /\ (p = handler[h].p /\ part[p].token = h) \/ part'[p] = part[p]
           /\ part[p].state # "none" => part'[p].state # "none"
    BY <1>36, <2>2 DEF AcceptPart
  <2> QED
    BY <2>1, <2>2, <2>3
<1>37. ASSUME NEW h \in Handlers, SettlePart(h) PROVE PartsWritten'
  <2>1. \A g \in Handlers : g # h => handler'[g] = handler[g]
    BY <1>37 DEF SettlePart
  <2>2. handler'[h] = IdleHandler /\ handler[h].p \in Parts /\ uploaded' = uploaded
    BY <1>37 DEF SettlePart
  <2>3. \A p \in Parts :
           /\ part'[p].token = part[p].token /\ part'[p].sha = part[p].sha
           /\ part'[p].state = part[p].state
           /\ part[p].token # h => part'[p].settled = part[p].settled
    <3>1. part' \in {part, [part EXCEPT ![handler[h].p].settled = TRUE,
                                      ![handler[h].p].lease = FALSE]}
      BY <1>37 DEF SettlePart
    <3>2. part' # part => part[handler[h].p].token = h
      BY <1>37 DEF SettlePart
    <3> QED
      BY <2>2, <3>1, <3>2
  <2> QED
    BY <2>1, <2>2, <2>3
<1>38. ASSUME NEW h \in Handlers, HandlerDies(h) PROVE PartsWritten'
  BY <1>38 DEF HandlerDies
<1>39. ASSUME NEW x \in Execs, BeginCompletion(x) PROVE PartsWritten'
  BY <1>39 DEF BeginCompletion
<1>40. ASSUME NEW x \in Execs, LookAssembly(x) PROVE PartsWritten'
  BY <1>40 DEF LookAssembly
<1>41. ASSUME NEW x \in Execs, RecordObject(x) PROVE PartsWritten'
  BY <1>41 DEF RecordObject
<1>42. ASSUME NEW x \in Execs, RecordHash(x) PROVE PartsWritten'
  BY <1>42 DEF RecordHash
<1>43. ASSUME NEW x \in Execs, Inspect(x) PROVE PartsWritten'
  BY <1>43 DEF Inspect
<1>44. ASSUME NEW x \in Execs, ClaimFinal(x) PROVE PartsWritten'
  BY <1>44 DEF ClaimFinal
<1>45. ASSUME NEW x \in Execs, PutFinal(x) PROVE PartsWritten'
  BY <1>45 DEF PutFinal
<1>46. ASSUME NEW x \in Execs, VerifyFinal(x) PROVE PartsWritten'
  BY <1>46 DEF VerifyFinal
<1>47. ASSUME NEW x \in Execs, CommitFinal(x) PROVE PartsWritten'
  BY <1>47 DEF CommitFinal, Writable, ClaimHeld
<1>48. ASSUME NEW x \in Execs, FailCompletion(x) PROVE PartsWritten'
  BY <1>48 DEF FailCompletion, Live, Holds, Writable, Fence, Suppressed
<1>49. ASSUME NEW x \in Execs, ReleaseRejected(x) PROVE PartsWritten'
  BY <1>49 DEF ReleaseRejected, Fence, Suppressed
<1>50. ASSUME NEW x \in Execs, SettleCompletion(x) PROVE PartsWritten'
  BY <1>50 DEF SettleCompletion
<1>51. ASSUME NEW x \in Execs, Interrupted(x) PROVE PartsWritten'
  BY <1>51 DEF Interrupted
<1>52. ASSUME NEW x \in Execs, ExecDies(x) PROVE PartsWritten'
  BY <1>52 DEF ExecDies
<1> QED
  BY <1>1, <1>2, <1>3, <1>4, <1>5, <1>6, <1>7, <1>8, <1>9, <1>10, <1>11, <1>12, <1>13,
     <1>14, <1>15, <1>16, <1>17, <1>18, <1>19, <1>20, <1>21, <1>22, <1>23, <1>24, <1>25,
     <1>26, <1>27, <1>28, <1>29, <1>30, <1>31, <1>32, <1>33, <1>34, <1>35, <1>36, <1>37,
     <1>38, <1>39, <1>40, <1>41, <1>42, <1>43, <1>44, <1>45, <1>46, <1>47, <1>48, <1>49,
     <1>50, <1>51, <1>52
     DEF Next, TransferStep, ExecStep, CleanupStep

-----------------------------------------------------------------------------
(* What R2 holds.                                                          *)

LEMMA NothingToRecord ==
    ASSUME handler \in [Handlers -> Putting], NEW h \in Handlers
    PROVE  /\ \A pc \in {"create", "creating", "unknown", "claim", "upload", "accept", "settle"} :
               At(h, pc) => \A g \in Handlers : handler'[g].pc = "record" => handler[g].pc = "record"
           /\ Leaves(h) => \A g \in Handlers : handler'[g].pc = "record" => handler[g].pc = "record"
BY DEF At, Leaves, IdleHandler, Putting

LEMMA ClaimedNext == IInv /\ [Next]_vars => Claimed'
<1> SUFFICES ASSUME IInv, [Next]_vars PROVE Claimed'
  OBVIOUS
<1>t. tr \in Transfer /\ asm \in Assembly /\ handler \in [Handlers -> Putting]
      /\ media \in {"reserved", "stored", "failed", "deleted"}
  BY DEF IInv, TypeOK, Putting
<1>s. Claimed /\ Story
  BY DEF IInv, Stock
<1> USE <1>t, <1>s, TokensAssumption DEF Claimed, Purged, Story, OutcomesAgree,
    ClaimsAgree, Transfer, Assembly, Active, Terminal,
    rows, rowsBut, storage, workers, others
<1>1. CASE UNCHANGED vars
  BY <1>1 DEF vars
<1>2. CASE Initiate
  BY <1>2 DEF Initiate, NoTransfer
<1>3. CASE ClaimCompletion
  BY <1>3 DEF ClaimCompletion, Receiving
<1>4. CASE Abort
  BY <1>4 DEF Abort, Fence, Suppressed
<1>5. CASE MediaGone
  BY <1>5 DEF MediaGone, Fence, Suppressed
<1>6. CASE EventGone
  BY <1>6 DEF EventGone, Fence, Suppressed
<1>7. CASE FenceIfUnwritable
  BY <1>7 DEF FenceIfUnwritable, Fence, Suppressed, Writable
<1>8. CASE FailTerminal
  BY <1>8 DEF FailTerminal, Fence, Suppressed
<1>9. CASE Toggle
  BY <1>9 DEF Toggle
<1>10. CASE DeadlinePasses
  BY <1>10 DEF DeadlinePasses
<1>11. CASE CreateLands
  BY <1>11 DEF CreateLands
<1>12. CASE Dispatch
  BY <1>12 DEF Dispatch, MaySettle
<1>13. CASE Restart
  BY <1>13 DEF Restart
<1>14. CASE InstanceEnds
  BY <1>14 DEF InstanceEnds
<1>15. CASE LeaseLapses
  BY <1>15 DEF LeaseLapses
<1>16. CASE CompleteLands
  BY <1>16 DEF CompleteLands
<1>17. CASE CompleteFails
  BY <1>17 DEF CompleteFails
<1>18. CASE PutLands
  BY <1>18 DEF PutLands
<1>19. CASE PutFails
  BY <1>19 DEF PutFails
<1>20. CASE RetireCompleted
  BY <1>20 DEF RetireCompleted
<1>21. CASE RetireUnclaimed
  BY <1>21 DEF RetireUnclaimed
<1>22. CASE AbortMultipart
  BY <1>22 DEF AbortMultipart, Retiring
<1>23. CASE MarkClosed
  BY <1>23 DEF MarkClosed
<1>24. CASE SettleByPlatform
  BY <1>24 DEF SettleByPlatform
<1>25. CASE DeleteAssembly
  BY <1>25 DEF DeleteAssembly, Retiring
<1>26. CASE MarkAbsent
  BY <1>26 DEF MarkAbsent, Retiring
<1>27. CASE PurgeInventory
  BY <1>27 DEF PurgeInventory, HasInventory, PartsSettled, NoTransfer, NoPart, NoAssembly
<1>28. ASSUME NEW p \in Parts, PartLeaseLapses(p) PROVE Claimed'
  BY <1>28 DEF PartLeaseLapses
<1>29. ASSUME NEW h \in Handlers, NEW p \in Parts, NEW c \in Contents, BeginPart(h, p, c)
       PROVE  Claimed'
  BY <1>29 DEF BeginPart, Receiving, Writable
<1>30. ASSUME NEW h \in Handlers, ClaimCreate(h) PROVE Claimed'
  <2>1. At(h, "creating") \/ Leaves(h)
    BY <1>30 DEF ClaimCreate
  <2>2. \A g \in Handlers : handler'[g].pc = "record" => handler[g].pc = "record"
    BY <2>1, NothingToRecord
  <2>3. UNCHANGED <<tr, media>> /\ (UNCHANGED <<asm, multipart>> \/ asm'.token = h)
    BY <1>30 DEF ClaimCreate
  <2> QED
    BY <2>2, <2>3
<1>31. ASSUME NEW h \in Handlers, CreateAnswered(h) PROVE Claimed'
  <2>1. UNCHANGED <<tr, media, asm, multipart>>
    BY <1>31 DEF CreateAnswered
  <2>2. CASE multipart = "open"
    BY <2>1, <2>2
  <2>3. CASE multipart # "open"
    <3>1. At(h, "unknown")
      BY <1>31, <2>3 DEF CreateAnswered
    <3>2. \A g \in Handlers : handler'[g].pc = "record" => handler[g].pc = "record"
      BY <3>1, NothingToRecord
    <3> QED
      BY <2>1, <3>2
  <2> QED
    BY <2>2, <2>3
<1>32. ASSUME NEW h \in Handlers, RecordCreated(h) PROVE Claimed'
  BY <1>32 DEF RecordCreated
<1>33. ASSUME NEW h \in Handlers, SettleUnknownCreate(h) PROVE Claimed'
  <2>1. Leaves(h)
    BY <1>33 DEF SettleUnknownCreate
  <2>2. \A g \in Handlers : handler'[g].pc = "record" => handler[g].pc = "record"
    BY <2>1, NothingToRecord
  <2>3. UNCHANGED <<tr, media>> /\ asm'.id = asm.id /\ asm'.token = asm.token /\ multipart' = multipart
    BY <1>33 DEF SettleUnknownCreate
  <2> QED
    BY <2>2, <2>3
<1>34. ASSUME NEW h \in Handlers, ClaimPart(h) PROVE Claimed'
  <2>1. At(h, "upload") \/ Leaves(h)
    BY <1>34 DEF ClaimPart
  <2>2. \A g \in Handlers : handler'[g].pc = "record" => handler[g].pc = "record"
    BY <2>1, NothingToRecord
  <2>3. UNCHANGED <<tr, media>> /\ UNCHANGED <<asm, multipart>>
    BY <1>34 DEF ClaimPart
  <2> QED
    BY <2>2, <2>3
<1>35. ASSUME NEW h \in Handlers, UploadPart(h) PROVE Claimed'
  <2>1. At(h, "accept") \/ At(h, "settle")
    BY <1>35 DEF UploadPart
  <2>2. \A g \in Handlers : handler'[g].pc = "record" => handler[g].pc = "record"
    BY <2>1, NothingToRecord
  <2>3. UNCHANGED <<tr, media>> /\ UNCHANGED <<asm, multipart>>
    BY <1>35 DEF UploadPart
  <2> QED
    BY <2>2, <2>3
<1>36. ASSUME NEW h \in Handlers, AcceptPart(h) PROVE Claimed'
  <2>1. At(h, "settle")
    BY <1>36 DEF AcceptPart
  <2>2. \A g \in Handlers : handler'[g].pc = "record" => handler[g].pc = "record"
    BY <2>1, NothingToRecord
  <2>3. UNCHANGED <<tr, media>> /\ UNCHANGED <<asm, multipart>>
    BY <1>36 DEF AcceptPart
  <2> QED
    BY <2>2, <2>3
<1>37. ASSUME NEW h \in Handlers, SettlePart(h) PROVE Claimed'
  <2>1. Leaves(h)
    BY <1>37 DEF SettlePart
  <2>2. \A g \in Handlers : handler'[g].pc = "record" => handler[g].pc = "record"
    BY <2>1, NothingToRecord
  <2>3. UNCHANGED <<tr, media>> /\ UNCHANGED <<asm, multipart>>
    BY <1>37 DEF SettlePart
  <2> QED
    BY <2>2, <2>3
<1>38. ASSUME NEW h \in Handlers, HandlerDies(h) PROVE Claimed'
  <2>1. Leaves(h)
    BY <1>38 DEF HandlerDies
  <2>2. \A g \in Handlers : handler'[g].pc = "record" => handler[g].pc = "record"
    BY <2>1, NothingToRecord
  <2>3. UNCHANGED <<tr, media>> /\ UNCHANGED <<asm, multipart>>
    BY <1>38 DEF HandlerDies
  <2> QED
    BY <2>2, <2>3
<1>39. ASSUME NEW x \in Execs, BeginCompletion(x) PROVE Claimed'
  BY <1>39 DEF BeginCompletion
<1>40. ASSUME NEW x \in Execs, LookAssembly(x) PROVE Claimed'
  BY <1>40 DEF LookAssembly
<1>41. ASSUME NEW x \in Execs, RecordObject(x) PROVE Claimed'
  BY <1>41 DEF RecordObject
<1>42. ASSUME NEW x \in Execs, RecordHash(x) PROVE Claimed'
  BY <1>42 DEF RecordHash
<1>43. ASSUME NEW x \in Execs, Inspect(x) PROVE Claimed'
  BY <1>43 DEF Inspect
<1>44. ASSUME NEW x \in Execs, ClaimFinal(x) PROVE Claimed'
  BY <1>44 DEF ClaimFinal
<1>45. ASSUME NEW x \in Execs, PutFinal(x) PROVE Claimed'
  BY <1>45 DEF PutFinal
<1>46. ASSUME NEW x \in Execs, VerifyFinal(x) PROVE Claimed'
  BY <1>46 DEF VerifyFinal
<1>47. ASSUME NEW x \in Execs, CommitFinal(x) PROVE Claimed'
  BY <1>47 DEF CommitFinal, Writable, ClaimHeld
<1>48. ASSUME NEW x \in Execs, FailCompletion(x) PROVE Claimed'
  BY <1>48 DEF FailCompletion, Live, Holds, Writable, Fence, Suppressed
<1>49. ASSUME NEW x \in Execs, ReleaseRejected(x) PROVE Claimed'
  BY <1>49 DEF ReleaseRejected, Fence, Suppressed
<1>50. ASSUME NEW x \in Execs, SettleCompletion(x) PROVE Claimed'
  BY <1>50 DEF SettleCompletion
<1>51. ASSUME NEW x \in Execs, Interrupted(x) PROVE Claimed'
  BY <1>51 DEF Interrupted
<1>52. ASSUME NEW x \in Execs, ExecDies(x) PROVE Claimed'
  BY <1>52 DEF ExecDies
<1> QED
  BY <1>1, <1>2, <1>3, <1>4, <1>5, <1>6, <1>7, <1>8, <1>9, <1>10, <1>11, <1>12, <1>13,
     <1>14, <1>15, <1>16, <1>17, <1>18, <1>19, <1>20, <1>21, <1>22, <1>23, <1>24, <1>25,
     <1>26, <1>27, <1>28, <1>29, <1>30, <1>31, <1>32, <1>33, <1>34, <1>35, <1>36, <1>37,
     <1>38, <1>39, <1>40, <1>41, <1>42, <1>43, <1>44, <1>45, <1>46, <1>47, <1>48, <1>49,
     <1>50, <1>51, <1>52
     DEF Next, TransferStep, ExecStep, CleanupStep

LEMMA CopiesAgreeNext == IInv /\ [Next]_vars => CopiesAgree'
<1> SUFFICES ASSUME IInv, [Next]_vars PROVE CopiesAgree'
  OBVIOUS
<1>t. asm \in Assembly /\ uploaded \in Photo /\ object \in [{"assembly", "final"} -> Photo]
      /\ calls \in [complete: BOOLEAN, put: Photo] /\ Nothing \in Photo
  BY Bare DEF IInv, TypeOK
<1>s. CopiesAgree /\ Claimed /\ Story
  BY DEF IInv, Stock
<1> USE <1>t, <1>s, TokensAssumption DEF CopiesAgree, Copy, Claimed, Purged,
    RowsTogether, Story, Assembly, Active, Terminal,
    rows, rowsBut, storage, workers, others
<1>1. CASE UNCHANGED vars
  BY <1>1 DEF vars
<1>2. CASE Initiate
  BY <1>2 DEF Initiate, NoTransfer
<1>3. CASE ClaimCompletion
  BY <1>3 DEF ClaimCompletion, Receiving
<1>4. CASE Abort
  BY <1>4 DEF Abort, Fence, Suppressed
<1>5. CASE MediaGone
  BY <1>5 DEF MediaGone, Fence, Suppressed
<1>6. CASE EventGone
  BY <1>6 DEF EventGone, Fence, Suppressed
<1>7. CASE FenceIfUnwritable
  BY <1>7 DEF FenceIfUnwritable, Fence, Suppressed, Writable
<1>8. CASE FailTerminal
  BY <1>8 DEF FailTerminal, Fence, Suppressed
<1>9. CASE Toggle
  BY <1>9 DEF Toggle
<1>10. CASE DeadlinePasses
  BY <1>10 DEF DeadlinePasses
<1>11. CASE CreateLands
  BY <1>11 DEF CreateLands
<1>12. CASE Dispatch
  BY <1>12 DEF Dispatch, MaySettle
<1>13. CASE Restart
  BY <1>13 DEF Restart
<1>14. CASE InstanceEnds
  BY <1>14 DEF InstanceEnds
<1>15. CASE LeaseLapses
  BY <1>15 DEF LeaseLapses
<1>16. CASE CompleteLands
  BY <1>16 DEF CompleteLands
<1>17. CASE CompleteFails
  BY <1>17 DEF CompleteFails
<1>18. CASE PutLands
  BY <1>18 DEF PutLands
<1>19. CASE PutFails
  BY <1>19 DEF PutFails
<1>20. CASE RetireCompleted
  BY <1>20 DEF RetireCompleted
<1>21. CASE RetireUnclaimed
  BY <1>21 DEF RetireUnclaimed
<1>22. CASE AbortMultipart
  BY <1>22 DEF AbortMultipart, Retiring
<1>23. CASE MarkClosed
  BY <1>23 DEF MarkClosed
<1>24. CASE SettleByPlatform
  BY <1>24 DEF SettleByPlatform
<1>25. CASE DeleteAssembly
  BY <1>25 DEF DeleteAssembly, Retiring
<1>26. CASE MarkAbsent
  BY <1>26 DEF MarkAbsent, Retiring
<1>27. CASE PurgeInventory
  BY <1>27 DEF PurgeInventory, HasInventory, PartsSettled, NoTransfer, NoPart, NoAssembly
<1>28. ASSUME NEW p \in Parts, PartLeaseLapses(p) PROVE CopiesAgree'
  BY <1>28 DEF PartLeaseLapses
<1>29. ASSUME NEW h \in Handlers, NEW p \in Parts, NEW c \in Contents, BeginPart(h, p, c)
       PROVE  CopiesAgree'
  BY <1>29 DEF BeginPart, Receiving, Writable
<1>30. ASSUME NEW h \in Handlers, ClaimCreate(h) PROVE CopiesAgree'
  BY <1>30 DEF ClaimCreate, Receiving, Writable
<1>31. ASSUME NEW h \in Handlers, CreateAnswered(h) PROVE CopiesAgree'
  BY <1>31 DEF CreateAnswered
<1>32. ASSUME NEW h \in Handlers, RecordCreated(h) PROVE CopiesAgree'
  BY <1>32 DEF RecordCreated
<1>33. ASSUME NEW h \in Handlers, SettleUnknownCreate(h) PROVE CopiesAgree'
  BY <1>33 DEF SettleUnknownCreate
<1>34. ASSUME NEW h \in Handlers, ClaimPart(h) PROVE CopiesAgree'
  BY <1>34 DEF ClaimPart, Receiving, Writable, Claimable
<1>35. ASSUME NEW h \in Handlers, UploadPart(h) PROVE CopiesAgree'
  BY <1>35 DEF UploadPart
<1>36. ASSUME NEW h \in Handlers, AcceptPart(h) PROVE CopiesAgree'
  BY <1>36 DEF AcceptPart, Receiving, Writable
<1>37. ASSUME NEW h \in Handlers, SettlePart(h) PROVE CopiesAgree'
  BY <1>37 DEF SettlePart
<1>38. ASSUME NEW h \in Handlers, HandlerDies(h) PROVE CopiesAgree'
  BY <1>38 DEF HandlerDies
<1>39. ASSUME NEW x \in Execs, BeginCompletion(x) PROVE CopiesAgree'
  BY <1>39 DEF BeginCompletion
<1>40. ASSUME NEW x \in Execs, LookAssembly(x) PROVE CopiesAgree'
  BY <1>40 DEF LookAssembly
<1>41. ASSUME NEW x \in Execs, RecordObject(x) PROVE CopiesAgree'
  BY <1>41 DEF RecordObject
<1>42. ASSUME NEW x \in Execs, RecordHash(x) PROVE CopiesAgree'
  BY <1>42 DEF RecordHash
<1>43. ASSUME NEW x \in Execs, Inspect(x) PROVE CopiesAgree'
  BY <1>43 DEF Inspect
<1>44. ASSUME NEW x \in Execs, ClaimFinal(x) PROVE CopiesAgree'
  BY <1>44 DEF ClaimFinal
<1>45. ASSUME NEW x \in Execs, PutFinal(x) PROVE CopiesAgree'
  BY <1>45 DEF PutFinal
<1>46. ASSUME NEW x \in Execs, VerifyFinal(x) PROVE CopiesAgree'
  BY <1>46 DEF VerifyFinal
<1>47. ASSUME NEW x \in Execs, CommitFinal(x) PROVE CopiesAgree'
  BY <1>47 DEF CommitFinal, Writable, ClaimHeld
<1>48. ASSUME NEW x \in Execs, FailCompletion(x) PROVE CopiesAgree'
  BY <1>48 DEF FailCompletion, Live, Holds, Writable, Fence, Suppressed
<1>49. ASSUME NEW x \in Execs, ReleaseRejected(x) PROVE CopiesAgree'
  BY <1>49 DEF ReleaseRejected, Fence, Suppressed
<1>50. ASSUME NEW x \in Execs, SettleCompletion(x) PROVE CopiesAgree'
  BY <1>50 DEF SettleCompletion
<1>51. ASSUME NEW x \in Execs, Interrupted(x) PROVE CopiesAgree'
  BY <1>51 DEF Interrupted
<1>52. ASSUME NEW x \in Execs, ExecDies(x) PROVE CopiesAgree'
  BY <1>52 DEF ExecDies
<1> QED
  BY <1>1, <1>2, <1>3, <1>4, <1>5, <1>6, <1>7, <1>8, <1>9, <1>10, <1>11, <1>12, <1>13,
     <1>14, <1>15, <1>16, <1>17, <1>18, <1>19, <1>20, <1>21, <1>22, <1>23, <1>24, <1>25,
     <1>26, <1>27, <1>28, <1>29, <1>30, <1>31, <1>32, <1>33, <1>34, <1>35, <1>36, <1>37,
     <1>38, <1>39, <1>40, <1>41, <1>42, <1>43, <1>44, <1>45, <1>46, <1>47, <1>48, <1>49,
     <1>50, <1>51, <1>52
     DEF Next, TransferStep, ExecStep, CleanupStep

LEMMA FinalSeenNext == IInv /\ [Next]_vars => FinalSeen'
<1> SUFFICES ASSUME IInv, [Next]_vars PROVE FinalSeen'
  OBVIOUS
<1>t. tr \in Transfer /\ exec \in [Execs -> Executing]
      /\ object \in [{"assembly", "final"} -> Photo]
      /\ media \in {"reserved", "stored", "failed", "deleted"}
  BY DEF IInv, TypeOK, Executing
<1>s. FinalSeen /\ Story
  BY DEF IInv, Stock
<1> USE <1>t, <1>s DEF FinalSeen, Story, OutcomesAgree, Transfer, Executing, Active,
    Terminal,
    To, Else, rows, rowsBut, storage, workers, others
<1>1. CASE UNCHANGED vars
  BY <1>1 DEF vars
<1>2. CASE Initiate
  BY <1>2 DEF Initiate, NoTransfer
<1>3. CASE ClaimCompletion
  BY <1>3 DEF ClaimCompletion, Receiving
<1>4. CASE Abort
  BY <1>4 DEF Abort, Fence, Suppressed
<1>5. CASE MediaGone
  BY <1>5 DEF MediaGone, Fence, Suppressed
<1>6. CASE EventGone
  BY <1>6 DEF EventGone, Fence, Suppressed
<1>7. CASE FenceIfUnwritable
  BY <1>7 DEF FenceIfUnwritable, Fence, Suppressed, Writable
<1>8. CASE FailTerminal
  BY <1>8 DEF FailTerminal, Fence, Suppressed
<1>9. CASE Toggle
  BY <1>9 DEF Toggle
<1>10. CASE DeadlinePasses
  BY <1>10 DEF DeadlinePasses
<1>11. CASE CreateLands
  BY <1>11 DEF CreateLands
<1>12. CASE Dispatch
  BY <1>12 DEF Dispatch, MaySettle
<1>13. CASE Restart
  BY <1>13 DEF Restart
<1>14. CASE InstanceEnds
  BY <1>14 DEF InstanceEnds
<1>15. CASE LeaseLapses
  BY <1>15 DEF LeaseLapses
<1>16. CASE CompleteLands
  BY <1>16 DEF CompleteLands
<1>17. CASE CompleteFails
  BY <1>17 DEF CompleteFails
<1>18. CASE PutLands
  BY <1>18 DEF PutLands
<1>19. CASE PutFails
  BY <1>19 DEF PutFails
<1>20. CASE RetireCompleted
  BY <1>20 DEF RetireCompleted
<1>21. CASE RetireUnclaimed
  BY <1>21 DEF RetireUnclaimed
<1>22. CASE AbortMultipart
  BY <1>22 DEF AbortMultipart, Retiring
<1>23. CASE MarkClosed
  BY <1>23 DEF MarkClosed
<1>24. CASE SettleByPlatform
  BY <1>24 DEF SettleByPlatform
<1>25. CASE DeleteAssembly
  BY <1>25 DEF DeleteAssembly, Retiring
<1>26. CASE MarkAbsent
  BY <1>26 DEF MarkAbsent, Retiring
<1>27. CASE PurgeInventory
  BY <1>27 DEF PurgeInventory, HasInventory, PartsSettled, NoTransfer, NoPart, NoAssembly
<1>28. ASSUME NEW p \in Parts, PartLeaseLapses(p) PROVE FinalSeen'
  BY <1>28 DEF PartLeaseLapses
<1>29. ASSUME NEW h \in Handlers, NEW p \in Parts, NEW c \in Contents, BeginPart(h, p, c)
       PROVE  FinalSeen'
  BY <1>29 DEF BeginPart, Receiving, Writable
<1>30. ASSUME NEW h \in Handlers, ClaimCreate(h) PROVE FinalSeen'
  BY <1>30 DEF ClaimCreate, Receiving, Writable
<1>31. ASSUME NEW h \in Handlers, CreateAnswered(h) PROVE FinalSeen'
  BY <1>31 DEF CreateAnswered
<1>32. ASSUME NEW h \in Handlers, RecordCreated(h) PROVE FinalSeen'
  BY <1>32 DEF RecordCreated
<1>33. ASSUME NEW h \in Handlers, SettleUnknownCreate(h) PROVE FinalSeen'
  BY <1>33 DEF SettleUnknownCreate
<1>34. ASSUME NEW h \in Handlers, ClaimPart(h) PROVE FinalSeen'
  BY <1>34 DEF ClaimPart, Receiving, Writable, Claimable
<1>35. ASSUME NEW h \in Handlers, UploadPart(h) PROVE FinalSeen'
  BY <1>35 DEF UploadPart
<1>36. ASSUME NEW h \in Handlers, AcceptPart(h) PROVE FinalSeen'
  BY <1>36 DEF AcceptPart, Receiving, Writable
<1>37. ASSUME NEW h \in Handlers, SettlePart(h) PROVE FinalSeen'
  BY <1>37 DEF SettlePart
<1>38. ASSUME NEW h \in Handlers, HandlerDies(h) PROVE FinalSeen'
  BY <1>38 DEF HandlerDies
<1>39. ASSUME NEW x \in Execs, BeginCompletion(x) PROVE FinalSeen'
  BY <1>39 DEF BeginCompletion
<1>40. ASSUME NEW x \in Execs, LookAssembly(x) PROVE FinalSeen'
  BY <1>40 DEF LookAssembly
<1>41. ASSUME NEW x \in Execs, RecordObject(x) PROVE FinalSeen'
  BY <1>41 DEF RecordObject
<1>42. ASSUME NEW x \in Execs, RecordHash(x) PROVE FinalSeen'
  BY <1>42 DEF RecordHash
<1>43. ASSUME NEW x \in Execs, Inspect(x) PROVE FinalSeen'
  BY <1>43 DEF Inspect
<1>44. ASSUME NEW x \in Execs, ClaimFinal(x) PROVE FinalSeen'
  BY <1>44 DEF ClaimFinal
<1>45. ASSUME NEW x \in Execs, PutFinal(x) PROVE FinalSeen'
  BY <1>45 DEF PutFinal
<1>46. ASSUME NEW x \in Execs, VerifyFinal(x) PROVE FinalSeen'
  BY <1>46 DEF VerifyFinal
<1>47. ASSUME NEW x \in Execs, CommitFinal(x) PROVE FinalSeen'
  BY <1>47 DEF CommitFinal, Writable, ClaimHeld
<1>48. ASSUME NEW x \in Execs, FailCompletion(x) PROVE FinalSeen'
  BY <1>48 DEF FailCompletion, Live, Holds, Writable, Fence, Suppressed
<1>49. ASSUME NEW x \in Execs, ReleaseRejected(x) PROVE FinalSeen'
  BY <1>49 DEF ReleaseRejected, Fence, Suppressed
<1>50. ASSUME NEW x \in Execs, SettleCompletion(x) PROVE FinalSeen'
  BY <1>50 DEF SettleCompletion
<1>51. ASSUME NEW x \in Execs, Interrupted(x) PROVE FinalSeen'
  BY <1>51 DEF Interrupted
<1>52. ASSUME NEW x \in Execs, ExecDies(x) PROVE FinalSeen'
  BY <1>52 DEF ExecDies
<1> QED
  BY <1>1, <1>2, <1>3, <1>4, <1>5, <1>6, <1>7, <1>8, <1>9, <1>10, <1>11, <1>12, <1>13,
     <1>14, <1>15, <1>16, <1>17, <1>18, <1>19, <1>20, <1>21, <1>22, <1>23, <1>24, <1>25,
     <1>26, <1>27, <1>28, <1>29, <1>30, <1>31, <1>32, <1>33, <1>34, <1>35, <1>36, <1>37,
     <1>38, <1>39, <1>40, <1>41, <1>42, <1>43, <1>44, <1>45, <1>46, <1>47, <1>48, <1>49,
     <1>50, <1>51, <1>52
     DEF Next, TransferStep, ExecStep, CleanupStep

LEMMA ClosedGoneNext == IInv /\ [Next]_vars => ClosedGone'
<1> SUFFICES ASSUME IInv, [Next]_vars PROVE ClosedGone'
  OBVIOUS
<1>t. asm \in Assembly /\ object \in [{"assembly", "final"} -> Photo] /\ Nothing \in Photo
  BY Bare DEF IInv, TypeOK
<1>s. ClosedGone /\ CopiesAgree /\ Claimed /\ Story
  BY DEF IInv, Stock
<1> USE <1>t, <1>s, TokensAssumption DEF ClosedGone, CopiesAgree, Copy, Claimed, Purged,
    RowsTogether, Story, Assembly,
    Active, Terminal, rows, rowsBut, storage, workers, others
<1>1. CASE UNCHANGED vars
  BY <1>1 DEF vars
<1>2. CASE Initiate
  BY <1>2 DEF Initiate, NoTransfer
<1>3. CASE ClaimCompletion
  BY <1>3 DEF ClaimCompletion, Receiving
<1>4. CASE Abort
  BY <1>4 DEF Abort, Fence, Suppressed
<1>5. CASE MediaGone
  BY <1>5 DEF MediaGone, Fence, Suppressed
<1>6. CASE EventGone
  BY <1>6 DEF EventGone, Fence, Suppressed
<1>7. CASE FenceIfUnwritable
  BY <1>7 DEF FenceIfUnwritable, Fence, Suppressed, Writable
<1>8. CASE FailTerminal
  BY <1>8 DEF FailTerminal, Fence, Suppressed
<1>9. CASE Toggle
  BY <1>9 DEF Toggle
<1>10. CASE DeadlinePasses
  BY <1>10 DEF DeadlinePasses
<1>11. CASE CreateLands
  BY <1>11 DEF CreateLands
<1>12. CASE Dispatch
  BY <1>12 DEF Dispatch, MaySettle
<1>13. CASE Restart
  BY <1>13 DEF Restart
<1>14. CASE InstanceEnds
  BY <1>14 DEF InstanceEnds
<1>15. CASE LeaseLapses
  BY <1>15 DEF LeaseLapses
<1>16. CASE CompleteLands
  BY <1>16 DEF CompleteLands
<1>17. CASE CompleteFails
  BY <1>17 DEF CompleteFails
<1>18. CASE PutLands
  BY <1>18 DEF PutLands
<1>19. CASE PutFails
  BY <1>19 DEF PutFails
<1>20. CASE RetireCompleted
  BY <1>20 DEF RetireCompleted
<1>21. CASE RetireUnclaimed
  BY <1>21 DEF RetireUnclaimed
<1>22. CASE AbortMultipart
  BY <1>22 DEF AbortMultipart, Retiring
<1>23. CASE MarkClosed
  BY <1>23 DEF MarkClosed
<1>24. CASE SettleByPlatform
  BY <1>24 DEF SettleByPlatform
<1>25. CASE DeleteAssembly
  BY <1>25 DEF DeleteAssembly, Retiring
<1>26. CASE MarkAbsent
  BY <1>26 DEF MarkAbsent, Retiring
<1>27. CASE PurgeInventory
  BY <1>27 DEF PurgeInventory, HasInventory, PartsSettled, NoTransfer, NoPart, NoAssembly
<1>28. ASSUME NEW p \in Parts, PartLeaseLapses(p) PROVE ClosedGone'
  BY <1>28 DEF PartLeaseLapses
<1>29. ASSUME NEW h \in Handlers, NEW p \in Parts, NEW c \in Contents, BeginPart(h, p, c)
       PROVE  ClosedGone'
  BY <1>29 DEF BeginPart, Receiving, Writable
<1>30. ASSUME NEW h \in Handlers, ClaimCreate(h) PROVE ClosedGone'
  BY <1>30 DEF ClaimCreate, Receiving, Writable
<1>31. ASSUME NEW h \in Handlers, CreateAnswered(h) PROVE ClosedGone'
  BY <1>31 DEF CreateAnswered
<1>32. ASSUME NEW h \in Handlers, RecordCreated(h) PROVE ClosedGone'
  BY <1>32 DEF RecordCreated
<1>33. ASSUME NEW h \in Handlers, SettleUnknownCreate(h) PROVE ClosedGone'
  BY <1>33 DEF SettleUnknownCreate
<1>34. ASSUME NEW h \in Handlers, ClaimPart(h) PROVE ClosedGone'
  BY <1>34 DEF ClaimPart, Receiving, Writable, Claimable
<1>35. ASSUME NEW h \in Handlers, UploadPart(h) PROVE ClosedGone'
  BY <1>35 DEF UploadPart
<1>36. ASSUME NEW h \in Handlers, AcceptPart(h) PROVE ClosedGone'
  BY <1>36 DEF AcceptPart, Receiving, Writable
<1>37. ASSUME NEW h \in Handlers, SettlePart(h) PROVE ClosedGone'
  BY <1>37 DEF SettlePart
<1>38. ASSUME NEW h \in Handlers, HandlerDies(h) PROVE ClosedGone'
  BY <1>38 DEF HandlerDies
<1>39. ASSUME NEW x \in Execs, BeginCompletion(x) PROVE ClosedGone'
  BY <1>39 DEF BeginCompletion
<1>40. ASSUME NEW x \in Execs, LookAssembly(x) PROVE ClosedGone'
  BY <1>40 DEF LookAssembly
<1>41. ASSUME NEW x \in Execs, RecordObject(x) PROVE ClosedGone'
  BY <1>41 DEF RecordObject
<1>42. ASSUME NEW x \in Execs, RecordHash(x) PROVE ClosedGone'
  BY <1>42 DEF RecordHash
<1>43. ASSUME NEW x \in Execs, Inspect(x) PROVE ClosedGone'
  BY <1>43 DEF Inspect
<1>44. ASSUME NEW x \in Execs, ClaimFinal(x) PROVE ClosedGone'
  BY <1>44 DEF ClaimFinal
<1>45. ASSUME NEW x \in Execs, PutFinal(x) PROVE ClosedGone'
  BY <1>45 DEF PutFinal
<1>46. ASSUME NEW x \in Execs, VerifyFinal(x) PROVE ClosedGone'
  BY <1>46 DEF VerifyFinal
<1>47. ASSUME NEW x \in Execs, CommitFinal(x) PROVE ClosedGone'
  BY <1>47 DEF CommitFinal, Writable, ClaimHeld
<1>48. ASSUME NEW x \in Execs, FailCompletion(x) PROVE ClosedGone'
  BY <1>48 DEF FailCompletion, Live, Holds, Writable, Fence, Suppressed
<1>49. ASSUME NEW x \in Execs, ReleaseRejected(x) PROVE ClosedGone'
  BY <1>49 DEF ReleaseRejected, Fence, Suppressed
<1>50. ASSUME NEW x \in Execs, SettleCompletion(x) PROVE ClosedGone'
  BY <1>50 DEF SettleCompletion
<1>51. ASSUME NEW x \in Execs, Interrupted(x) PROVE ClosedGone'
  BY <1>51 DEF Interrupted
<1>52. ASSUME NEW x \in Execs, ExecDies(x) PROVE ClosedGone'
  BY <1>52 DEF ExecDies
<1> QED
  BY <1>1, <1>2, <1>3, <1>4, <1>5, <1>6, <1>7, <1>8, <1>9, <1>10, <1>11, <1>12, <1>13,
     <1>14, <1>15, <1>16, <1>17, <1>18, <1>19, <1>20, <1>21, <1>22, <1>23, <1>24, <1>25,
     <1>26, <1>27, <1>28, <1>29, <1>30, <1>31, <1>32, <1>33, <1>34, <1>35, <1>36, <1>37,
     <1>38, <1>39, <1>40, <1>41, <1>42, <1>43, <1>44, <1>45, <1>46, <1>47, <1>48, <1>49,
     <1>50, <1>51, <1>52
     DEF Next, TransferStep, ExecStep, CleanupStep

LEMMA AbsentNext == IInv /\ [Next]_vars => AbsentForGood'
<1> SUFFICES ASSUME IInv, [Next]_vars PROVE AbsentForGood'
  OBVIOUS
<1>t. asm \in Assembly /\ tr \in Transfer /\ object \in [{"assembly", "final"} -> Photo]
      /\ Nothing \in Photo
  BY Bare DEF IInv, TypeOK
<1>s. AbsentForGood /\ ClosedGone /\ CopiesAgree /\ Claimed /\ Story
  BY DEF IInv, Stock
<1> USE <1>t, <1>s, TokensAssumption DEF AbsentForGood, ClosedGone, CopiesAgree, Copy,
    Claimed, Purged, RowsTogether, Story, Assembly, Transfer,
    Active, Terminal, rows, rowsBut, storage, workers, others
<1>1. CASE UNCHANGED vars
  BY <1>1 DEF vars
<1>2. CASE Initiate
  BY <1>2 DEF Initiate, NoTransfer
<1>3. CASE ClaimCompletion
  BY <1>3 DEF ClaimCompletion, Receiving
<1>4. CASE Abort
  BY <1>4 DEF Abort, Fence, Suppressed
<1>5. CASE MediaGone
  BY <1>5 DEF MediaGone, Fence, Suppressed
<1>6. CASE EventGone
  BY <1>6 DEF EventGone, Fence, Suppressed
<1>7. CASE FenceIfUnwritable
  BY <1>7 DEF FenceIfUnwritable, Fence, Suppressed, Writable
<1>8. CASE FailTerminal
  BY <1>8 DEF FailTerminal, Fence, Suppressed
<1>9. CASE Toggle
  BY <1>9 DEF Toggle
<1>10. CASE DeadlinePasses
  BY <1>10 DEF DeadlinePasses
<1>11. CASE CreateLands
  BY <1>11 DEF CreateLands
<1>12. CASE Dispatch
  BY <1>12 DEF Dispatch, MaySettle
<1>13. CASE Restart
  BY <1>13 DEF Restart
<1>14. CASE InstanceEnds
  BY <1>14 DEF InstanceEnds
<1>15. CASE LeaseLapses
  BY <1>15 DEF LeaseLapses
<1>16. CASE CompleteLands
  BY <1>16 DEF CompleteLands
<1>17. CASE CompleteFails
  BY <1>17 DEF CompleteFails
<1>18. CASE PutLands
  BY <1>18 DEF PutLands
<1>19. CASE PutFails
  BY <1>19 DEF PutFails
<1>20. CASE RetireCompleted
  BY <1>20 DEF RetireCompleted
<1>21. CASE RetireUnclaimed
  BY <1>21 DEF RetireUnclaimed
<1>22. CASE AbortMultipart
  BY <1>22 DEF AbortMultipart, Retiring
<1>23. CASE MarkClosed
  BY <1>23 DEF MarkClosed
<1>24. CASE SettleByPlatform
  BY <1>24 DEF SettleByPlatform
<1>25. CASE DeleteAssembly
  BY <1>25 DEF DeleteAssembly, Retiring
<1>26. CASE MarkAbsent
  BY <1>26 DEF MarkAbsent, Retiring
<1>27. CASE PurgeInventory
  BY <1>27 DEF PurgeInventory, HasInventory, PartsSettled, NoTransfer, NoPart, NoAssembly
<1>28. ASSUME NEW p \in Parts, PartLeaseLapses(p) PROVE AbsentForGood'
  BY <1>28 DEF PartLeaseLapses
<1>29. ASSUME NEW h \in Handlers, NEW p \in Parts, NEW c \in Contents, BeginPart(h, p, c)
       PROVE  AbsentForGood'
  BY <1>29 DEF BeginPart, Receiving, Writable
<1>30. ASSUME NEW h \in Handlers, ClaimCreate(h) PROVE AbsentForGood'
  BY <1>30 DEF ClaimCreate, Receiving, Writable
<1>31. ASSUME NEW h \in Handlers, CreateAnswered(h) PROVE AbsentForGood'
  BY <1>31 DEF CreateAnswered
<1>32. ASSUME NEW h \in Handlers, RecordCreated(h) PROVE AbsentForGood'
  BY <1>32 DEF RecordCreated
<1>33. ASSUME NEW h \in Handlers, SettleUnknownCreate(h) PROVE AbsentForGood'
  BY <1>33 DEF SettleUnknownCreate
<1>34. ASSUME NEW h \in Handlers, ClaimPart(h) PROVE AbsentForGood'
  BY <1>34 DEF ClaimPart, Receiving, Writable, Claimable
<1>35. ASSUME NEW h \in Handlers, UploadPart(h) PROVE AbsentForGood'
  BY <1>35 DEF UploadPart
<1>36. ASSUME NEW h \in Handlers, AcceptPart(h) PROVE AbsentForGood'
  BY <1>36 DEF AcceptPart, Receiving, Writable
<1>37. ASSUME NEW h \in Handlers, SettlePart(h) PROVE AbsentForGood'
  BY <1>37 DEF SettlePart
<1>38. ASSUME NEW h \in Handlers, HandlerDies(h) PROVE AbsentForGood'
  BY <1>38 DEF HandlerDies
<1>39. ASSUME NEW x \in Execs, BeginCompletion(x) PROVE AbsentForGood'
  BY <1>39 DEF BeginCompletion
<1>40. ASSUME NEW x \in Execs, LookAssembly(x) PROVE AbsentForGood'
  BY <1>40 DEF LookAssembly
<1>41. ASSUME NEW x \in Execs, RecordObject(x) PROVE AbsentForGood'
  BY <1>41 DEF RecordObject
<1>42. ASSUME NEW x \in Execs, RecordHash(x) PROVE AbsentForGood'
  BY <1>42 DEF RecordHash
<1>43. ASSUME NEW x \in Execs, Inspect(x) PROVE AbsentForGood'
  BY <1>43 DEF Inspect
<1>44. ASSUME NEW x \in Execs, ClaimFinal(x) PROVE AbsentForGood'
  BY <1>44 DEF ClaimFinal
<1>45. ASSUME NEW x \in Execs, PutFinal(x) PROVE AbsentForGood'
  BY <1>45 DEF PutFinal
<1>46. ASSUME NEW x \in Execs, VerifyFinal(x) PROVE AbsentForGood'
  BY <1>46 DEF VerifyFinal
<1>47. ASSUME NEW x \in Execs, CommitFinal(x) PROVE AbsentForGood'
  BY <1>47 DEF CommitFinal, Writable, ClaimHeld
<1>48. ASSUME NEW x \in Execs, FailCompletion(x) PROVE AbsentForGood'
  BY <1>48 DEF FailCompletion, Live, Holds, Writable, Fence, Suppressed
<1>49. ASSUME NEW x \in Execs, ReleaseRejected(x) PROVE AbsentForGood'
  BY <1>49 DEF ReleaseRejected, Fence, Suppressed
<1>50. ASSUME NEW x \in Execs, SettleCompletion(x) PROVE AbsentForGood'
  BY <1>50 DEF SettleCompletion
<1>51. ASSUME NEW x \in Execs, Interrupted(x) PROVE AbsentForGood'
  BY <1>51 DEF Interrupted
<1>52. ASSUME NEW x \in Execs, ExecDies(x) PROVE AbsentForGood'
  BY <1>52 DEF ExecDies
<1> QED
  BY <1>1, <1>2, <1>3, <1>4, <1>5, <1>6, <1>7, <1>8, <1>9, <1>10, <1>11, <1>12, <1>13,
     <1>14, <1>15, <1>16, <1>17, <1>18, <1>19, <1>20, <1>21, <1>22, <1>23, <1>24, <1>25,
     <1>26, <1>27, <1>28, <1>29, <1>30, <1>31, <1>32, <1>33, <1>34, <1>35, <1>36, <1>37,
     <1>38, <1>39, <1>40, <1>41, <1>42, <1>43, <1>44, <1>45, <1>46, <1>47, <1>48, <1>49,
     <1>50, <1>51, <1>52
     DEF Next, TransferStep, ExecStep, CleanupStep

LEMMA SentFirstNext == IInv /\ [Next]_vars => SentFirst'
<1> SUFFICES ASSUME IInv, [Next]_vars PROVE SentFirst'
  OBVIOUS
<1>t. tr \in Transfer /\ part \in [Parts -> Part] /\ asm \in Assembly
      /\ handler \in [Handlers -> Putting]
      /\ media \in {"reserved", "stored", "failed", "deleted"} /\ uploaded \in [Parts -> Bytes]
      /\ object \in [{"assembly", "final"} -> Photo] /\ calls \in [complete: BOOLEAN, put: Photo]
  BY DEF IInv, TypeOK, Putting, Photo
<1>s. SentFirst /\ RowsTogether /\ PartsWritten
  BY DEF IInv, Stock, Story
<1> USE <1>t, <1>s, TokensAssumption DEF SentFirst, Sent, Purged, RowsTogether,
    PartsWritten, Writer, Transfer, Part, Assembly, Putting,
    Active, Terminal, rows, rowsBut, storage, workers, others
<1>1. CASE UNCHANGED vars
  BY <1>1 DEF vars
<1>2. CASE Initiate
  BY <1>2 DEF Initiate, NoTransfer
<1>3. CASE ClaimCompletion
  BY <1>3 DEF ClaimCompletion, Receiving
<1>4. CASE Abort
  BY <1>4 DEF Abort, Fence, Suppressed
<1>5. CASE MediaGone
  BY <1>5 DEF MediaGone, Fence, Suppressed
<1>6. CASE EventGone
  BY <1>6 DEF EventGone, Fence, Suppressed
<1>7. CASE FenceIfUnwritable
  BY <1>7 DEF FenceIfUnwritable, Fence, Suppressed, Writable
<1>8. CASE FailTerminal
  BY <1>8 DEF FailTerminal, Fence, Suppressed
<1>9. CASE Toggle
  BY <1>9 DEF Toggle
<1>10. CASE DeadlinePasses
  BY <1>10 DEF DeadlinePasses
<1>11. CASE CreateLands
  BY <1>11 DEF CreateLands
<1>12. CASE Dispatch
  BY <1>12 DEF Dispatch, MaySettle
<1>13. CASE Restart
  BY <1>13 DEF Restart
<1>14. CASE InstanceEnds
  BY <1>14 DEF InstanceEnds
<1>15. CASE LeaseLapses
  BY <1>15 DEF LeaseLapses
<1>16. CASE CompleteLands
  BY <1>16 DEF CompleteLands
<1>17. CASE CompleteFails
  BY <1>17 DEF CompleteFails
<1>18. CASE PutLands
  BY <1>18 DEF PutLands
<1>19. CASE PutFails
  BY <1>19 DEF PutFails
<1>20. CASE RetireCompleted
  BY <1>20 DEF RetireCompleted
<1>21. CASE RetireUnclaimed
  BY <1>21 DEF RetireUnclaimed
<1>22. CASE AbortMultipart
  BY <1>22 DEF AbortMultipart, Retiring
<1>23. CASE MarkClosed
  BY <1>23 DEF MarkClosed
<1>24. CASE SettleByPlatform
  BY <1>24 DEF SettleByPlatform
<1>25. CASE DeleteAssembly
  BY <1>25 DEF DeleteAssembly, Retiring
<1>26. CASE MarkAbsent
  BY <1>26 DEF MarkAbsent, Retiring
<1>27. CASE PurgeInventory
  BY <1>27 DEF PurgeInventory, HasInventory, PartsSettled, NoTransfer, NoPart, NoAssembly
<1>28. ASSUME NEW p \in Parts, PartLeaseLapses(p) PROVE SentFirst'
  BY <1>28 DEF PartLeaseLapses
<1>29. ASSUME NEW h \in Handlers, NEW p \in Parts, NEW c \in Contents, BeginPart(h, p, c)
       PROVE  SentFirst'
  BY <1>29 DEF BeginPart, Receiving, Writable
<1>30. ASSUME NEW h \in Handlers, ClaimCreate(h) PROVE SentFirst'
  BY <1>30 DEF ClaimCreate, Receiving, Writable
<1>31. ASSUME NEW h \in Handlers, CreateAnswered(h) PROVE SentFirst'
  BY <1>31 DEF CreateAnswered
<1>32. ASSUME NEW h \in Handlers, RecordCreated(h) PROVE SentFirst'
  BY <1>32 DEF RecordCreated
<1>33. ASSUME NEW h \in Handlers, SettleUnknownCreate(h) PROVE SentFirst'
  BY <1>33 DEF SettleUnknownCreate
<1>34. ASSUME NEW h \in Handlers, ClaimPart(h) PROVE SentFirst'
  BY <1>34 DEF ClaimPart, Receiving, Writable, Claimable
<1>35. ASSUME NEW h \in Handlers, UploadPart(h) PROVE SentFirst'
  BY <1>35 DEF UploadPart
<1>36. ASSUME NEW h \in Handlers, AcceptPart(h) PROVE SentFirst'
  <2>1. UNCHANGED <<tr, media, asm, uploaded, object, calls>>
    BY <1>36 DEF AcceptPart
  <2>2. \A p \in Parts : part'[p].sha = part[p].sha
    BY <1>36 DEF AcceptPart
  <2> QED
    BY <2>1, <2>2
<1>37. ASSUME NEW h \in Handlers, SettlePart(h) PROVE SentFirst'
  BY <1>37 DEF SettlePart
<1>38. ASSUME NEW h \in Handlers, HandlerDies(h) PROVE SentFirst'
  BY <1>38 DEF HandlerDies
<1>39. ASSUME NEW x \in Execs, BeginCompletion(x) PROVE SentFirst'
  BY <1>39 DEF BeginCompletion
<1>40. ASSUME NEW x \in Execs, LookAssembly(x) PROVE SentFirst'
  BY <1>40 DEF LookAssembly
<1>41. ASSUME NEW x \in Execs, RecordObject(x) PROVE SentFirst'
  BY <1>41 DEF RecordObject
<1>42. ASSUME NEW x \in Execs, RecordHash(x) PROVE SentFirst'
  BY <1>42 DEF RecordHash
<1>43. ASSUME NEW x \in Execs, Inspect(x) PROVE SentFirst'
  BY <1>43 DEF Inspect
<1>44. ASSUME NEW x \in Execs, ClaimFinal(x) PROVE SentFirst'
  BY <1>44 DEF ClaimFinal
<1>45. ASSUME NEW x \in Execs, PutFinal(x) PROVE SentFirst'
  BY <1>45 DEF PutFinal
<1>46. ASSUME NEW x \in Execs, VerifyFinal(x) PROVE SentFirst'
  BY <1>46 DEF VerifyFinal
<1>47. ASSUME NEW x \in Execs, CommitFinal(x) PROVE SentFirst'
  BY <1>47 DEF CommitFinal, Writable, ClaimHeld
<1>48. ASSUME NEW x \in Execs, FailCompletion(x) PROVE SentFirst'
  BY <1>48 DEF FailCompletion, Live, Holds, Writable, Fence, Suppressed
<1>49. ASSUME NEW x \in Execs, ReleaseRejected(x) PROVE SentFirst'
  BY <1>49 DEF ReleaseRejected, Fence, Suppressed
<1>50. ASSUME NEW x \in Execs, SettleCompletion(x) PROVE SentFirst'
  BY <1>50 DEF SettleCompletion
<1>51. ASSUME NEW x \in Execs, Interrupted(x) PROVE SentFirst'
  BY <1>51 DEF Interrupted
<1>52. ASSUME NEW x \in Execs, ExecDies(x) PROVE SentFirst'
  BY <1>52 DEF ExecDies
<1> QED
  BY <1>1, <1>2, <1>3, <1>4, <1>5, <1>6, <1>7, <1>8, <1>9, <1>10, <1>11, <1>12, <1>13,
     <1>14, <1>15, <1>16, <1>17, <1>18, <1>19, <1>20, <1>21, <1>22, <1>23, <1>24, <1>25,
     <1>26, <1>27, <1>28, <1>29, <1>30, <1>31, <1>32, <1>33, <1>34, <1>35, <1>36, <1>37,
     <1>38, <1>39, <1>40, <1>41, <1>42, <1>43, <1>44, <1>45, <1>46, <1>47, <1>48, <1>49,
     <1>50, <1>51, <1>52
     DEF Next, TransferStep, ExecStep, CleanupStep

-----------------------------------------------------------------------------
(* The theorems.                                                           *)

LEMMA InitIInv == Init => IInv
<1> SUFFICES ASSUME Init PROVE IInv
  OBVIOUS
<1> USE DEF Init, NoTransfer, NoPart, NoAssembly, IdleHandler
<1>1. TypeOK
  BY TypeInit
<1>2. Story
  BY DEF Story, OutcomesAgree, ClaimsAgree, FencedEnded, RowsTogether, Active
<1>3. PartsWritten
  BY DEF PartsWritten
<1>4. Stock
  BY DEF Stock, Claimed, CopiesAgree, Copy, SentFirst, FinalSeen, ClosedGone, AbsentForGood
<1> QED
  BY <1>1, <1>2, <1>3, <1>4 DEF IInv

LEMMA NextIInv == IInv /\ [Next]_vars => IInv'
<1> SUFFICES ASSUME IInv, [Next]_vars PROVE IInv'
  OBVIOUS
<1>1. TypeOK'
  BY TypeNext DEF IInv
<1>2. Story' /\ PartsWritten'
  BY StoryNext, PartsNext
<1>3. Claimed' /\ CopiesAgree' /\ SentFirst'
  BY ClaimedNext, CopiesAgreeNext, SentFirstNext
<1>4. FinalSeen' /\ ClosedGone' /\ AbsentForGood'
  BY FinalSeenNext, ClosedGoneNext, AbsentNext
<1> QED
  BY <1>1, <1>2, <1>3, <1>4 DEF IInv, Stock

LEMMA IInvDelivers == IInv => BytesAccounted
<1> SUFFICES ASSUME IInv PROVE DeliveredBytes /\ AbsentForGood
  BY DEF BytesAccounted
<1>1. ASSUME media = "stored", tr.state # "none"
      PROVE  /\ object["final"] = [p \in Parts |-> part[p].sha]
             /\ \A p \in Parts : part[p].sha # NoBytes
  <2>1. object["final"] # Nothing
    BY <1>1 DEF IInv, Stock, FinalSeen
  <2>2. Sent /\ object["final"] = uploaded
    BY <1>1, <2>1 DEF IInv, Stock, SentFirst, CopiesAgree, Copy, Purged
  <2>3. uploaded \in [Parts -> Bytes]
    BY DEF IInv, TypeOK, Photo
  <2> QED
    BY <2>2, <2>3 DEF Sent
<1> QED
  BY <1>1 DEF IInv, Stock, DeliveredBytes

LEMMA IInvHolds == Spec => []IInv
<1> QED
  BY InitIInv, NextIInv, PTL DEF Spec

\* Every row, object and worker stays what the tables and the code allow it to be
\* (media_upload_transfers, its parts and its assembly).
THEOREM TransferTyped == Spec => []TypeOK
<1>1. IInv => TypeOK
  BY DEF IInv
<1> QED
  BY <1>1, IInvHolds, PTL

\* commitReservationIngress, the fences and the takeovers leave photo, transfer and
\* assembly agreed about what became of the upload and who completes it.
THEOREM DeliveriesDoAgree == Spec => []DeliveriesAgree
<1>1. IInv => DeliveriesAgree
  BY DEF IInv, Story, DeliveriesAgree
<1> QED
  BY <1>1, IInvHolds, PTL

\* A delivered photo is the parts its client sent, whoever completed it; an assembly
\* that cleanupUploadTransfers declared absent has nothing left in R2.
THEOREM BytesAreAccounted == Spec => []BytesAccounted
<1> QED
  BY IInvDelivers, IInvHolds, PTL
=============================================================================
