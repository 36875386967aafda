---------------------------- MODULE MCCoverEndings ----------------------------
(***************************************************************************)
(* What must end around covers, on small instances, each behaviour of one  *)
(* of them: the drafts of an event and what they are charged for; one      *)
(* publication; the conversion of an old cover.  And a mail to the event's *)
(* owner, which must end too.  The others rest in their initial state.     *)
(***************************************************************************)
EXTENDS CoverPublication

VARIABLES
    subject,
    drafts, raw, masterRow, masterObject, active, put, inspector, sweep,
    ledger, job, jobFence, jobSet, rendered, source, jobPlatform, jobRun, operator, pass,
    mail, mailer, verified, wanted, gone, verifying, sent, lapses, unheard

draftVars == <<drafts, raw, masterRow, masterObject, active, put, inspector, sweep>>
backfillVars ==
    <<ledger, job, jobFence, jobSet, rendered, source, jobPlatform, jobRun, operator, pass>>
mailVars == <<mail, mailer, verified, wanted, gone, verifying, sent, lapses, unheard>>

Studio == INSTANCE CoverDrafts
    WITH Drafts <- {"d1", "d2"}, Puts <- {"p1"}, Inspectors <- {"i1"}, Masters <- {"m1"},
         MaxLive <- 1, RawCap <- 1, NoOne <- "none", draft <- drafts

Backfill == INSTANCE CoverBackfill
    WITH Jobs <- {"j1"}, Passes <- {"p1"}, InFlight <- 1, PerMinute <- 1, Profiles <- 1,
         Hazards <- {"delete", "unsupported", "error", "lookup", "call", "die"},
         fence <- jobFence, set <- jobSet, platform <- jobPlatform, run <- jobRun

Outbox == INSTANCE NotificationOutbox
    WITH Rows <- {"m1"}, Passes <- {"p1", "p2"}, NoPass <- "none", MaxSends <- 2, MaxLapses <- 2,
         row <- mail, pass <- mailer, deleted <- gone

EndingsInit ==
    /\ subject \in {"drafts", "publication", "backfill", "mail"}
    /\ Init /\ Studio!Init /\ Backfill!Init /\ Outbox!Init
    /\ verified \/ subject = "mail"

EndingsNext ==
    \/ subject = "publication" /\ Next /\ UNCHANGED <<subject, draftVars, backfillVars, mailVars>>
    \/ subject = "drafts" /\ Studio!Next /\ UNCHANGED <<subject, vars, backfillVars, mailVars>>
    \/ subject = "backfill" /\ Backfill!Next /\ UNCHANGED <<subject, vars, draftVars, mailVars>>
    \/ subject = "mail" /\ Outbox!Next /\ UNCHANGED <<subject, vars, draftVars, backfillVars>>

(* Weak fairness, of the machine under way.  Of drafts: the hourly sweep   *)
(* and its deletions go on, a publication ends; no host is made to act.    *)
Drafting == subject = "drafts"
DraftFairness ==
    /\ \A d \in {"d1", "d2"} :
          WF_draftVars(Drafting /\ (Studio!Publish(d) \/ Studio!Release(d, "failed")))
    /\ WF_draftVars(Drafting /\ Studio!ReleaseRaw)
    /\ WF_draftVars(Drafting /\ Studio!DropMaster)
    /\ WF_draftVars(Drafting /\ Studio!DropMasterRow)
    /\ WF_draftVars(Drafting /\ Studio!PutStep("p1"))
    /\ WF_draftVars(Drafting /\ Studio!InspectorStep("i1"))

(* The host asks again while nothing has come of it, by replaying the      *)
(* publication as well as by a restart; time passes, the daily sweep and   *)
(* the purge run again and again, the platform runs what is active; from   *)
(* some point on no call fails and no caller dies.                         *)
Publishing == subject = "publication"
PublicationFairness ==
    /\ \A r \in Requests : WF_vars(Publishing /\ RequestSteps(r))
    /\ WF_vars(Publishing /\ RunSteps) /\ WF_vars(Publishing /\ SweeperSteps)
    /\ WF_vars(Publishing /\ PurgeSteps) /\ WF_vars(Publishing /\ Ages)
    /\ WF_vars(Publishing /\ WindowEnds)
    /\ <>[][Publishing => Steady]_vars

(* The operator goes on until nothing is pending, the passes run again and *)
(* again, the platform runs what is active and time passes; from some      *)
(* point on nothing goes wrong.                                            *)
Converting == subject = "backfill"
ConversionFairness ==
    /\ WF_backfillVars(Converting /\ Backfill!RunSteps("j1"))
    /\ WF_backfillVars(Converting /\ Backfill!OperatorTriggers("j1"))
    /\ WF_backfillVars(Converting /\ Backfill!OperatorConfirms("j1"))
    /\ WF_backfillVars(Converting /\ Backfill!Settles("j1"))
    /\ WF_backfillVars(Converting /\ Backfill!MinuteEnds("j1"))
    /\ WF_backfillVars(Converting /\ Backfill!Ages("j1"))
    /\ WF_backfillVars(Converting /\ Backfill!PassSteps("p1"))
    /\ WF_backfillVars(Converting /\ Backfill!Close)
    /\ <>[][Converting => Backfill!Steady]_backfillVars

(* The cron comes again, and what it began it goes on with; retries come   *)
(* due and leases lapse.                                                   *)
Mailing == subject = "mail"
MailFairness ==
    /\ WF_mailVars(Mailing /\ Outbox!RetryDue("m1"))
    /\ WF_mailVars(Mailing /\ Outbox!LeaseEnds("m1"))
    /\ WF_mailVars(Mailing /\ Outbox!ReclaimExpired)
    /\ WF_mailVars(Mailing /\ \E p \in {"p1", "p2"} : Outbox!ClaimDue(p))
    /\ \A p \in {"p1", "p2"} :
          /\ WF_mailVars(Mailing /\ Outbox!Authorize(p, "m1"))
          /\ WF_mailVars(Mailing /\ Outbox!Send(p)) /\ WF_mailVars(Mailing /\ Outbox!Settle(p))

(* Strong fairness: what others may keep disabling for a while - a draft's *)
(* expiry and sweeps (its deadline passes, but the host can publish again  *)
(* and release it in between), the replay of a publication, the operator's *)
(* claim, the pick of a job and the end of its window.  A behaviour is of  *)
(* one machine, so one formula stands for one action of each.              *)
all == <<vars, draftVars, backfillVars, mailVars>>
StrongFairness ==
    /\ SF_all(\/ Drafting /\ Studio!Expire("d1") /\ UNCHANGED <<vars, backfillVars, mailVars>>
              \/ /\ Publishing /\ \E r \in Requests : ConflictInitial(r)
                 /\ UNCHANGED <<draftVars, backfillVars, mailVars>>
              \/ Converting /\ Backfill!OperatorClaims("j1") /\ UNCHANGED <<vars, draftVars, mailVars>>)
    /\ SF_all(\/ Drafting /\ Studio!SweepRaw("d1") /\ UNCHANGED <<vars, backfillVars, mailVars>>
              \/ Converting /\ Backfill!Picks("j1") /\ UNCHANGED <<vars, draftVars, mailVars>>)
    /\ SF_all(Converting /\ Backfill!WindowEnds("j1") /\ UNCHANGED <<vars, draftVars, mailVars>>)

EndingsSpec ==
    /\ EndingsInit
    /\ [][EndingsNext]_<<subject, all>>
    /\ DraftFairness /\ PublicationFairness /\ ConversionFairness /\ MailFairness /\ StrongFairness

-----------------------------------------------------------------------------
\* No draft is charged for ever.  What the host keeps asking for ends, unless another
\* cover overtakes it or its set was complete when it was restarted; and a failure
\* nobody restarted in its window stops keeping the event's next cover out.
CoversEnd ==
    /\ subject = "drafts" => (Studio!Charged("d1") ~> ~Studio!Charged("d1"))
    /\ subject = "publication" =>
         /\ receipt.status \in Unresolved ~>
              \/ receipt.status \notin Unresolved \/ ~current
              \/ receipt.status = "queued" /\ set = "ready"
         /\ WindowSettles

\* The conversion of an old cover ends, one way or another.
ConversionEnds == subject = "backfill" => Backfill!RunCloses

\* Every mail is sent or given up.
MailEnds == subject = "mail" => Outbox!MailEnds
===============================================================================
