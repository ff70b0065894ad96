------------------------------ MODULE Campaign ------------------------------
(***************************************************************************)
(* Marketing campaigns of subscriber.service: drafts, scheduling, and the  *)
(* cron workers of the server processes that send a due campaign in        *)
(* batches.  A worker claims a campaign with a lock that expires, reads    *)
(* the campaign and a page of recipients, sends the mails one by one, and  *)
(* saves counters and cursor with one write that names the campaign only.  *)
(* The database serialises its statements; everything else interleaves.    *)
(***************************************************************************)
EXTENDS Integers, FiniteSets, FiniteSetsExt

CONSTANTS
    Workers,        \* server processes, each with its own timer
    LastId,         \* subscriber ids are 1..LastId
    BatchSize,      \* CAMPAIGN_BATCH_SIZE
    Audiences,      \* the recipient sets an editor may choose
    Movers,         \* bound: the subscribers who come and go
    MaxTakeovers,   \* bound: locks that expire before their batch is saved
    MaxCrashes      \* bound: processes that restart

Subscribers == 1..LastId

ASSUME WorkersAssumption == IsFiniteSet(Workers)
ASSUME AudienceAssumption == Audiences \subseteq SUBSET Subscribers /\ Movers \subseteq Subscribers
ASSUME BatchAssumption == BatchSize \in Nat \ {0} /\ LastId \in Nat
ASSUME FaultAssumption == MaxTakeovers \in Nat /\ MaxCrashes \in Nat

VARIABLES
    campaign,   \* the MarketingCampaign row
    active,     \* the subscribers who receive mail
    worker,     \* what each worker does, with what it has read
    edit,       \* the recipients updateDraft is about to write, or the mark None
    mails,      \* history: mails of the campaign each subscriber was sent
    tried,      \* history: subscribers a mail was sent to, or failed for
    owed,       \* history: subscribers addressed without a break since scheduling
    takeovers,  \* history: locks that expired under a batch
    crashes     \* history: processes that restarted

rows == <<campaign, active>>
history == <<mails, tried, owed, takeovers, crashes>>
vars == <<campaign, active, worker, edit, history>>

Statuses == {"DRAFT", "SCHEDULED", "SENDING", "SENT", "FAILED", "CANCELLED", "DELETED"}
Locks == {"free", "held", "expired"}    \* lockedAt: null, recent, past its TTL

None == {0}     \* no edit: 0 is not a subscriber

\* A worker that has read no batch.
At(pc) == [pc |-> pc, page |-> {}, more |-> FALSE, cursor |-> 0, sent |-> 0, failed |-> 0]

IdleWorker == At("idle")

TypeOK ==
    /\ campaign \in [status: Statuses, due: BOOLEAN, lock: Locks, audience: SUBSET Subscribers,
                     cursor: 0..LastId, sent: Nat, failed: Nat, error: BOOLEAN]
    /\ active \subseteq Subscribers
    /\ worker \in [Workers -> [pc: {"idle", "claim", "read", "send", "throw"},
                               page: SUBSET Subscribers, more: BOOLEAN,
                               cursor: 0..LastId, sent: Nat, failed: Nat]]
    /\ \A w \in Workers : Cardinality(worker[w].page) <= BatchSize
    /\ edit \in (SUBSET Subscribers) \cup {None}
    /\ mails \in [Subscribers -> Nat]
    /\ tried \subseteq Subscribers
    /\ owed \subseteq Subscribers
    /\ takeovers \in 0..MaxTakeovers
    /\ crashes \in 0..MaxCrashes

\* createDraft.
Init ==
    /\ campaign \in [status: {"DRAFT"}, due: {FALSE}, lock: {"free"}, audience: Audiences,
                     cursor: {0}, sent: {0}, failed: {0}, error: {FALSE}]
    /\ active = Subscribers
    /\ worker = [w \in Workers |-> IdleWorker]
    /\ edit = None
    /\ mails = [r \in Subscribers |-> 0]
    /\ tried = {} /\ owed = {}
    /\ takeovers = 0 /\ crashes = 0

-----------------------------------------------------------------------------
(* Drafts.                                                                 *)

\* updateDraft reads the draft and computes what it will write.
UpdateDraft(audience) ==
    /\ edit = None
    /\ campaign.status = "DRAFT"
    /\ edit' = audience
    /\ UNCHANGED <<rows, worker, history>>

\* ... and writes it by id, whatever the status is by now.
SaveDraft ==
    /\ edit # None
    /\ IF campaign.status = "DELETED" THEN UNCHANGED <<campaign, owed>>
       ELSE /\ campaign' = [campaign EXCEPT !.audience = edit]
            /\ owed' = owed \cap edit
    /\ edit' = None
    /\ UNCHANGED <<active, worker, mails, tried, takeovers, crashes>>

DeleteDraft ==
    /\ campaign.status = "DRAFT"
    /\ campaign' = [campaign EXCEPT !.status = "DELETED"]
    /\ UNCHANGED <<active, worker, edit, history>>

\* Counters and cursor start again.
ScheduleCampaign ==
    /\ campaign.status = "DRAFT"
    /\ campaign' = [campaign EXCEPT !.status = "SCHEDULED", !.cursor = 0, !.sent = 0,
                                    !.failed = 0, !.lock = "free", !.error = FALSE]
    /\ owed' = active \cap campaign.audience
    /\ UNCHANGED <<active, worker, edit, mails, tried, takeovers, crashes>>

CancelCampaign ==
    /\ campaign.status = "SCHEDULED"
    /\ campaign' = [campaign EXCEPT !.status = "CANCELLED"]
    /\ UNCHANGED <<active, worker, edit, history>>

\* scheduledAt passes.
FallsDue ==
    /\ campaign.status = "SCHEDULED"
    /\ ~campaign.due
    /\ campaign' = [campaign EXCEPT !.due = TRUE]
    /\ UNCHANGED <<active, worker, edit, history>>

-----------------------------------------------------------------------------
(* Subscribers.                                                            *)

\* subscribe, or setActive with TRUE.
Subscribe(r) ==
    /\ active' = active \cup {r}
    /\ UNCHANGED <<campaign, worker, edit, history>>

\* unsubscribe, setActive with FALSE, or remove.
Unsubscribe(r) ==
    /\ active' = active \ {r}
    /\ owed' = owed \ {r}
    /\ UNCHANGED <<campaign, worker, edit, mails, tried, takeovers, crashes>>

-----------------------------------------------------------------------------
(* The cron workers.                                                       *)

IsDue == campaign.status \in {"SCHEDULED", "SENDING"} /\ campaign.due

\* The timer fires in a process that is not processing campaigns already, and
\* finds the campaign among the due ones.
ProcessDueCampaigns(w) ==
    /\ worker[w].pc = "idle"
    /\ IsDue
    /\ worker' = [worker EXCEPT ![w] = At("claim")]
    /\ UNCHANGED <<rows, edit, history>>

\* Mutant: the claim trusts the candidates it read.
ClaimUnchecked(w) ==
    /\ worker[w].pc = "claim"
    /\ IF campaign.lock # "held"
       THEN /\ campaign' = [campaign EXCEPT !.status = "SENDING", !.lock = "held"]
            /\ worker' = [worker EXCEPT ![w] = At("read")]
       ELSE UNCHANGED campaign /\ worker' = [worker EXCEPT ![w] = IdleWorker]
    /\ UNCHANGED <<active, edit, history>>

\* Mutant: the lock is not part of the condition.
ClaimIgnoringLock(w) ==
    /\ worker[w].pc = "claim"
    /\ IF IsDue
       THEN /\ campaign' = [campaign EXCEPT !.status = "SENDING", !.lock = "held"]
            /\ worker' = [worker EXCEPT ![w] = At("read")]
       ELSE UNCHANGED campaign /\ worker' = [worker EXCEPT ![w] = IdleWorker]
    /\ UNCHANGED <<active, edit, history>>

\* Mutant: a lock that is too old is not taken over.
ClaimWithoutTakeover(w) ==
    /\ worker[w].pc = "claim"
    /\ IF IsDue /\ campaign.lock = "free"
       THEN /\ campaign' = [campaign EXCEPT !.status = "SENDING", !.lock = "held"]
            /\ worker' = [worker EXCEPT ![w] = At("read")]
       ELSE UNCHANGED campaign /\ worker' = [worker EXCEPT ![w] = IdleWorker]
    /\ UNCHANGED <<active, edit, history>>

\* One conditional update: still due, and unlocked or locked for too long.
Claim(w) ==
    /\ worker[w].pc = "claim"
    /\ IF IsDue /\ campaign.lock # "held"
       THEN /\ campaign' = [campaign EXCEPT !.status = "SENDING", !.lock = "held"]
            /\ worker' = [worker EXCEPT ![w] = At("read")]
       ELSE UNCHANGED campaign /\ worker' = [worker EXCEPT ![w] = IdleWorker]
    /\ UNCHANGED <<active, edit, history>>

\* The recipients after the cursor, in the order of their ids.
Waiting == {r \in active \cap campaign.audience : r > campaign.cursor}

\* Mutant: the look-ahead recipient is not cut off.
FirstIdsAndOne(ids, n) == {r \in ids : Cardinality({q \in ids : q <= r}) <= n + 1}

\* The first n ids of a set.
FirstIds(ids, n) == {r \in ids : Cardinality({q \in ids : q <= r}) <= n}

\* processCampaignBatch reads the campaign and one page of recipients.
ReadBatch(w) ==
    /\ worker[w].pc = "read"
    /\ worker' = [worker EXCEPT ![w] =
           [pc |-> "send", page |-> FirstIds(Waiting, BatchSize),
            more |-> Cardinality(Waiting) > BatchSize, cursor |-> campaign.cursor,
            sent |-> campaign.sent, failed |-> campaign.failed]]
    /\ UNCHANGED <<rows, edit, history>>

\* The batch after a mail to r, accepted (1) or not (0).
Mailed(batch, r, accepted) ==
    [pc |-> "send", page |-> batch.page \ {r}, more |-> batch.more, cursor |-> r,
     sent |-> batch.sent + accepted, failed |-> batch.failed + (1 - accepted)]

\* The next mail of the page is accepted or refused by the mail server.
SendMail(w) ==
    /\ worker[w].pc = "send"
    /\ worker[w].page # {}
    /\ LET r == Min(worker[w].page)
       IN  \E accepted \in {0, 1} :
              /\ tried' = tried \cup {r}
              /\ mails' = [mails EXCEPT ![r] = @ + accepted]
              /\ worker' = [worker EXCEPT ![w] = Mailed(worker[w], r, accepted)]
    /\ UNCHANGED <<rows, edit, owed, takeovers, crashes>>

\* What the worker counted, written over whatever the row says now.
Counted(w) ==
    [campaign EXCEPT !.sent = worker[w].sent, !.failed = worker[w].failed,
                     !.cursor = worker[w].cursor, !.lock = "free"]

\* Mutant: a full page is taken for the last one.
SaveBatchAsLast(w) ==
    /\ worker[w].pc = "send"
    /\ worker[w].page = {}
    /\ campaign' = [Counted(w) EXCEPT !.status =
           IF worker[w].failed > 0 /\ worker[w].sent = 0 THEN "FAILED" ELSE "SENT"]
    /\ worker' = [worker EXCEPT ![w] = IdleWorker]
    /\ UNCHANGED <<active, edit, history>>

\* Mutant: the counters of a page replace those of the pages before.
SaveBatchKeepingCounts(w) ==
    /\ worker[w].pc = "send"
    /\ worker[w].page = {}
    /\ campaign' =
           IF worker[w].more THEN [campaign EXCEPT !.cursor = worker[w].cursor, !.lock = "free"]
           ELSE [Counted(w) EXCEPT !.status =
                    IF worker[w].failed > 0 /\ worker[w].sent = 0 THEN "FAILED" ELSE "SENT"]
    /\ worker' = [worker EXCEPT ![w] = IdleWorker]
    /\ UNCHANGED <<active, edit, history>>

\* The page is done: the next tick goes on, or the campaign is over.
SaveBatch(w) ==
    /\ worker[w].pc = "send"
    /\ worker[w].page = {}
    /\ campaign' =
           IF worker[w].more THEN Counted(w)
           ELSE [Counted(w) EXCEPT !.status =
                    IF worker[w].failed > 0 /\ worker[w].sent = 0 THEN "FAILED" ELSE "SENT"]
    /\ worker' = [worker EXCEPT ![w] = IdleWorker]
    /\ UNCHANGED <<active, edit, history>>

\* Reading or saving the batch fails.
BatchThrows(w) ==
    /\ \/ worker[w].pc = "read"
       \/ worker[w].pc = "send" /\ worker[w].page = {}
    /\ worker' = [worker EXCEPT ![w] = At("throw")]
    /\ UNCHANGED <<rows, edit, history>>

\* The catch block of processDueCampaigns.
FailCampaign(w) ==
    /\ worker[w].pc = "throw"
    /\ campaign' = [campaign EXCEPT !.status = "FAILED", !.error = TRUE, !.lock = "free"]
    /\ worker' = [worker EXCEPT ![w] = IdleWorker]
    /\ UNCHANGED <<active, edit, history>>

-----------------------------------------------------------------------------
(* Faults.                                                                 *)

Busy == {w \in Workers : worker[w].pc \notin {"idle", "claim"}}

\* A process restarts, or the write of its catch block fails: the lock stays.
Crash(w) ==
    /\ crashes < MaxCrashes
    /\ worker[w].pc # "idle"
    /\ worker' = [worker EXCEPT ![w] = IdleWorker]
    /\ crashes' = crashes + 1
    /\ UNCHANGED <<rows, edit, mails, tried, owed, takeovers>>

\* CAMPAIGN_LOCK_TTL_MS after the claim, with a batch still going on or with none.
LockExpires ==
    /\ campaign.lock = "held"
    /\ Busy # {} => takeovers < MaxTakeovers
    /\ campaign' = [campaign EXCEPT !.lock = "expired"]
    /\ takeovers' = IF Busy # {} THEN takeovers + 1 ELSE takeovers
    /\ UNCHANGED <<active, worker, edit, mails, tried, owed, crashes>>

-----------------------------------------------------------------------------
Office ==
    \/ \E audience \in Audiences : UpdateDraft(audience)
    \/ SaveDraft
    \/ DeleteDraft
    \/ ScheduleCampaign
    \/ CancelCampaign

Step(w) ==
    \/ Claim(w)
    \/ ReadBatch(w)
    \/ SendMail(w)
    \/ SaveBatch(w)
    \/ BatchThrows(w)
    \/ FailCampaign(w)

Next ==
    \/ Office
    \/ \E r \in Movers : Subscribe(r) \/ Unsubscribe(r)
    \/ \E w \in Workers : ProcessDueCampaigns(w) \/ Step(w) \/ Crash(w)
    \/ FallsDue
    \/ LockExpires

\* Time passes, timers fire, and a process that runs goes on with its batch.
Fairness ==
    /\ WF_vars(FallsDue)
    /\ WF_vars(LockExpires)
    /\ \A w \in Workers : WF_vars(ProcessDueCampaigns(w)) /\ WF_vars(Step(w))

Spec == Init /\ [][Next]_vars /\ Fairness
-----------------------------------------------------------------------------
(* Properties.                                                             *)

\* While no lock runs out under its batch, a subscriber is mailed once, and once
\* more at most for every process that stopped between the mail and the write
\* that moves the cursor past it.
RepeatsAreLost ==
    takeovers = 0 => \A r \in Subscribers : mails[r] <= 1 + crashes

\* SENT means everybody: whoever was addressed without a break since scheduling
\* was sent the mail or was counted as a failure, whatever was paged, taken over
\* or repeated.
SentReachedEveryone == campaign.status = "SENT" => owed \subseteq tried

\* When no lock was lost the counters of a closed campaign tell what happened:
\* one mail per count, one attempt per subscriber tried.
CountsAreTrue ==
    campaign.status \in {"SENT", "FAILED"} /\ ~campaign.error /\ takeovers + crashes = 0
        => /\ campaign.sent = Cardinality({r \in Subscribers : mails[r] > 0})
           /\ campaign.sent + campaign.failed = Cardinality(tried)

\* A campaign cancelled or deleted before its first batch stays so and mails
\* nobody, although a worker may have read it as due before.
CancelledSendsNothing ==
    [][campaign.status \in {"CANCELLED", "DELETED"}
          => campaign'.status = campaign.status /\ mails' = mails]_vars

\* A scheduled campaign is closed in the end: batches go on after a crash, after
\* a lock nobody releases and after a takeover.
DueCampaignCloses ==
    campaign.status \in {"SCHEDULED", "SENDING"}
        ~> campaign.status \in {"SENT", "FAILED", "CANCELLED"}
=============================================================================
