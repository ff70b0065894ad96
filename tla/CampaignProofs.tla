--------------------------- MODULE CampaignProofs ---------------------------
(***************************************************************************)
(* The safety of campaigns for any number of workers, subscribers and      *)
(* faults, and any size of a batch.                                        *)
(***************************************************************************)
EXTENDS Campaign, FiniteSetTheorems, WellFoundedInduction, TLAPS

CampaignType ==
    [status: Statuses, due: BOOLEAN, lock: Locks, audience: SUBSET Subscribers,
     cursor: 0..LastId, sent: Nat, failed: Nat, error: BOOLEAN]
WorkerType ==
    [pc: {"idle", "claim", "read", "send", "throw"}, page: SUBSET Subscribers, more: BOOLEAN,
     cursor: 0..LastId, sent: Nat, failed: Nat]

Types ==
    /\ campaign \in CampaignType
    /\ active \subseteq Subscribers
    /\ worker \in [Workers -> WorkerType]
    /\ edit \in (SUBSET Subscribers) \cup {None}
    /\ mails \in [Subscribers -> Nat]
    /\ tried \subseteq Subscribers
    /\ owed \subseteq Subscribers
    /\ takeovers \in 0..MaxTakeovers
    /\ crashes \in 0..MaxCrashes

\* Before the first claim nobody was mailed and no worker holds the campaign.
Quiet == campaign.status \in {"DRAFT", "SCHEDULED", "CANCELLED", "DELETED"}
IsBusy(w) == worker[w].pc \in {"read", "send", "throw"}
QuietInv ==
    Quiet => (\A w \in Workers : ~IsBusy(w)) /\ (\A r \in Subscribers : mails[r] = 0)

\* Whoever is owed the mail and lies behind a cursor was tried.
OwedInv == owed \subseteq active \cap campaign.audience
BehindInv == \A q \in owed : q <= campaign.cursor => q \in tried
PageInv(w) ==
    LET batch == worker[w] IN
    batch.pc = "send" =>
        /\ \A q \in owed : q <= batch.cursor => q \in tried
        /\ \A q \in owed, p \in batch.page : q <= p => q \in tried \cup batch.page
        /\ batch.more \/ owed \subseteq tried \cup batch.page
        /\ \A p \in batch.page : batch.cursor < p
ReachInv == OwedInv /\ BehindInv /\ (\A w \in Workers : PageInv(w)) /\ SentReachedEveryone

\* While no lock runs out, one worker has the campaign, and who lies ahead of its
\* cursor was mailed in vain only.
LockInv ==
    \A w \in Workers : IsBusy(w) =>
        /\ campaign.lock = "held" /\ campaign.status = "SENDING"
        /\ \A v \in Workers : IsBusy(v) => v = w
CursorInv == \A w \in Workers : worker[w].pc = "send" => campaign.cursor <= worker[w].cursor
IsAhead(r) ==
    /\ r > campaign.cursor
    /\ \A w \in Workers : worker[w].pc = "send" => r > worker[w].cursor
Open ==
    /\ campaign.status \in {"DRAFT", "SCHEDULED", "SENDING"}
    /\ \A w \in Workers : worker[w].pc # "throw"
AheadInv == Open => \A r \in Subscribers : IsAhead(r) => mails[r] <= crashes
RepeatInv ==
    takeovers = 0 => LockInv /\ CursorInv /\ AheadInv
                     /\ \A r \in Subscribers : mails[r] <= 1 + crashes

CampaignInv == Types /\ QuietInv /\ ReachInv /\ RepeatInv

-----------------------------------------------------------------------------
(* Sets of subscribers.                                                    *)

LEMMA SubscribersAre == Subscribers \subseteq Nat /\ IsFiniteSet(Subscribers) /\ 0 \notin Subscribers
BY BatchAssumption, FS_Interval DEF Subscribers

LEMMA Least ==
    ASSUME NEW S \in SUBSET Nat, S # {}
    PROVE  Min(S) \in S /\ \A y \in S : Min(S) <= y
<1>1. \E x \in S : \A y \in S : ~(<<y, x>> \in OpToRel(<, Nat))
  BY WFMin, NatLessThanWellFounded, Zenon
<1>2. PICK x \in S : \A y \in S : ~(<<y, x>> \in OpToRel(<, Nat))
  BY <1>1
<1>3. \A y \in S : ~(y < x)
  BY <1>2, Zenon DEF OpToRel
<1>4. \A y \in S : x <= y
  BY <1>3
<1> QED
  BY <1>4 DEF Min

\* A page holds, with a recipient, everyone who waits before it, and everyone if
\* there is no more than a page.
LEMMA FirstIdsAre ==
    ASSUME NEW ids \in SUBSET Subscribers, NEW n \in Nat
    PROVE  /\ FirstIds(ids, n) \subseteq ids
           /\ \A p \in FirstIds(ids, n), q \in ids : q <= p => q \in FirstIds(ids, n)
           /\ Cardinality(ids) <= n => FirstIds(ids, n) = ids
<1> DEFINE upto(r) == {q \in ids : q <= r}
<1>1. IsFiniteSet(ids) /\ Cardinality(ids) \in Nat
  BY SubscribersAre, FS_Subset, FS_CardinalityType
<1>2. \A r : IsFiniteSet(upto(r)) /\ Cardinality(upto(r)) \in Nat
             /\ Cardinality(upto(r)) <= Cardinality(ids)
  <2> TAKE r
  <2>1. upto(r) \in SUBSET ids
    OBVIOUS
  <2> HIDE DEF upto
  <2> QED
    BY <1>1, <2>1, FS_Subset, FS_CardinalityType
<1>3. ASSUME NEW p \in FirstIds(ids, n), NEW q \in ids, q <= p
      PROVE  q \in FirstIds(ids, n)
  <2>1. upto(q) \in SUBSET upto(p)
    <3>1. p \in Nat /\ q \in Nat /\ \A k \in ids : k \in Nat
      BY SubscribersAre DEF FirstIds
    <3>2. \A k \in ids : k <= q => k <= p
      BY <1>3, <3>1
    <3> QED
      BY <3>2
  <2>2. Cardinality(upto(p)) <= n
    BY DEF FirstIds
  <2>3. Cardinality(upto(q)) <= Cardinality(upto(p))
    <3> HIDE DEF upto
    <3> QED
      BY <1>2, <2>1, FS_Subset
  <2>4. Cardinality(upto(q)) <= n
    <3> HIDE DEF upto
    <3> QED
      BY <1>2, <2>2, <2>3
  <2> QED
    BY <2>4 DEF FirstIds
<1>4. ASSUME Cardinality(ids) <= n
      PROVE  FirstIds(ids, n) = ids
  <2>1. \A r \in ids : Cardinality(upto(r)) <= n
    <3> HIDE DEF upto
    <3> QED
      BY <1>1, <1>2, <1>4
  <2> QED
    BY <2>1 DEF FirstIds
<1> QED
  BY <1>3, <1>4 DEF FirstIds
-----------------------------------------------------------------------------
(* Steps of the office, of subscribers and of time.                        *)

LEMMA TypesUnfold ==
    ASSUME Types
    PROVE  /\ campaign.status \in Statuses /\ campaign.due \in BOOLEAN /\ campaign.lock \in Locks
           /\ campaign.audience \in SUBSET Subscribers /\ campaign.cursor \in 0..LastId
           /\ campaign.sent \in Nat /\ campaign.failed \in Nat /\ campaign.error \in BOOLEAN
           /\ \A w \in Workers : worker[w] \in WorkerType
           /\ takeovers \in Nat /\ crashes \in Nat /\ LastId \in Nat
BY BatchAssumption, FaultAssumption DEF Types, CampaignType

LEMMA OfficeStep ==
    ASSUME CampaignInv, campaign' \in CampaignType, active' \subseteq Subscribers,
           edit' \in (SUBSET Subscribers) \cup {None},
           UNCHANGED <<worker, mails, tried, takeovers, crashes>>,
           campaign'.cursor = campaign.cursor, campaign'.lock = campaign.lock,
           owed' \subseteq owed, owed' \subseteq active' \cap campaign'.audience,
           \/ campaign'.status = campaign.status
           \/ /\ campaign.status \in {"DRAFT", "SCHEDULED"}
              /\ campaign'.status \in {"CANCELLED", "DELETED"}
    PROVE  CampaignInv'
<1>1. Types'
  BY DEF CampaignInv, Types
<1>2. QuietInv'
  BY DEF CampaignInv, QuietInv, Quiet, IsBusy
<1>3. ReachInv'
  <2>1. OwedInv' /\ BehindInv' /\ SentReachedEveryone'
    BY DEF CampaignInv, ReachInv, OwedInv, BehindInv, SentReachedEveryone
  <2>2. \A w \in Workers : PageInv(w)'
    BY DEF CampaignInv, ReachInv, PageInv
  <2> QED
    BY <2>1, <2>2 DEF ReachInv
<1>4. RepeatInv'
  <2> SUFFICES ASSUME takeovers = 0
               PROVE  /\ LockInv' /\ CursorInv' /\ AheadInv'
                      /\ \A r \in Subscribers : mails[r] <= 1 + crashes
    BY DEF RepeatInv
  <2>1. LockInv'
    BY DEF CampaignInv, RepeatInv, LockInv, QuietInv, Quiet, IsBusy
  <2>2. CursorInv'
    BY DEF CampaignInv, RepeatInv, CursorInv
  <2>3. AheadInv'
    BY DEF CampaignInv, RepeatInv, AheadInv, Open, IsAhead
  <2> QED
    BY <2>1, <2>2, <2>3 DEF CampaignInv, RepeatInv
<1> QED
  BY <1>1, <1>2, <1>3, <1>4 DEF CampaignInv

LEMMA StatusStep ==
    ASSUME CampaignInv, NEW status \in {"CANCELLED", "DELETED"},
           campaign.status \in {"DRAFT", "SCHEDULED"},
           campaign' = [campaign EXCEPT !.status = status],
           UNCHANGED <<active, worker, edit, history>>
    PROVE  CampaignInv'
<1>1. /\ campaign' \in CampaignType
      /\ campaign'.cursor = campaign.cursor /\ campaign'.lock = campaign.lock
      /\ campaign'.audience = campaign.audience /\ campaign'.status = status
  BY DEF CampaignInv, Types, CampaignType, Statuses
<1>2. /\ active' \subseteq Subscribers /\ edit' \in (SUBSET Subscribers) \cup {None}
      /\ UNCHANGED <<worker, mails, tried, takeovers, crashes>>
      /\ owed' = owed /\ active' = active
  BY DEF CampaignInv, Types, history
<1>3. owed' \subseteq active' \cap campaign'.audience
  BY <1>1, <1>2 DEF CampaignInv, ReachInv, OwedInv
<1> QED
  BY <1>1, <1>2, <1>3, OfficeStep

LEMMA DraftStep ==
    ASSUME CampaignInv,
           \/ \E audience \in Audiences : UpdateDraft(audience)
           \/ SaveDraft \/ DeleteDraft \/ CancelCampaign \/ FallsDue
    PROVE  CampaignInv'
<1>0. campaign \in CampaignType /\ owed \subseteq active \cap campaign.audience
      /\ active \subseteq Subscribers /\ edit \in (SUBSET Subscribers) \cup {None}
  BY DEF CampaignInv, Types, ReachInv, OwedInv
<1>1. ASSUME NEW audience \in Audiences, UpdateDraft(audience)
      PROVE  CampaignInv'
  <2>1. /\ UNCHANGED <<campaign, active, worker, mails, tried, owed, takeovers, crashes>>
        /\ edit' \in (SUBSET Subscribers) \cup {None}
    BY <1>1, AudienceAssumption DEF UpdateDraft, rows, history
  <2> QED
    BY <1>0, <2>1, OfficeStep
<1>2. CASE SaveDraft
  <2>0. edit # None /\ edit' = None
    BY <1>2 DEF SaveDraft
  <2>1. /\ UNCHANGED <<active, worker, mails, tried, takeovers, crashes>>
        /\ edit' \in (SUBSET Subscribers) \cup {None}
    BY <1>2, <2>0 DEF SaveDraft
  <2>2. CASE campaign.status = "DELETED"
    BY <1>0, <1>2, <2>1, <2>2, OfficeStep DEF SaveDraft
  <2>3. CASE campaign.status # "DELETED"
    <3>1. campaign' = [campaign EXCEPT !.audience = edit] /\ owed' = owed \cap edit
      BY <1>2, <2>3 DEF SaveDraft
    <3>2. edit \in SUBSET Subscribers
      BY <1>0, <2>0
    <3>3. /\ campaign' \in CampaignType
          /\ campaign'.cursor = campaign.cursor /\ campaign'.lock = campaign.lock
          /\ campaign'.audience = edit /\ campaign'.status = campaign.status
      BY <1>0, <3>1, <3>2 DEF CampaignType
    <3>4. owed' \subseteq owed /\ owed' \subseteq active' \cap campaign'.audience
      BY <1>0, <2>1, <3>1, <3>3
    <3> QED
      BY <1>0, <2>1, <3>3, <3>4, OfficeStep
  <2> QED
    BY <2>2, <2>3
<1>3. CASE DeleteDraft
  BY <1>3, StatusStep DEF DeleteDraft
<1>4. CASE CancelCampaign
  BY <1>4, StatusStep DEF CancelCampaign
<1>5. CASE FallsDue
  <2>1. campaign' = [campaign EXCEPT !.due = TRUE]
        /\ UNCHANGED <<active, worker, edit, mails, tried, owed, takeovers, crashes>>
    BY <1>5 DEF FallsDue, history
  <2>2. /\ campaign' \in CampaignType
        /\ campaign'.cursor = campaign.cursor /\ campaign'.lock = campaign.lock
        /\ campaign'.audience = campaign.audience /\ campaign'.status = campaign.status
    BY <1>0, <2>1 DEF CampaignType
  <2> QED
    BY <1>0, <2>1, <2>2, OfficeStep
<1> QED
  BY <1>1, <1>2, <1>3, <1>4, <1>5

LEMMA SubscriberStep ==
    ASSUME CampaignInv, NEW r \in Movers, Subscribe(r) \/ Unsubscribe(r)
    PROVE  CampaignInv'
<1>1. /\ UNCHANGED <<campaign, worker, edit, mails, tried, takeovers, crashes>>
      /\ campaign \in CampaignType /\ edit \in (SUBSET Subscribers) \cup {None}
  BY DEF Subscribe, Unsubscribe, history, CampaignInv, Types
<1>2. active' \subseteq Subscribers /\ owed' \subseteq owed
      /\ owed' \subseteq active' \cap campaign'.audience
  BY <1>1, AudienceAssumption
  DEF Subscribe, Unsubscribe, history, CampaignInv, Types, ReachInv, OwedInv
<1> QED
  BY <1>1, <1>2, OfficeStep

\* Scheduling starts from a draft, which nobody works on.
LEMMA ScheduleStep ==
    ASSUME CampaignInv, ScheduleCampaign
    PROVE  CampaignInv'
<1>1. /\ campaign \in CampaignType /\ campaign.status = "DRAFT"
      /\ UNCHANGED <<active, worker, edit, mails, tried, takeovers, crashes>>
      /\ owed' = active \cap campaign.audience
  BY DEF ScheduleCampaign, CampaignInv, Types
<1>2. /\ campaign' \in CampaignType /\ campaign'.status = "SCHEDULED"
      /\ campaign'.cursor = 0 /\ campaign'.audience = campaign.audience
  <2>1. campaign' = [campaign EXCEPT !.status = "SCHEDULED", !.cursor = 0, !.sent = 0,
                                     !.failed = 0, !.lock = "free", !.error = FALSE]
    BY DEF ScheduleCampaign
  <2>2. 0 \in 0..LastId /\ 0 \in Nat
    BY BatchAssumption
  <2> QED
    BY <1>1, <2>1, <2>2 DEF CampaignType, Statuses, Locks
<1>3. (\A w \in Workers : ~IsBusy(w)) /\ (\A r \in Subscribers : mails[r] = 0)
  BY <1>1 DEF CampaignInv, QuietInv, Quiet
<1>4. Types'
  BY <1>1, <1>2 DEF CampaignInv, Types
<1>5. QuietInv'
  BY <1>1, <1>3 DEF QuietInv, IsBusy
<1>6. ReachInv'
  <2>1. OwedInv' /\ SentReachedEveryone'
    BY <1>1, <1>2 DEF OwedInv, SentReachedEveryone
  <2>2. BehindInv'
    <3>1. \A q \in owed' : q \in Subscribers
      BY <1>4 DEF Types
    <3> QED
      BY <1>2, <3>1, BatchAssumption DEF BehindInv, Subscribers
  <2>3. \A w \in Workers : PageInv(w)'
    BY <1>1, <1>3 DEF PageInv, IsBusy
  <2> QED
    BY <2>1, <2>2, <2>3 DEF ReachInv
<1>7. RepeatInv'
  <2>1. crashes \in Nat /\ UNCHANGED <<mails, crashes>>
    BY <1>1, TypesUnfold DEF CampaignInv
  <2>2. \A r \in Subscribers : mails[r] <= crashes /\ mails[r] <= 1 + crashes
    BY <1>3, <2>1
  <2>3. LockInv' /\ CursorInv'
    BY <1>1, <1>3 DEF LockInv, CursorInv, IsBusy
  <2> QED
    BY <2>1, <2>2, <2>3 DEF RepeatInv, AheadInv
<1> QED
  BY <1>4, <1>5, <1>6, <1>7 DEF CampaignInv

LEMMA ExpiryStep ==
    ASSUME CampaignInv, LockExpires
    PROVE  CampaignInv'
<1>1. /\ campaign \in CampaignType /\ campaign' = [campaign EXCEPT !.lock = "expired"]
      /\ UNCHANGED <<active, worker, edit, mails, tried, owed, crashes>>
      /\ takeovers \in 0..MaxTakeovers /\ MaxTakeovers \in Nat
  BY FaultAssumption DEF LockExpires, CampaignInv, Types
<1>2. /\ campaign' \in CampaignType /\ campaign'.status = campaign.status
      /\ campaign'.cursor = campaign.cursor /\ campaign'.audience = campaign.audience
  BY <1>1 DEF CampaignType, Locks
<1>3. takeovers' = (IF Busy # {} THEN takeovers + 1 ELSE takeovers)
      /\ (Busy # {} => takeovers < MaxTakeovers)
  BY DEF LockExpires
<1>4. takeovers' \in 0..MaxTakeovers
  BY <1>1, <1>3
<1>5. Types'
  BY <1>1, <1>2, <1>4 DEF CampaignInv, Types
<1>6. QuietInv'
  BY <1>1, <1>2 DEF CampaignInv, QuietInv, Quiet, IsBusy
<1>7. ReachInv'
  <2>1. OwedInv' /\ BehindInv' /\ SentReachedEveryone'
    BY <1>1, <1>2 DEF CampaignInv, ReachInv, OwedInv, BehindInv, SentReachedEveryone
  <2>2. \A w \in Workers : PageInv(w)'
    BY <1>1 DEF CampaignInv, ReachInv, PageInv
  <2> QED
    BY <2>1, <2>2 DEF ReachInv
<1>8. RepeatInv'
  <2>1. CASE Busy # {}
    <3>1. takeovers' # 0
      BY <1>1, <1>3, <2>1
    <3> QED
      BY <3>1 DEF RepeatInv
  <2>2. CASE Busy = {}
    <3>1. \A w \in Workers : ~IsBusy(w)
      BY <2>2 DEF Busy, IsBusy
    <3>2. takeovers' = takeovers
      BY <1>3, <2>2
    <3>3. LockInv' /\ CursorInv'
      BY <1>1, <3>1 DEF LockInv, CursorInv, IsBusy
    <3>4. takeovers = 0 => AheadInv'
      BY <1>1, <1>2 DEF CampaignInv, RepeatInv, AheadInv, Open, IsAhead
    <3> QED
      BY <1>1, <3>2, <3>3, <3>4 DEF CampaignInv, RepeatInv
  <2> QED
    BY <2>1, <2>2
<1> QED
  BY <1>5, <1>6, <1>7, <1>8 DEF CampaignInv
-----------------------------------------------------------------------------
(* Steps of the workers.                                                   *)

LEMMA WorkerMoves ==
    ASSUME CampaignInv, NEW w \in Workers, NEW batch \in WorkerType,
           worker' = [worker EXCEPT ![w] = batch]
    PROVE  /\ worker' \in [Workers -> WorkerType]
           /\ worker'[w] = batch
           /\ \A v \in Workers \ {w} : worker'[v] = worker[v]
BY DEF CampaignInv, Types

LEMMA AtIs ==
    ASSUME NEW pc \in {"idle", "claim", "read", "throw"}
    PROVE  At(pc) \in WorkerType /\ At(pc).pc = pc
BY BatchAssumption DEF At, WorkerType

\* A worker lays the campaign down; if it had it, its process stopped.
LEMMA LeaveStep ==
    ASSUME CampaignInv, NEW w \in Workers, NEW pc \in {"idle", "claim"},
           worker' = [worker EXCEPT ![w] = At(pc)],
           UNCHANGED <<campaign, active, edit, mails, tried, owed, takeovers>>,
           crashes' \in 0..MaxCrashes,
           crashes' = crashes \/ crashes' = crashes + 1,
           IsBusy(w) => crashes' = crashes + 1
    PROVE  CampaignInv'
<1>1. /\ worker' \in [Workers -> WorkerType]
      /\ worker'[w].pc = pc
      /\ \A v \in Workers \ {w} : worker'[v] = worker[v]
  BY AtIs, WorkerMoves
<1>2. \A v \in Workers : IsBusy(v)' => v # w /\ IsBusy(v)
  BY <1>1 DEF IsBusy
<1>3. \A v \in Workers : worker'[v].pc = "send" => v # w /\ worker'[v] = worker[v]
  BY <1>1
<1>4. Types'
  BY <1>1 DEF CampaignInv, Types
<1>5. QuietInv'
  BY <1>2 DEF CampaignInv, QuietInv, Quiet
<1>6. ReachInv'
  <2>1. OwedInv' /\ BehindInv' /\ SentReachedEveryone'
    BY DEF CampaignInv, ReachInv, OwedInv, BehindInv, SentReachedEveryone
  <2>2. \A v \in Workers : PageInv(v)'
    BY <1>3 DEF CampaignInv, ReachInv, PageInv
  <2> QED
    BY <2>1, <2>2 DEF ReachInv
<1>7. RepeatInv'
  <2> SUFFICES ASSUME takeovers = 0
               PROVE  /\ LockInv' /\ CursorInv' /\ AheadInv'
                      /\ \A r \in Subscribers : mails[r] <= 1 + crashes'
    BY DEF RepeatInv
  <2>1. crashes \in Nat /\ \A r \in Subscribers : mails[r] \in Nat
    BY TypesUnfold DEF CampaignInv, Types
  <2>2. LockInv'
    BY <1>2 DEF CampaignInv, RepeatInv, LockInv
  <2>3. CursorInv'
    BY <1>3 DEF CampaignInv, RepeatInv, CursorInv
  <2>4. \A r \in Subscribers : mails[r] <= 1 + crashes
    BY DEF CampaignInv, RepeatInv
  <2>5. \A r \in Subscribers : mails[r] <= 1 + crashes'
    BY <2>1, <2>4
  <2>6. AheadInv'
    <3>1. CASE IsBusy(w)
      <4>1. crashes' = crashes + 1
        BY <3>1
      <4> QED
        BY <2>1, <2>4, <4>1 DEF AheadInv
    <3>2. CASE ~IsBusy(w)
      <4>1. Open' => Open
        BY <1>1, <3>2 DEF Open, IsBusy
      <4>2. \A r \in Subscribers : IsAhead(r)' => IsAhead(r)
        BY <1>1, <3>2 DEF IsAhead, IsBusy
      <4>3. Open' => \A r \in Subscribers : IsAhead(r)' => mails[r] <= crashes
        BY <4>1, <4>2 DEF CampaignInv, RepeatInv, AheadInv
      <4> QED
        BY <2>1, <4>3 DEF AheadInv
    <3> QED
      BY <3>1, <3>2
  <2> QED
    BY <2>2, <2>3, <2>5, <2>6
<1> QED
  BY <1>4, <1>5, <1>6, <1>7 DEF CampaignInv

LEMMA TimerStep ==
    ASSUME CampaignInv, NEW w \in Workers, ProcessDueCampaigns(w) \/ Crash(w)
    PROVE  CampaignInv'
<1>0. crashes \in 0..MaxCrashes /\ MaxCrashes \in Nat
  BY FaultAssumption DEF CampaignInv, Types
<1>1. CASE ProcessDueCampaigns(w)
  <2>1. /\ worker' = [worker EXCEPT ![w] = At("claim")] /\ ~IsBusy(w)
        /\ UNCHANGED <<campaign, active, edit, mails, tried, owed, takeovers, crashes>>
    BY <1>1 DEF ProcessDueCampaigns, rows, history, IsBusy
  <2> QED
    BY <1>0, <2>1, LeaveStep
<1>2. CASE Crash(w)
  <2>1. /\ worker' = [worker EXCEPT ![w] = At("idle")]
        /\ UNCHANGED <<campaign, active, edit, mails, tried, owed, takeovers>>
        /\ crashes < MaxCrashes /\ crashes' = crashes + 1
    BY <1>2 DEF Crash, rows, IdleWorker
  <2>2. crashes' \in 0..MaxCrashes
    BY <1>0, <2>1
  <2> QED
    BY <2>1, <2>2, LeaveStep
<1> QED
  BY <1>1, <1>2

LEMMA ClaimStep ==
    ASSUME CampaignInv, NEW w \in Workers, Claim(w)
    PROVE  CampaignInv'
<1>1. UNCHANGED <<active, edit, mails, tried, owed, takeovers, crashes>> /\ ~IsBusy(w)
  BY DEF Claim, history, IsBusy
<1>2. CASE ~(IsDue /\ campaign.lock # "held")
  <2>1. UNCHANGED campaign /\ worker' = [worker EXCEPT ![w] = At("idle")]
    BY <1>2 DEF Claim, IdleWorker
  <2>2. crashes' \in 0..MaxCrashes
    BY <1>1 DEF CampaignInv, Types
  <2> QED
    BY <1>1, <2>1, <2>2, LeaveStep
<1>3. CASE IsDue /\ campaign.lock # "held"
  <2>1. /\ campaign' = [campaign EXCEPT !.status = "SENDING", !.lock = "held"]
        /\ worker' = [worker EXCEPT ![w] = At("read")]
    BY <1>3 DEF Claim
  <2>2. /\ worker' \in [Workers -> WorkerType]
        /\ worker'[w].pc = "read"
        /\ \A v \in Workers \ {w} : worker'[v] = worker[v]
    BY <2>1, AtIs, WorkerMoves
  <2>3. /\ campaign' \in CampaignType
        /\ campaign'.status = "SENDING" /\ campaign'.lock = "held"
        /\ campaign'.cursor = campaign.cursor /\ campaign'.audience = campaign.audience
    BY <2>1 DEF CampaignInv, Types, CampaignType, Statuses, Locks
  <2>4. Types'
    BY <1>1, <2>2, <2>3 DEF CampaignInv, Types
  <2>5. QuietInv'
    BY <2>3 DEF QuietInv, Quiet
  <2>6. ReachInv'
    <3>1. OwedInv' /\ BehindInv' /\ SentReachedEveryone'
      BY <1>1, <2>3 DEF CampaignInv, ReachInv, OwedInv, BehindInv, SentReachedEveryone
    <3>2. \A v \in Workers : PageInv(v)'
      <4> TAKE v \in Workers
      <4>1. CASE v = w
        BY <2>2, <4>1 DEF PageInv
      <4>2. CASE v # w
        BY <1>1, <2>2, <4>2 DEF CampaignInv, ReachInv, PageInv
      <4> QED
        BY <4>1, <4>2
    <3> QED
      BY <3>1, <3>2 DEF ReachInv
  <2>7. RepeatInv'
    <3> SUFFICES ASSUME takeovers = 0
                 PROVE  /\ LockInv' /\ CursorInv' /\ AheadInv'
                        /\ \A r \in Subscribers : mails[r] <= 1 + crashes
      BY <1>1 DEF RepeatInv
    <3>1. \A v \in Workers : ~IsBusy(v)
      BY <1>3 DEF CampaignInv, RepeatInv, LockInv
    <3>2. \A v \in Workers : IsBusy(v)' => v = w
      BY <2>2, <3>1 DEF IsBusy
    <3>3. \A v \in Workers : worker'[v].pc # "send"
      BY <2>2, <3>1 DEF IsBusy
    <3>4. LockInv' /\ CursorInv'
      BY <2>3, <3>2, <3>3 DEF LockInv, CursorInv
    <3>5. Open
      BY <1>3, <3>1 DEF Open, IsDue, IsBusy
    <3>6. \A r \in Subscribers : IsAhead(r)' => IsAhead(r)
      BY <2>3, <3>1 DEF IsAhead, IsBusy
    <3>7. AheadInv'
      BY <1>1, <3>5, <3>6 DEF CampaignInv, RepeatInv, AheadInv
    <3> QED
      BY <3>4, <3>7 DEF CampaignInv, RepeatInv
  <2> QED
    BY <2>4, <2>5, <2>6, <2>7 DEF CampaignInv
<1> QED
  BY <1>2, <1>3

\* Whoever is owed the mail lies behind the cursor or waits.
LEMMA ReadStep ==
    ASSUME CampaignInv, NEW w \in Workers, ReadBatch(w)
    PROVE  CampaignInv'
<1> DEFINE page == FirstIds(Waiting, BatchSize)
           batch == [pc |-> "send", page |-> page, more |-> Cardinality(Waiting) > BatchSize,
                     cursor |-> campaign.cursor, sent |-> campaign.sent, failed |-> campaign.failed]
<1>1. /\ UNCHANGED <<campaign, active, edit, mails, tried, owed, takeovers, crashes>>
      /\ worker[w].pc = "read" /\ worker' = [worker EXCEPT ![w] = batch]
  BY DEF ReadBatch, rows, history
<1>2. Waiting \in SUBSET Subscribers /\ BatchSize \in Nat /\ Cardinality(Waiting) \in Nat
  <2>1. Waiting \in SUBSET Subscribers
    BY DEF Waiting, CampaignInv, Types
  <2> QED
    BY <2>1, SubscribersAre, FS_Subset, FS_CardinalityType, BatchAssumption
<1>3. /\ page \subseteq Waiting
      /\ \A p \in page, q \in Waiting : q <= p => q \in page
      /\ Cardinality(Waiting) <= BatchSize => page = Waiting
  BY <1>2, FirstIdsAre
<1>4. batch \in WorkerType
  BY <1>2, <1>3, TypesUnfold DEF CampaignInv, WorkerType
<1>5. /\ worker' \in [Workers -> WorkerType]
      /\ worker'[w] = batch
      /\ \A v \in Workers \ {w} : worker'[v] = worker[v]
  BY <1>1, <1>4, WorkerMoves
<1>6. Types'
  BY <1>1, <1>5 DEF CampaignInv, Types
<1>7. IsBusy(w) /\ ~Quiet
  BY <1>1 DEF CampaignInv, QuietInv, IsBusy
<1>8. QuietInv'
  BY <1>1, <1>7 DEF QuietInv, Quiet
<1>9. PageInv(w)'
  <2>1. \A q \in owed : q <= campaign.cursor => q \in tried
    BY DEF CampaignInv, ReachInv, BehindInv
  <2>2. \A q \in owed : q \in tried \cup Waiting
    <3> TAKE q \in owed
    <3>1. q \in active \cap campaign.audience /\ q \in Nat /\ campaign.cursor \in Nat
      BY SubscribersAre, TypesUnfold DEF CampaignInv, ReachInv, OwedInv, Types
    <3>2. CASE q <= campaign.cursor
      BY <2>1, <3>2
    <3>3. CASE q > campaign.cursor
      BY <3>1, <3>3 DEF Waiting
    <3> QED
      BY <3>1, <3>2, <3>3
  <2>3. \A q \in owed, p \in page : q <= p => q \in tried \cup page
    BY <1>3, <2>2
  <2>4. batch.more \/ owed \subseteq tried \cup page
    <3>1. batch.more = (Cardinality(Waiting) > BatchSize)
      OBVIOUS
    <3> HIDE DEF batch, page
    <3>2. CASE Cardinality(Waiting) <= BatchSize
      <4>1. page = Waiting
        BY <1>3, <3>2
      <4> QED
        BY <2>2, <4>1
    <3>3. CASE Cardinality(Waiting) > BatchSize
      BY <3>1, <3>3
    <3> QED
      BY <1>2, <3>2, <3>3
  <2>5. \A p \in page : campaign.cursor < p
    <3>0. campaign.cursor \in Nat /\ \A p \in Waiting : p \in Nat
      <4>1. campaign.cursor \in Nat
        BY TypesUnfold DEF CampaignInv
      <4>2. Waiting \subseteq Nat
        BY <1>2, SubscribersAre
      <4> QED
        BY <4>1, <4>2
    <3>1. \A p \in Waiting : p > campaign.cursor
      BY DEF Waiting
    <3>2. \A p \in Waiting : campaign.cursor < p
      BY <3>0, <3>1
    <3> HIDE DEF page
    <3> QED
      BY <1>3, <3>2
  <2>6. batch.pc = "send" /\ batch.page = page /\ batch.cursor = campaign.cursor
    OBVIOUS
  <2> HIDE DEF batch, page
  <2> QED
    BY <1>1, <1>5, <2>1, <2>3, <2>4, <2>5, <2>6 DEF PageInv
<1>10. batch.pc = "send" /\ batch.cursor = campaign.cursor
  OBVIOUS
<1> HIDE DEF batch, page
<1>11. ReachInv'
  <2>1. OwedInv' /\ BehindInv' /\ SentReachedEveryone'
    BY <1>1 DEF CampaignInv, ReachInv, OwedInv, BehindInv, SentReachedEveryone
  <2>2. \A v \in Workers \ {w} : PageInv(v)'
    BY <1>1, <1>5 DEF CampaignInv, ReachInv, PageInv
  <2> QED
    BY <1>9, <2>1, <2>2 DEF ReachInv
<1>12. RepeatInv'
  <2> SUFFICES ASSUME takeovers = 0
               PROVE  /\ LockInv' /\ CursorInv' /\ AheadInv'
                      /\ \A r \in Subscribers : mails[r] <= 1 + crashes
    BY <1>1 DEF RepeatInv
  <2>1. \A v \in Workers : IsBusy(v)' => IsBusy(v)
    BY <1>5, <1>7 DEF IsBusy
  <2>2. LockInv'
    BY <1>1, <2>1 DEF CampaignInv, RepeatInv, LockInv
  <2>3. CursorInv'
    <3>1. campaign.cursor \in Nat
      BY TypesUnfold DEF CampaignInv
    <3> QED
      BY <1>1, <1>5, <1>10, <3>1 DEF CampaignInv, RepeatInv, CursorInv
  <2>4. Open' => Open
    BY <1>1, <1>5 DEF Open
  <2>5. \A r \in Subscribers : IsAhead(r)' => IsAhead(r)
    BY <1>1, <1>5 DEF IsAhead
  <2>6. AheadInv'
    BY <1>1, <2>4, <2>5 DEF CampaignInv, RepeatInv, AheadInv
  <2> QED
    BY <2>2, <2>3, <2>6 DEF CampaignInv, RepeatInv
<1> QED
  BY <1>6, <1>8, <1>11, <1>12 DEF CampaignInv
LEMMA MailedIs ==
    ASSUME NEW batch \in WorkerType, NEW r \in Subscribers, NEW accepted \in {0, 1}
    PROVE  /\ Mailed(batch, r, accepted) \in WorkerType
           /\ Mailed(batch, r, accepted).pc = "send"
           /\ Mailed(batch, r, accepted).page = batch.page \ {r}
           /\ Mailed(batch, r, accepted).more = batch.more
           /\ Mailed(batch, r, accepted).cursor = r
<1>1. r \in 0..LastId
  BY BatchAssumption DEF Subscribers
<1>2. /\ batch.page \in SUBSET Subscribers /\ batch.more \in BOOLEAN
      /\ batch.sent + accepted \in Nat /\ batch.failed + (1 - accepted) \in Nat
  BY DEF WorkerType
<1>3. batch.page \ {r} \in SUBSET Subscribers
  BY <1>2
<1> QED
  BY <1>1, <1>2, <1>3 DEF Mailed, WorkerType

\* The first recipient of the page is tried, and the cursor moves to it.
LEMMA SendStep ==
    ASSUME CampaignInv, NEW w \in Workers, SendMail(w)
    PROVE  CampaignInv'
<1> DEFINE r == Min(worker[w].page)
<1>1. /\ worker[w].pc = "send" /\ worker[w].page # {} /\ worker[w] \in WorkerType
      /\ worker[w].page \in SUBSET Subscribers /\ worker[w].cursor \in Nat
      /\ UNCHANGED <<campaign, active, edit, owed, takeovers, crashes>>
      /\ campaign.cursor \in Nat /\ crashes \in Nat /\ mails \in [Subscribers -> Nat]
  <2>1. /\ worker[w].pc = "send" /\ worker[w].page # {}
        /\ UNCHANGED <<campaign, active, edit, owed, takeovers, crashes>>
    BY DEF SendMail, rows
  <2>2. worker[w] \in WorkerType /\ campaign.cursor \in Nat /\ crashes \in Nat
        /\ mails \in [Subscribers -> Nat]
    BY TypesUnfold DEF CampaignInv, Types
  <2> QED
    BY <2>1, <2>2, BatchAssumption DEF WorkerType
<1>2. PICK accepted \in {0, 1} :
        /\ tried' = tried \cup {r}
        /\ mails' = [mails EXCEPT ![r] = @ + accepted]
        /\ worker' = [worker EXCEPT ![w] = Mailed(worker[w], r, accepted)]
  BY DEF SendMail
<1>3. r \in worker[w].page /\ \A p \in worker[w].page : r <= p
  BY <1>1, SubscribersAre, Least
<1> HIDE DEF r
<1>4. r \in Subscribers /\ r \in Nat
  BY <1>1, <1>3, SubscribersAre
<1> DEFINE batch == Mailed(worker[w], r, accepted)
<1>5. /\ batch \in WorkerType /\ batch.pc = "send" /\ batch.page = worker[w].page \ {r}
      /\ batch.more = worker[w].more /\ batch.cursor = r
  <2>1. worker[w] \in WorkerType
    BY <1>1
  <2>2. r \in Subscribers /\ accepted \in {0, 1}
    BY <1>4
  <2> QED
    BY <2>1, <2>2, MailedIs
<1>6. worker' = [worker EXCEPT ![w] = batch]
  BY <1>2
<1> HIDE DEF batch
<1>7. /\ worker' \in [Workers -> WorkerType]
      /\ worker'[w] = batch
      /\ \A v \in Workers \ {w} : worker'[v] = worker[v]
  BY <1>5, <1>6, WorkerMoves
<1>8. /\ mails' \in [Subscribers -> Nat]
      /\ mails'[r] <= mails[r] + 1
      /\ \A q \in Subscribers \ {r} : mails'[q] = mails[q]
  BY <1>1, <1>2, <1>4
<1>9. tried \subseteq tried' /\ r \in tried'
  BY <1>2
<1>10. Types'
  BY <1>1, <1>2, <1>4, <1>7, <1>8 DEF CampaignInv, Types
<1>11. IsBusy(w) /\ ~Quiet
  BY <1>1 DEF CampaignInv, QuietInv, IsBusy
<1>12. QuietInv'
  BY <1>1, <1>11 DEF QuietInv, Quiet
<1>13. /\ \A q \in owed, p \in worker[w].page : q <= p => q \in tried \cup worker[w].page
       /\ worker[w].more \/ owed \subseteq tried \cup worker[w].page
       /\ \A p \in worker[w].page : worker[w].cursor < p
  BY <1>1 DEF CampaignInv, ReachInv, PageInv
<1>14. PageInv(w)'
  <2>0. \A q \in owed : q \in Nat
    BY SubscribersAre DEF CampaignInv, Types
  <2>1. \A q \in owed : q <= r => q \in tried'
    <3> SUFFICES ASSUME NEW q \in owed, q <= r PROVE q \in tried'
      OBVIOUS
    <3>1. q \in tried \cup worker[w].page
      BY <1>3, <1>13
    <3>2. CASE q \in worker[w].page
      <4>1. r <= q
        BY <1>3, <3>2
      <4>2. q = r
        BY <1>4, <2>0, <4>1
      <4> QED
        BY <1>9, <4>2
    <3> QED
      BY <1>9, <3>1, <3>2
  <2>2. \A q \in owed, p \in batch.page : q <= p => q \in tried' \cup batch.page
    BY <1>5, <1>9, <1>13
  <2>3. batch.more \/ owed \subseteq tried' \cup batch.page
    BY <1>5, <1>9, <1>13
  <2>4. \A p \in batch.page : r < p
    <3> TAKE p \in batch.page
    <3>1. p \in worker[w].page /\ p # r /\ p \in Nat
      BY <1>1, <1>5, SubscribersAre
    <3> QED
      BY <1>3, <1>4, <3>1
  <2> QED
    BY <1>1, <1>5, <1>7, <2>1, <2>2, <2>3, <2>4 DEF PageInv
<1>15. ReachInv'
  <2>1. OwedInv' /\ BehindInv' /\ SentReachedEveryone'
    BY <1>1, <1>9 DEF CampaignInv, ReachInv, OwedInv, BehindInv, SentReachedEveryone
  <2>2. \A v \in Workers \ {w} : PageInv(v)'
    BY <1>1, <1>7, <1>9 DEF CampaignInv, ReachInv, PageInv
  <2> QED
    BY <1>14, <2>1, <2>2 DEF ReachInv
<1>16. RepeatInv'
  <2> SUFFICES ASSUME takeovers = 0
               PROVE  /\ LockInv' /\ CursorInv' /\ AheadInv'
                      /\ \A q \in Subscribers : mails'[q] <= 1 + crashes
    BY <1>1 DEF RepeatInv
  <2>1. \A v \in Workers : IsBusy(v) => v = w
    BY <1>11 DEF CampaignInv, RepeatInv, LockInv
  <2>2. \A v \in Workers : IsBusy(v)' => IsBusy(v)
    BY <1>7, <1>11 DEF IsBusy
  <2>3. LockInv'
    BY <1>1, <2>2 DEF CampaignInv, RepeatInv, LockInv
  <2>4. worker[w].cursor < r /\ campaign.cursor <= worker[w].cursor
    BY <1>1, <1>3, <1>13 DEF CampaignInv, RepeatInv, CursorInv
  <2>5. campaign.cursor < r
    BY <1>1, <1>4, <2>4
  <2>6. CursorInv'
    <3> SUFFICES ASSUME NEW v \in Workers, worker'[v].pc = "send"
                 PROVE  campaign.cursor <= worker'[v].cursor
      BY <1>1 DEF CursorInv
    <3>1. v = w
      BY <2>1, <2>2 DEF IsBusy
    <3> QED
      BY <1>1, <1>4, <1>5, <1>7, <2>5, <3>1
  <2>7. Open
    <3>1. campaign.status = "SENDING"
      BY <1>11 DEF CampaignInv, RepeatInv, LockInv
    <3>2. \A v \in Workers : worker[v].pc # "throw"
      BY <1>1, <2>1 DEF IsBusy
    <3> QED
      BY <3>1, <3>2 DEF Open
  <2>8. IsAhead(r)
    BY <2>1, <2>4, <2>5, <1>1, <1>4 DEF IsAhead, IsBusy
  <2>9. \A q \in Subscribers : IsAhead(q) => mails[q] <= crashes
    BY <2>7 DEF CampaignInv, RepeatInv, AheadInv
  <2>10. \A q \in Subscribers : mails'[q] <= 1 + crashes
    <3> TAKE q \in Subscribers
    <3>1. CASE q = r
      BY <1>1, <1>4, <1>8, <2>8, <2>9, <3>1
    <3>2. CASE q # r
      BY <1>8, <3>2 DEF CampaignInv, RepeatInv
    <3> QED
      BY <3>1, <3>2
  <2>11. AheadInv'
    <3> SUFFICES ASSUME NEW q \in Subscribers, IsAhead(q)' PROVE mails'[q] <= crashes
      BY <1>1 DEF AheadInv
    <3>1. q > r /\ q \in Nat
      BY <1>5, <1>7, SubscribersAre DEF IsAhead
    <3>2. IsAhead(q)
      <4>1. q > campaign.cursor
        BY <1>1 DEF IsAhead
      <4>2. \A v \in Workers : worker[v].pc = "send" => q > worker[v].cursor
        BY <1>1, <1>4, <2>1, <2>4, <3>1 DEF IsBusy
      <4> QED
        BY <4>1, <4>2 DEF IsAhead
    <3>3. q # r
      BY <1>4, <3>1
    <3> QED
      BY <1>8, <2>9, <3>2, <3>3
  <2> QED
    BY <2>3, <2>6, <2>10, <2>11
<1> QED
  BY <1>10, <1>12, <1>15, <1>16 DEF CampaignInv
LEMMA CountedIs ==
    ASSUME CampaignInv, NEW w \in Workers, SaveBatch(w)
    PROVE  /\ campaign' \in CampaignType
           /\ campaign'.cursor = worker[w].cursor /\ campaign'.audience = campaign.audience
           /\ worker[w].more => campaign'.status = campaign.status
           /\ ~worker[w].more => campaign'.status \in {"SENT", "FAILED"}
<1>1. campaign \in CampaignType /\ worker[w] \in WorkerType
  BY TypesUnfold DEF CampaignInv, Types
<1>2. /\ Counted(w) \in CampaignType
      /\ Counted(w).cursor = worker[w].cursor /\ Counted(w).audience = campaign.audience
      /\ Counted(w).status = campaign.status
  <2>1. /\ worker[w].sent \in Nat /\ worker[w].failed \in Nat /\ worker[w].cursor \in 0..LastId
    BY <1>1 DEF WorkerType
  <2> QED
    BY <1>1, <2>1 DEF Counted, CampaignType, Locks
<1>3. CASE worker[w].more
  BY <1>2, <1>3 DEF SaveBatch
<1>4. CASE ~worker[w].more
  <2> DEFINE status == IF worker[w].failed > 0 /\ worker[w].sent = 0 THEN "FAILED" ELSE "SENT"
  <2>1. campaign' = [Counted(w) EXCEPT !.status = status]
    BY <1>4 DEF SaveBatch
  <2>2. status \in {"SENT", "FAILED"}
    OBVIOUS
  <2> HIDE DEF status
  <2>3. status \in Statuses
    BY <2>2 DEF Statuses
  <2>4. /\ campaign' \in CampaignType
        /\ campaign'.cursor = Counted(w).cursor /\ campaign'.audience = Counted(w).audience
        /\ campaign'.status = status
    BY <1>2, <2>1, <2>3 DEF CampaignType
  <2> QED
    BY <1>2, <1>4, <2>2, <2>4
<1> QED
  BY <1>3, <1>4

\* A page that is done: who is owed the mail and lies behind the new cursor was tried,
\* and everyone who is owed it if there are no more pages.
LEMMA SaveStep ==
    ASSUME CampaignInv, NEW w \in Workers, SaveBatch(w)
    PROVE  CampaignInv'
<1>1. /\ worker[w].pc = "send" /\ worker[w].page = {} /\ worker[w].cursor \in Nat
      /\ worker' = [worker EXCEPT ![w] = At("idle")]
      /\ UNCHANGED <<active, edit, mails, tried, owed, takeovers, crashes>>
  <2>1. worker[w].cursor \in Nat
    BY TypesUnfold, BatchAssumption DEF CampaignInv, WorkerType
  <2> QED
    BY <2>1 DEF SaveBatch, IdleWorker, history
<1>2. /\ worker' \in [Workers -> WorkerType]
      /\ worker'[w].pc = "idle"
      /\ \A v \in Workers \ {w} : worker'[v] = worker[v]
  BY <1>1, AtIs, WorkerMoves
<1>3. /\ campaign' \in CampaignType
      /\ campaign'.cursor = worker[w].cursor /\ campaign'.audience = campaign.audience
      /\ worker[w].more => campaign'.status = campaign.status
      /\ ~worker[w].more => campaign'.status \in {"SENT", "FAILED"}
  BY CountedIs
<1>4. Types'
  BY <1>1, <1>2, <1>3 DEF CampaignInv, Types
<1>5. IsBusy(w) /\ ~Quiet
  BY <1>1 DEF CampaignInv, QuietInv, IsBusy
<1>6. QuietInv'
  BY <1>3, <1>5 DEF QuietInv, Quiet
<1>7. /\ \A q \in owed : q <= worker[w].cursor => q \in tried
      /\ worker[w].more \/ owed \subseteq tried
  BY <1>1 DEF CampaignInv, ReachInv, PageInv
<1>8. ReachInv'
  <2>1. OwedInv' /\ BehindInv'
    BY <1>1, <1>3, <1>7 DEF CampaignInv, ReachInv, OwedInv, BehindInv
  <2>2. SentReachedEveryone'
    BY <1>1, <1>3, <1>7 DEF CampaignInv, ReachInv, SentReachedEveryone
  <2>3. \A v \in Workers : PageInv(v)'
    <3> TAKE v \in Workers
    <3>1. CASE v = w
      BY <1>2, <3>1 DEF PageInv
    <3>2. CASE v # w
      BY <1>1, <1>2, <3>2 DEF CampaignInv, ReachInv, PageInv
    <3> QED
      BY <3>1, <3>2
  <2> QED
    BY <2>1, <2>2, <2>3 DEF ReachInv
<1>9. RepeatInv'
  <2> SUFFICES ASSUME takeovers = 0
               PROVE  /\ LockInv' /\ CursorInv' /\ AheadInv'
                      /\ \A r \in Subscribers : mails[r] <= 1 + crashes
    BY <1>1 DEF RepeatInv
  <2>1. \A v \in Workers : IsBusy(v) => v = w
    BY <1>5 DEF CampaignInv, RepeatInv, LockInv
  <2>2. \A v \in Workers : ~IsBusy(v)'
    BY <1>2, <2>1 DEF IsBusy
  <2>3. LockInv' /\ CursorInv'
    BY <2>2 DEF LockInv, CursorInv, IsBusy
  <2>4. AheadInv'
    <3> SUFFICES ASSUME Open', NEW r \in Subscribers, IsAhead(r)' PROVE mails[r] <= crashes
      BY <1>1 DEF AheadInv
    <3>1. campaign'.status = campaign.status
      BY <1>3 DEF Open
    <3>2. Open
      <4>1. \A v \in Workers : worker[v].pc # "throw"
        BY <1>1, <2>1 DEF IsBusy
      <4> QED
        BY <3>1, <4>1 DEF Open
    <3>3. r > worker[w].cursor /\ r \in Nat
      BY <1>3, SubscribersAre DEF IsAhead
    <3>4. campaign.cursor <= worker[w].cursor /\ campaign.cursor \in Nat
      BY <1>1, TypesUnfold DEF CampaignInv, RepeatInv, CursorInv
    <3>5. IsAhead(r)
      <4>1. r > campaign.cursor
        BY <1>1, <3>3, <3>4
      <4> QED
        BY <2>1, <3>3, <4>1 DEF IsAhead, IsBusy
    <3> QED
      BY <3>2, <3>5 DEF CampaignInv, RepeatInv, AheadInv
  <2> QED
    BY <2>3, <2>4 DEF CampaignInv, RepeatInv
<1> QED
  BY <1>4, <1>6, <1>8, <1>9 DEF CampaignInv

LEMMA ThrowStep ==
    ASSUME CampaignInv, NEW w \in Workers, BatchThrows(w)
    PROVE  CampaignInv'
<1>1. /\ IsBusy(w) /\ worker' = [worker EXCEPT ![w] = At("throw")]
      /\ UNCHANGED <<campaign, active, edit, mails, tried, owed, takeovers, crashes>>
  BY DEF BatchThrows, IsBusy, rows, history
<1>2. /\ worker' \in [Workers -> WorkerType]
      /\ worker'[w].pc = "throw"
      /\ \A v \in Workers \ {w} : worker'[v] = worker[v]
  BY <1>1, AtIs, WorkerMoves
<1>3. Types'
  BY <1>1, <1>2 DEF CampaignInv, Types
<1>4. QuietInv'
  BY <1>1 DEF CampaignInv, QuietInv, Quiet
<1>5. ReachInv'
  <2>1. OwedInv' /\ BehindInv' /\ SentReachedEveryone'
    BY <1>1 DEF CampaignInv, ReachInv, OwedInv, BehindInv, SentReachedEveryone
  <2>2. \A v \in Workers : PageInv(v)'
    <3> TAKE v \in Workers
    <3>1. CASE v = w
      BY <1>2, <3>1 DEF PageInv
    <3>2. CASE v # w
      BY <1>1, <1>2, <3>2 DEF CampaignInv, ReachInv, PageInv
    <3> QED
      BY <3>1, <3>2
  <2> QED
    BY <2>1, <2>2 DEF ReachInv
<1>6. RepeatInv'
  <2> SUFFICES ASSUME takeovers = 0
               PROVE  /\ LockInv' /\ CursorInv' /\ AheadInv'
                      /\ \A r \in Subscribers : mails[r] <= 1 + crashes
    BY <1>1 DEF RepeatInv
  <2>1. \A v \in Workers : IsBusy(v)' => IsBusy(v)
    BY <1>1, <1>2 DEF IsBusy
  <2>2. LockInv'
    BY <1>1, <2>1 DEF CampaignInv, RepeatInv, LockInv
  <2>3. CursorInv'
    BY <1>1, <1>2 DEF CampaignInv, RepeatInv, CursorInv
  <2>4. AheadInv'
    BY <1>2 DEF AheadInv, Open
  <2> QED
    BY <2>2, <2>3, <2>4 DEF CampaignInv, RepeatInv
<1> QED
  BY <1>3, <1>4, <1>5, <1>6 DEF CampaignInv

LEMMA FailStep ==
    ASSUME CampaignInv, NEW w \in Workers, FailCampaign(w)
    PROVE  CampaignInv'
<1>1. /\ IsBusy(w) /\ worker' = [worker EXCEPT ![w] = At("idle")]
      /\ UNCHANGED <<active, edit, mails, tried, owed, takeovers, crashes>>
      /\ campaign' = [campaign EXCEPT !.status = "FAILED", !.error = TRUE, !.lock = "free"]
  BY DEF FailCampaign, IsBusy, IdleWorker, history
<1>2. /\ worker' \in [Workers -> WorkerType]
      /\ worker'[w].pc = "idle"
      /\ \A v \in Workers \ {w} : worker'[v] = worker[v]
  BY <1>1, AtIs, WorkerMoves
<1>3. /\ campaign' \in CampaignType /\ campaign'.status = "FAILED"
      /\ campaign'.cursor = campaign.cursor /\ campaign'.audience = campaign.audience
  BY <1>1 DEF CampaignInv, Types, CampaignType, Statuses, Locks
<1>4. Types'
  BY <1>1, <1>2, <1>3 DEF CampaignInv, Types
<1>5. QuietInv'
  BY <1>3 DEF QuietInv, Quiet
<1>6. ReachInv'
  <2>1. OwedInv' /\ BehindInv' /\ SentReachedEveryone'
    BY <1>1, <1>3 DEF CampaignInv, ReachInv, OwedInv, BehindInv, SentReachedEveryone
  <2>2. \A v \in Workers : PageInv(v)'
    <3> TAKE v \in Workers
    <3>1. CASE v = w
      BY <1>2, <3>1 DEF PageInv
    <3>2. CASE v # w
      BY <1>1, <1>2, <3>2 DEF CampaignInv, ReachInv, PageInv
    <3> QED
      BY <3>1, <3>2
  <2> QED
    BY <2>1, <2>2 DEF ReachInv
<1>7. RepeatInv'
  <2> SUFFICES ASSUME takeovers = 0
               PROVE  /\ LockInv' /\ CursorInv' /\ AheadInv'
                      /\ \A r \in Subscribers : mails[r] <= 1 + crashes
    BY <1>1 DEF RepeatInv
  <2>1. \A v \in Workers : IsBusy(v) => v = w
    BY <1>1 DEF CampaignInv, RepeatInv, LockInv
  <2>2. \A v \in Workers : ~IsBusy(v)'
    BY <1>2, <2>1 DEF IsBusy
  <2>3. LockInv' /\ CursorInv' /\ AheadInv'
    BY <1>3, <2>2 DEF LockInv, CursorInv, AheadInv, Open, IsBusy
  <2> QED
    BY <2>3 DEF CampaignInv, RepeatInv
<1> QED
  BY <1>4, <1>5, <1>6, <1>7 DEF CampaignInv

-----------------------------------------------------------------------------
(* The invariant, and what the run checks.                                 *)

LEMMA InitInv == Init => CampaignInv
<1> SUFFICES ASSUME Init PROVE CampaignInv
  OBVIOUS
<1>1. /\ campaign \in CampaignType /\ campaign.status = "DRAFT" /\ campaign.cursor = 0
  <2>1. campaign \in [status: {"DRAFT"}, due: {FALSE}, lock: {"free"}, audience: Audiences,
                      cursor: {0}, sent: {0}, failed: {0}, error: {FALSE}]
    BY DEF Init
  <2>2. 0 \in 0..LastId /\ Audiences \subseteq SUBSET Subscribers
    BY AudienceAssumption, BatchAssumption
  <2>3. \A audience \in Audiences : audience \in SUBSET Subscribers
    BY <2>2
  <2>4. "DRAFT" \in Statuses /\ "free" \in Locks
    BY DEF Statuses, Locks
  <2>5. PICK audience \in Audiences :
          campaign = [status |-> "DRAFT", due |-> FALSE, lock |-> "free", audience |-> audience,
                      cursor |-> 0, sent |-> 0, failed |-> 0, error |-> FALSE]
    BY <2>1
  <2>6. audience \in SUBSET Subscribers
    BY <2>3
  <2> QED
    BY <2>2, <2>4, <2>5, <2>6 DEF CampaignType
<1>2. worker \in [Workers -> WorkerType] /\ \A w \in Workers : worker[w].pc = "idle"
  BY AtIs DEF Init, IdleWorker
<1>3. /\ active = Subscribers /\ edit = None /\ owed = {} /\ tried = {}
      /\ mails = [r \in Subscribers |-> 0] /\ takeovers = 0 /\ crashes = 0
  BY DEF Init
<1>4. Types
  BY <1>1, <1>2, <1>3, FaultAssumption DEF Types
<1>5. QuietInv
  BY <1>2, <1>3 DEF QuietInv, IsBusy
<1>6. ReachInv
  BY <1>1, <1>2, <1>3 DEF ReachInv, OwedInv, BehindInv, PageInv, SentReachedEveryone
<1>7. RepeatInv
  BY <1>2, <1>3 DEF RepeatInv, LockInv, CursorInv, AheadInv, IsBusy
<1> QED
  BY <1>4, <1>5, <1>6, <1>7 DEF CampaignInv

LEMMA StutterStep ==
    ASSUME CampaignInv, UNCHANGED vars
    PROVE  CampaignInv'
<1>1. UNCHANGED <<campaign, active, worker, edit, mails, tried, owed, takeovers, crashes>>
  BY DEF vars, history
<1>2. /\ campaign \in CampaignType /\ active \subseteq Subscribers
      /\ edit \in (SUBSET Subscribers) \cup {None} /\ owed \subseteq active \cap campaign.audience
  BY DEF CampaignInv, Types, ReachInv, OwedInv
<1> QED
  BY <1>1, <1>2, OfficeStep

LEMMA NextInv == CampaignInv /\ [Next]_vars => CampaignInv'
<1> SUFFICES ASSUME CampaignInv, [Next]_vars PROVE CampaignInv'
  OBVIOUS
<1>1. CASE UNCHANGED vars
  BY <1>1, StutterStep
<1>2. CASE Office
  BY <1>2, DraftStep, ScheduleStep DEF Office
<1>3. ASSUME NEW r \in Movers, Subscribe(r) \/ Unsubscribe(r)
      PROVE  CampaignInv'
  BY <1>3, SubscriberStep
<1>4. ASSUME NEW w \in Workers, ProcessDueCampaigns(w) \/ Crash(w)
      PROVE  CampaignInv'
  BY <1>4, TimerStep
<1>5. ASSUME NEW w \in Workers, Step(w)
      PROVE  CampaignInv'
  BY <1>5, ClaimStep, ReadStep, SendStep, SaveStep, ThrowStep, FailStep DEF Step
<1>6. CASE FallsDue
  BY <1>6, DraftStep
<1>7. CASE LockExpires
  BY <1>7, ExpiryStep
<1> QED
  BY <1>1, <1>2, <1>3, <1>4, <1>5, <1>6, <1>7 DEF Next

\* Lock, cursors and pages of a campaign fit together whatever stops, throws or takes
\* over (processDueCampaigns, processCampaignBatch).
THEOREM CampaignInvariant == Spec => []CampaignInv
BY InitInv, NextInv, PTL DEF Spec

\* A campaign that is SENT was tried for everyone it was owed to (processCampaignBatch
\* sets SENT when a page finds no recipient behind it).
THEOREM SentMeansEverybody == Spec => []SentReachedEveryone
<1>1. CampaignInv => SentReachedEveryone
  BY DEF CampaignInv, ReachInv
<1> QED
  BY <1>1, CampaignInvariant, PTL

\* Without a takeover a subscriber gets one mail, and one more per process that
\* stopped (the claim, and the cursor saved after the page).
THEOREM RepeatsAreBounded == Spec => []RepeatsAreLost
<1>1. CampaignInv => RepeatsAreLost
  BY DEF CampaignInv, RepeatInv, RepeatsAreLost
<1> QED
  BY <1>1, CampaignInvariant, PTL

\* A cancelled or deleted campaign sends nothing and stays so (the claim tests the
\* status again).
THEOREM CancelledStaysSilent == Spec => CancelledSendsNothing
<1> DEFINE Silent == campaign.status \in {"CANCELLED", "DELETED"}
                       => campaign'.status = campaign.status /\ mails' = mails
<1>1. ASSUME CampaignInv, [Next]_vars
      PROVE  [Silent]_vars
  <2> SUFFICES ASSUME Next, campaign.status \in {"CANCELLED", "DELETED"}
               PROVE  campaign'.status = campaign.status /\ mails' = mails
    BY <1>1
  <2>0. campaign \in CampaignType /\ \A w \in Workers : ~IsBusy(w)
    BY <1>1 DEF CampaignInv, Types, QuietInv, Quiet
  <2>1. CASE Office
    <3>1. ~DeleteDraft /\ ~ScheduleCampaign /\ ~CancelCampaign
          /\ \A audience \in Audiences : ~UpdateDraft(audience)
      BY DEF DeleteDraft, ScheduleCampaign, CancelCampaign, UpdateDraft
    <3>2. SaveDraft
      BY <2>1, <3>1 DEF Office
    <3>3. \/ campaign' = campaign
          \/ campaign' = [campaign EXCEPT !.audience = edit]
      BY <3>2 DEF SaveDraft
    <3>4. campaign'.status = campaign.status
      BY <2>0, <3>3 DEF CampaignType
    <3> QED
      BY <3>2, <3>4 DEF SaveDraft
  <2>2. ASSUME NEW r \in Movers, Subscribe(r) \/ Unsubscribe(r)
        PROVE  campaign' = campaign /\ mails' = mails
    BY <2>2 DEF Subscribe, Unsubscribe, history
  <2>3. ASSUME NEW w \in Workers, ProcessDueCampaigns(w) \/ Crash(w)
        PROVE  campaign' = campaign /\ mails' = mails
    BY <2>3 DEF ProcessDueCampaigns, Crash, rows, history
  <2>4. ASSUME NEW w \in Workers, Step(w)
        PROVE  campaign' = campaign /\ mails' = mails
    <3>1. ~ReadBatch(w) /\ ~SendMail(w) /\ ~SaveBatch(w) /\ ~BatchThrows(w) /\ ~FailCampaign(w)
      BY <2>0 DEF IsBusy, ReadBatch, SendMail, SaveBatch, BatchThrows, FailCampaign
    <3>2. Claim(w)
      BY <2>4, <3>1 DEF Step
    <3>3. ~IsDue
      BY DEF IsDue
    <3> QED
      BY <3>2, <3>3 DEF Claim, history
  <2>5. ~FallsDue
    BY DEF FallsDue
  <2>6. CASE LockExpires
    BY <2>0, <2>6 DEF LockExpires, CampaignType
  <2> QED
    BY <2>1, <2>2, <2>3, <2>4, <2>5, <2>6 DEF Next
<1> QED
  BY <1>1, CampaignInvariant, PTL DEF Spec, CancelledSendsNothing

-----------------------------------------------------------------------------
(* The counters.                                                           *)

Reached == {r \in Subscribers : mails[r] > 0}

\* Counters that tell what happened, and a cursor past whoever was tried.
Tell(counts) ==
    /\ counts.sent = Cardinality(Reached)
    /\ counts.sent + counts.failed = Cardinality(tried)
    /\ \A r \in tried : r <= counts.cursor

Sending(w) == worker[w].pc = "send"
Throwing(w) == worker[w].pc = "throw"

\* The counts of the batch under way are those of the campaign; when none is, and none
\* was given up, those of the row are.
CountsTell ==
    /\ campaign.error => campaign.status = "FAILED"
    /\ \A w \in Workers : Sending(w) => Tell(worker[w])
    /\ campaign.error \/ Tell(campaign) \/ \E w \in Workers : Sending(w) \/ Throwing(w)

CountInv ==
    /\ Reached \subseteq tried
    /\ Quiet => tried = {}
    /\ takeovers + crashes = 0 => CountsTell

LEMMA NoLoss ==
    ASSUME CampaignInv, takeovers + crashes = 0
    PROVE  takeovers = 0 /\ crashes = 0 /\ LockInv
<1>1. takeovers \in Nat /\ crashes \in Nat
  BY TypesUnfold DEF CampaignInv
<1>2. takeovers = 0 /\ crashes = 0
  BY <1>1
<1> QED
  BY <1>2 DEF CampaignInv, RepeatInv

\* Losses stay.
LEMMA LossesStay ==
    ASSUME CampaignInv, [Next]_vars, takeovers' + crashes' = 0
    PROVE  takeovers + crashes = 0 /\ UNCHANGED <<takeovers, crashes>>
<1>1. takeovers \in Nat /\ crashes \in Nat
  BY TypesUnfold DEF CampaignInv
<1>2. takeovers' \in {takeovers, takeovers + 1} /\ crashes' \in {crashes, crashes + 1}
  BY DEF Next, Office, Step, vars, history, UpdateDraft, SaveDraft, DeleteDraft, ScheduleCampaign,
         CancelCampaign, Subscribe, Unsubscribe, ProcessDueCampaigns, Claim, ReadBatch, SendMail,
         SaveBatch, BatchThrows, FailCampaign, Crash, FallsDue, LockExpires
<1>3. /\ takeovers' = takeovers \/ takeovers' = takeovers + 1
      /\ crashes' = crashes \/ crashes' = crashes + 1
  BY <1>2
<1>4. takeovers' = 0 /\ crashes' = 0 /\ takeovers = 0 /\ crashes = 0
  BY <1>1, <1>3
<1> QED
  BY <1>4

\* A step that no count notices: it mails nobody, changes no counter and no cursor, and
\* starts or ends no batch.
CountsQuietly ==
    /\ UNCHANGED <<mails, tried>>
    /\ campaign'.sent = campaign.sent /\ campaign'.failed = campaign.failed
    /\ campaign'.cursor = campaign.cursor
    /\ campaign'.error = campaign.error
    /\ campaign.status = "FAILED" => campaign'.status = "FAILED"
    /\ \A w \in Workers :
        \/ worker'[w] = worker[w]
        \/ worker[w].pc \notin {"send", "throw"} /\ worker'[w].pc \notin {"send", "throw"}

LEMMA CountsQuietStep ==
    ASSUME CampaignInv, CountInv, [Next]_vars, CountsQuietly, Quiet' => Quiet
    PROVE  CountInv'
<1>1. Reached' = Reached
  BY DEF CountsQuietly, Reached
<1>2. \A w \in Workers : /\ Sending(w)' <=> Sending(w)
                         /\ Throwing(w)' <=> Throwing(w)
                         /\ Sending(w) => worker'[w] = worker[w]
  BY DEF CountsQuietly, Sending, Throwing
<1>3. ASSUME takeovers' + crashes' = 0
      PROVE  CountsTell'
  <2>1. CountsTell
    BY <1>3, LossesStay DEF CountInv
  <2>2. Tell(campaign)' <=> Tell(campaign)
    BY <1>1 DEF CountsQuietly, Tell
  <2>3. \A w \in Workers : Sending(w)' => Tell(worker[w])'
    BY <1>1, <1>2, <2>1 DEF CountsQuietly, CountsTell, Tell
  <2> QED
    BY <1>2, <2>1, <2>2, <2>3 DEF CountsTell, CountsQuietly
<1> QED
  BY <1>1, <1>3 DEF CountInv, CountsQuietly

LEMMA WorkersAre ==
    ASSUME CampaignInv, NEW w \in Workers
    PROVE  /\ worker[w] \in WorkerType
           /\ \A pc \in {"idle", "claim", "read", "throw"} :
                worker' = [worker EXCEPT ![w] = At(pc)] =>
                    /\ worker'[w].pc = pc
                    /\ \A v \in Workers \ {w} : worker'[v] = worker[v]
<1>1. worker \in [Workers -> WorkerType]
  BY DEF CampaignInv, Types
<1>2. ASSUME NEW pc \in {"idle", "claim", "read", "throw"}, worker' = [worker EXCEPT ![w] = At(pc)]
      PROVE  /\ worker'[w].pc = pc
             /\ \A v \in Workers \ {w} : worker'[v] = worker[v]
  BY <1>2, AtIs, WorkerMoves
<1> QED
  BY <1>1, <1>2

\* The steps outside the batch.
LEMMA CountsAside ==
    ASSUME CampaignInv, CountInv, [Next]_vars,
           \/ UNCHANGED vars
           \/ \E audience \in Audiences : UpdateDraft(audience)
           \/ SaveDraft \/ DeleteDraft \/ CancelCampaign \/ FallsDue \/ LockExpires
           \/ \E r \in Movers : Subscribe(r) \/ Unsubscribe(r)
           \/ \E w \in Workers : ProcessDueCampaigns(w) \/ Claim(w)
    PROVE  CountInv'
<1>0. campaign \in CampaignType
  BY DEF CampaignInv, Types
<1>1. ASSUME NEW w \in Workers, ProcessDueCampaigns(w) \/ Claim(w)
      PROVE  CountInv'
  <2>1. /\ worker[w].pc \in {"idle", "claim"}
        /\ \E pc \in {"idle", "claim", "read"} : worker' = [worker EXCEPT ![w] = At(pc)]
        /\ UNCHANGED <<mails, tried>>
    BY <1>1 DEF ProcessDueCampaigns, Claim, IdleWorker, history
  <2>2. /\ worker'[w].pc \in {"idle", "claim", "read"}
        /\ \A v \in Workers \ {w} : worker'[v] = worker[v]
    BY <2>1, WorkersAre
  <2>3. \/ campaign' = campaign
        \/ campaign' = [campaign EXCEPT !.status = "SENDING", !.lock = "held"] /\ IsDue
    BY <1>1 DEF ProcessDueCampaigns, Claim, rows
  <2>4. /\ campaign'.sent = campaign.sent /\ campaign'.failed = campaign.failed
        /\ campaign'.cursor = campaign.cursor /\ campaign'.error = campaign.error
        /\ \/ campaign'.status = campaign.status
           \/ campaign'.status = "SENDING" /\ campaign.status \in {"SCHEDULED", "SENDING"}
    <3>1. CASE campaign' = campaign
      BY <3>1
    <3>2. CASE campaign' = [campaign EXCEPT !.status = "SENDING", !.lock = "held"] /\ IsDue
      <4>1. /\ campaign'.sent = campaign.sent /\ campaign'.failed = campaign.failed
            /\ campaign'.cursor = campaign.cursor /\ campaign'.error = campaign.error
            /\ campaign'.status = "SENDING"
        BY <1>0, <3>2 DEF CampaignType
      <4> QED
        BY <3>2, <4>1 DEF IsDue
    <3> QED
      BY <2>3, <3>1, <3>2
  <2>5. CountsQuietly
    BY <2>1, <2>2, <2>4 DEF CountsQuietly
  <2>6. Quiet' => Quiet
    BY <2>4 DEF Quiet
  <2> QED
    BY <2>5, <2>6, CountsQuietStep
<1>2. ASSUME UNCHANGED <<worker, mails, tried>>,
             \/ campaign' = campaign
             \/ campaign' = [campaign EXCEPT !.audience = edit]
             \/ \E status \in {"DELETED", "CANCELLED"} :
                    campaign.status \in {"DRAFT", "SCHEDULED"}
                    /\ campaign' = [campaign EXCEPT !.status = status]
             \/ campaign' = [campaign EXCEPT !.due = TRUE]
             \/ campaign' = [campaign EXCEPT !.lock = "expired"]
      PROVE  CountInv'
  <2>1. /\ campaign'.sent = campaign.sent /\ campaign'.failed = campaign.failed
        /\ campaign'.cursor = campaign.cursor /\ campaign'.error = campaign.error
        /\ campaign'.status = campaign.status \/ campaign.status \in {"DRAFT", "SCHEDULED"}
    BY <1>0, <1>2 DEF CampaignType
  <2>2. CountsQuietly
    BY <1>2, <2>1 DEF CountsQuietly
  <2>3. Quiet' => Quiet
    BY <2>1 DEF Quiet
  <2> QED
    BY <2>2, <2>3, CountsQuietStep
<1>3. CASE UNCHANGED vars \/ \E audience \in Audiences : UpdateDraft(audience)
  BY <1>2, <1>3 DEF vars, history, rows, UpdateDraft
<1>4. CASE SaveDraft \/ DeleteDraft \/ CancelCampaign \/ FallsDue \/ LockExpires
  BY <1>2, <1>4 DEF history, SaveDraft, DeleteDraft, CancelCampaign, FallsDue, LockExpires
<1>5. CASE \E r \in Movers : Subscribe(r) \/ Unsubscribe(r)
  BY <1>2, <1>5 DEF history, Subscribe, Unsubscribe
<1> QED
  BY <1>1, <1>3, <1>4, <1>5

LEMMA CountsSchedule ==
    ASSUME CampaignInv, CountInv, [Next]_vars, ScheduleCampaign
    PROVE  CountInv'
<1>1. /\ UNCHANGED <<worker, mails, tried>> /\ Quiet
      /\ campaign' = [campaign EXCEPT !.status = "SCHEDULED", !.cursor = 0, !.sent = 0,
                                      !.failed = 0, !.lock = "free", !.error = FALSE]
  BY DEF ScheduleCampaign, Quiet
<1>2. /\ campaign'.sent = 0 /\ campaign'.failed = 0 /\ campaign'.error = FALSE
  <2>1. campaign \in CampaignType
    BY DEF CampaignInv, Types
  <2> QED
    BY <1>1, <2>1 DEF CampaignType
<1>3. tried = {} /\ Reached = {} /\ Reached' = Reached
  BY <1>1 DEF CountInv, Reached
<1>4. Tell(campaign)'
  BY <1>1, <1>2, <1>3, FS_EmptySet DEF Tell
<1>5. \A w \in Workers : ~Sending(w)'
  BY <1>1 DEF CampaignInv, QuietInv, IsBusy, Sending
<1> QED
  BY <1>1, <1>2, <1>3, <1>4, <1>5 DEF CountInv, CountsTell

\* The batch takes its counts from the row.
LEMMA CountsRead ==
    ASSUME CampaignInv, CountInv, [Next]_vars, NEW w \in Workers, ReadBatch(w)
    PROVE  CountInv'
<1> DEFINE batch == [pc |-> "send", page |-> FirstIds(Waiting, BatchSize),
                     more |-> Cardinality(Waiting) > BatchSize, cursor |-> campaign.cursor,
                     sent |-> campaign.sent, failed |-> campaign.failed]
<1>1. /\ worker[w].pc = "read" /\ worker' = [worker EXCEPT ![w] = batch]
      /\ UNCHANGED <<campaign, mails, tried>>
  BY DEF ReadBatch, rows, history
<1>2. worker'[w] = batch /\ \A v \in Workers \ {w} : worker'[v] = worker[v]
  BY <1>1 DEF CampaignInv, Types
<1>3. /\ worker'[w].sent = campaign.sent /\ worker'[w].failed = campaign.failed
      /\ worker'[w].cursor = campaign.cursor /\ worker'[w].pc = "send"
  BY <1>2
<1> HIDE DEF batch
<1>4. Reached' = Reached /\ Quiet' = Quiet
  BY <1>1 DEF Reached, Quiet
<1>5. ASSUME takeovers' + crashes' = 0
      PROVE  CountsTell'
  <2>1. CountsTell /\ LockInv
    BY <1>5, LossesStay, NoLoss DEF CountInv
  <2>2. IsBusy(w) /\ (\A v \in Workers : IsBusy(v) => v = w) /\ campaign.status = "SENDING"
    BY <1>1, <2>1 DEF LockInv, IsBusy
  <2>3. \A v \in Workers : ~Sending(v) /\ ~Throwing(v)
    BY <1>1, <2>2 DEF IsBusy, Sending, Throwing
  <2>4. Tell(campaign) /\ ~campaign.error
    BY <2>1, <2>2, <2>3 DEF CountsTell
  <2>5. Tell(worker[w])'
    BY <1>1, <1>3, <1>4, <2>4 DEF Tell
  <2>6. \A v \in Workers : Sending(v)' => v = w
    BY <1>2, <2>3 DEF Sending
  <2>7. Sending(w)'
    BY <1>3 DEF Sending
  <2> QED
    BY <1>1, <2>4, <2>5, <2>6, <2>7 DEF CountsTell
<1> QED
  BY <1>1, <1>4, <1>5 DEF CountInv

\* A mail is one attempt more, and one mail more if it is accepted.
LEMMA CountsSend ==
    ASSUME CampaignInv, CountInv, [Next]_vars, NEW w \in Workers, SendMail(w)
    PROVE  CountInv'
<1> DEFINE r == Min(worker[w].page)
<1>1. /\ worker[w] \in WorkerType /\ worker[w].pc = "send" /\ worker[w].page # {}
      /\ mails \in [Subscribers -> Nat] /\ tried \subseteq Subscribers
  BY WorkersAre DEF SendMail, CampaignInv, Types
<1>2. r \in worker[w].page /\ r \in Subscribers /\ r \in Nat
  <2>1. worker[w].page \in SUBSET Subscribers
    BY <1>1 DEF WorkerType
  <2>2. worker[w].page \in SUBSET Nat
    BY <2>1, SubscribersAre
  <2>3. r \in worker[w].page
    BY <1>1, <2>2, Least
  <2> QED
    BY <2>1, <2>2, <2>3
<1>3. PICK accepted \in {0, 1} :
        /\ tried' = tried \cup {r}
        /\ mails' = [mails EXCEPT ![r] = @ + accepted]
        /\ worker' = [worker EXCEPT ![w] = Mailed(worker[w], r, accepted)]
  BY DEF SendMail
<1>4. campaign' = campaign
  BY DEF SendMail, rows
<1> HIDE DEF r
<1>5. /\ worker'[w] = Mailed(worker[w], r, accepted)
      /\ \A v \in Workers \ {w} : worker'[v] = worker[v]
  BY <1>3 DEF CampaignInv, Types
<1>6. /\ worker'[w].pc = "send" /\ worker'[w].cursor = r
      /\ worker'[w].sent = worker[w].sent + accepted
      /\ worker'[w].failed = worker[w].failed + (1 - accepted)
  BY <1>5 DEF Mailed
<1>7. Reached' \subseteq tried' /\ (mails[r] = 0 =>
        Reached' = IF accepted = 1 THEN Reached \cup {r} ELSE Reached)
  <2>1. /\ mails'[r] = mails[r] + accepted /\ mails[r] \in Nat
        /\ \A q \in Subscribers \ {r} : mails'[q] = mails[q]
    BY <1>1, <1>2, <1>3
  <2>2. Reached' = {q \in Subscribers : mails'[q] > 0}
    BY DEF Reached
  <2>3. \A q \in Subscribers \ {r} : q \in Reached' <=> q \in Reached
    BY <2>1, <2>2 DEF Reached
  <2>4. mails[r] = 0 => (r \in Reached' <=> accepted = 1) /\ r \notin Reached
    BY <1>2, <2>1, <2>2 DEF Reached
  <2>5. Reached' \subseteq Subscribers /\ Reached \subseteq Subscribers
    BY <2>2 DEF Reached
  <2>6. Reached' \subseteq tried'
    BY <1>3, <2>3, <2>5 DEF CountInv
  <2>7. ASSUME mails[r] = 0
        PROVE  Reached' = IF accepted = 1 THEN Reached \cup {r} ELSE Reached
    BY <1>2, <2>3, <2>4, <2>5, <2>7
  <2> QED
    BY <2>6, <2>7
<1>8. ~Quiet'
  BY <1>1, <1>4 DEF CampaignInv, QuietInv, Quiet, IsBusy
<1>9. ASSUME takeovers' + crashes' = 0
      PROVE  CountsTell'
  <2>1. CountsTell /\ LockInv
    BY <1>9, LossesStay, NoLoss DEF CountInv
  <2>2. (\A v \in Workers : IsBusy(v) => v = w) /\ campaign.status = "SENDING"
    BY <1>1, <2>1 DEF LockInv, IsBusy
  <2>3. Tell(worker[w])
    BY <1>1, <2>1 DEF CountsTell, Sending
  <2>4. r > worker[w].cursor /\ worker[w].cursor \in Nat
    <3>1. worker[w].cursor \in Nat
      BY <1>1, BatchAssumption DEF WorkerType
    <3>2. worker[w].cursor < r
      BY <1>1, <1>2 DEF CampaignInv, ReachInv, PageInv
    <3> QED
      BY <1>2, <3>1, <3>2
  <2>5. \A q \in tried : q <= worker[w].cursor /\ q \in Nat
    BY <1>1, <2>3, SubscribersAre DEF Tell
  <2>6. r \notin tried
    BY <1>2, <2>4, <2>5
  <2>7. mails[r] = 0 /\ r \notin Reached
    <3>1. r \notin Reached
      BY <2>6 DEF CountInv
    <3>2. mails[r] \in Nat /\ ~(mails[r] > 0)
      BY <1>1, <1>2, <3>1 DEF Reached
    <3> QED
      BY <3>1, <3>2
  <2>8. IsFiniteSet(tried) /\ IsFiniteSet(Reached)
    BY <1>1, SubscribersAre, FS_Subset DEF Reached
  <2>9. Cardinality(tried') = Cardinality(tried) + 1
    BY <1>3, <2>6, <2>8, FS_AddElement
  <2>10. Cardinality(Reached') = Cardinality(Reached) + accepted
    <3>0. Cardinality(Reached) \in Nat
      BY <2>8, FS_CardinalityType
    <3>1. CASE accepted = 1
      BY <1>7, <2>7, <2>8, <3>1, FS_AddElement
    <3>2. CASE accepted = 0
      BY <1>7, <2>7, <3>0, <3>2
    <3> QED
      BY <3>1, <3>2
  <2>11. Tell(worker[w])'
    <3>1. worker'[w].sent = Cardinality(Reached')
      BY <1>6, <2>3, <2>10 DEF Tell
    <3>2. worker'[w].sent + worker'[w].failed = Cardinality(tried')
      <4>1. worker[w].sent \in Nat /\ worker[w].failed \in Nat
        BY <1>1 DEF WorkerType
      <4>2. worker[w].sent + worker[w].failed = Cardinality(tried)
        BY <2>3 DEF Tell
      <4> QED
        BY <1>6, <2>9, <4>1, <4>2
    <3>3. \A q \in tried' : q <= worker'[w].cursor
      <4>1. ASSUME NEW q \in tried' PROVE q <= r
        <5>1. CASE q \in tried
          BY <1>2, <2>4, <2>5, <5>1
        <5>2. CASE q = r
          BY <1>2, <5>2
        <5> QED
          BY <1>3, <5>1, <5>2
      <4> QED
        BY <1>6, <4>1
    <3> QED
      BY <3>1, <3>2, <3>3 DEF Tell
  <2>12. \A v \in Workers : Sending(v)' => v = w
    BY <1>5, <2>2 DEF Sending, IsBusy
  <2>13. Sending(w)'
    BY <1>6 DEF Sending
  <2> QED
    BY <1>4, <2>1, <2>2, <2>11, <2>12, <2>13 DEF CountsTell
<1> QED
  BY <1>7, <1>8, <1>9 DEF CountInv

\* The row takes its counts from the batch.
LEMMA CountsSave ==
    ASSUME CampaignInv, CountInv, [Next]_vars, NEW w \in Workers, SaveBatch(w)
    PROVE  CountInv'
<1>1. /\ worker[w].pc = "send" /\ worker' = [worker EXCEPT ![w] = At("idle")]
      /\ UNCHANGED <<mails, tried>>
  BY DEF SaveBatch, IdleWorker, history
<1>2. worker'[w].pc = "idle" /\ \A v \in Workers \ {w} : worker'[v] = worker[v]
  BY <1>1, WorkersAre
<1>3. /\ campaign'.sent = worker[w].sent /\ campaign'.failed = worker[w].failed
      /\ campaign'.cursor = worker[w].cursor /\ campaign'.error = campaign.error
      /\ campaign'.status \in {campaign.status, "SENT", "FAILED"}
  <2>1. campaign \in CampaignType
    BY DEF CampaignInv, Types
  <2>2. /\ Counted(w).sent = worker[w].sent /\ Counted(w).failed = worker[w].failed
        /\ Counted(w).cursor = worker[w].cursor /\ Counted(w).error = campaign.error
        /\ Counted(w).status = campaign.status /\ DOMAIN Counted(w) = DOMAIN campaign
        /\ Counted(w) = [x \in DOMAIN Counted(w) |-> Counted(w)[x]]
    BY <2>1 DEF Counted, CampaignType
  <2>3. \/ campaign' = Counted(w)
        \/ \E status \in {"SENT", "FAILED"} : campaign' = [Counted(w) EXCEPT !.status = status]
    BY DEF SaveBatch
  <2>4. "sent" \in DOMAIN campaign /\ "failed" \in DOMAIN campaign /\ "cursor" \in DOMAIN campaign
        /\ "error" \in DOMAIN campaign /\ "status" \in DOMAIN campaign
    BY <2>1 DEF CampaignType
  <2>5. CASE campaign' = Counted(w)
    BY <2>2, <2>5
  <2>6. ASSUME NEW status \in {"SENT", "FAILED"}, campaign' = [Counted(w) EXCEPT !.status = status]
        PROVE  /\ campaign'.sent = worker[w].sent /\ campaign'.failed = worker[w].failed
               /\ campaign'.cursor = worker[w].cursor /\ campaign'.error = campaign.error
               /\ campaign'.status \in {"SENT", "FAILED"}
    BY <2>2, <2>4, <2>6
  <2> QED
    BY <2>3, <2>5, <2>6
<1>4. Reached' = Reached
  BY <1>1 DEF Reached
<1>5. ~Quiet'
  BY <1>1, <1>3 DEF CampaignInv, QuietInv, Quiet, IsBusy
<1>6. ASSUME takeovers' + crashes' = 0
      PROVE  CountsTell'
  <2>1. CountsTell /\ LockInv
    BY <1>6, LossesStay, NoLoss DEF CountInv
  <2>2. (\A v \in Workers : IsBusy(v) => v = w) /\ campaign.status = "SENDING"
    BY <1>1, <2>1 DEF LockInv, IsBusy
  <2>3. Tell(worker[w]) /\ ~campaign.error
    BY <1>1, <2>1, <2>2 DEF CountsTell, Sending
  <2>4. Tell(campaign)'
    BY <1>1, <1>3, <1>4, <2>3 DEF Tell
  <2>5. \A v \in Workers : ~Sending(v)'
    BY <1>2, <2>2 DEF Sending, IsBusy
  <2> QED
    BY <1>3, <2>3, <2>4, <2>5 DEF CountsTell
<1> QED
  BY <1>1, <1>4, <1>5, <1>6 DEF CountInv

\* A batch that is given up leaves the row with an error.
LEMMA CountsThrow ==
    ASSUME CampaignInv, CountInv, [Next]_vars, NEW w \in Workers, BatchThrows(w) \/ FailCampaign(w)
    PROVE  CountInv'
<1>1. IsBusy(w) /\ UNCHANGED <<mails, tried>>
  BY DEF BatchThrows, FailCampaign, IsBusy, rows, history
<1>2. Reached' = Reached
  BY <1>1 DEF Reached
<1>3. ~Quiet
  BY <1>1 DEF CampaignInv, QuietInv
<1>4. \/ worker' = [worker EXCEPT ![w] = At("throw")] /\ campaign' = campaign
      \/ /\ worker' = [worker EXCEPT ![w] = At("idle")]
         /\ campaign' = [campaign EXCEPT !.status = "FAILED", !.error = TRUE, !.lock = "free"]
  BY DEF BatchThrows, FailCampaign, IdleWorker, rows
<1>5. /\ worker'[w].pc \in {"throw", "idle"} /\ \A v \in Workers \ {w} : worker'[v] = worker[v]
      /\ \/ worker'[w].pc = "throw" /\ campaign' = campaign
         \/ campaign'.status = "FAILED" /\ campaign'.error
  <2>1. campaign \in CampaignType
    BY DEF CampaignInv, Types
  <2>2. CASE worker' = [worker EXCEPT ![w] = At("throw")] /\ campaign' = campaign
    BY <2>2, WorkersAre
  <2>3. CASE /\ worker' = [worker EXCEPT ![w] = At("idle")]
             /\ campaign' = [campaign EXCEPT !.status = "FAILED", !.error = TRUE, !.lock = "free"]
    <3>1. campaign'.status = "FAILED" /\ campaign'.error
      BY <2>1, <2>3 DEF CampaignType
    <3> QED
      BY <2>3, <3>1, WorkersAre
  <2> QED
    BY <1>4, <2>2, <2>3
<1>6. ~Quiet'
  BY <1>3, <1>5 DEF Quiet
<1>7. ASSUME takeovers' + crashes' = 0
      PROVE  CountsTell'
  <2>1. CountsTell /\ LockInv
    BY <1>7, LossesStay, NoLoss DEF CountInv
  <2>2. \A v \in Workers : IsBusy(v) => v = w
    BY <1>1, <2>1 DEF LockInv
  <2>3. \A v \in Workers : ~Sending(v)'
    BY <1>5, <2>2 DEF Sending, IsBusy
  <2>4. Throwing(w)' \/ campaign'.error
    BY <1>5 DEF Throwing
  <2>5. campaign'.error => campaign'.status = "FAILED"
    BY <1>5, <2>1 DEF CountsTell
  <2> QED
    BY <2>3, <2>4, <2>5 DEF CountsTell
<1> QED
  BY <1>1, <1>2, <1>6, <1>7 DEF CountInv

\* After a crash nothing is claimed of the counts.
LEMMA CountsCrash ==
    ASSUME CampaignInv, CountInv, [Next]_vars, NEW w \in Workers, Crash(w)
    PROVE  CountInv'
<1>1. UNCHANGED <<campaign, mails, tried>> /\ crashes' = crashes + 1
  BY DEF Crash, rows
<1>2. ~(takeovers' + crashes' = 0)
  <2>1. crashes \in Nat
    BY TypesUnfold DEF CampaignInv
  <2>2. takeovers' + crashes' = 0 => crashes' = crashes
    BY LossesStay
  <2> QED
    BY <1>1, <2>1, <2>2
<1> QED
  BY <1>1, <1>2 DEF CountInv, Reached, Quiet

LEMMA CountNext ==
    ASSUME CampaignInv, CountInv, [Next]_vars
    PROVE  CountInv'
<1>1. CASE UNCHANGED vars
  BY <1>1, CountsAside
<1>2. CASE Office
  BY <1>2, CountsAside, CountsSchedule DEF Office
<1>3. CASE (\E r \in Movers : Subscribe(r) \/ Unsubscribe(r)) \/ FallsDue \/ LockExpires
  BY <1>3, CountsAside
<1>4. ASSUME NEW w \in Workers, ProcessDueCampaigns(w) \/ Step(w) \/ Crash(w)
      PROVE  CountInv'
  BY <1>4, CountsAside, CountsRead, CountsSend, CountsSave, CountsThrow, CountsCrash DEF Step
<1> QED
  BY <1>1, <1>2, <1>3, <1>4 DEF Next

LEMMA CountInitially ==
    ASSUME Init
    PROVE  CountInv
<1>1. /\ campaign.sent = 0 /\ campaign.failed = 0 /\ campaign.error = FALSE
      /\ tried = {} /\ mails = [r \in Subscribers |-> 0]
      /\ worker = [w \in Workers |-> IdleWorker]
  BY DEF Init
<1>2. Reached = {}
  BY <1>1 DEF Reached
<1>3. Tell(campaign)
  BY <1>1, <1>2, FS_EmptySet DEF Tell
<1>4. \A w \in Workers : ~Sending(w)
  BY <1>1 DEF Sending, IdleWorker, At
<1> QED
  BY <1>1, <1>2, <1>3, <1>4 DEF CountInv, CountsTell

\* Without a takeover and a crash a closed campaign tells what it did
\* (processCampaignBatch).
THEOREM CountersTellTheTruth == Spec => []CountsAreTrue
<1>1. Init => CountInv
  BY CountInitially
<1>2. CampaignInv /\ CountInv /\ [Next]_vars => CountInv'
  BY CountNext
<1>3. CampaignInv /\ CountInv => CountsAreTrue
  <2> SUFFICES ASSUME CampaignInv, CountInv, takeovers + crashes = 0, ~campaign.error,
                      campaign.status \in {"SENT", "FAILED"}
               PROVE  /\ campaign.sent = Cardinality(Reached)
                      /\ campaign.sent + campaign.failed = Cardinality(tried)
    BY DEF CountsAreTrue, Reached
  <2>1. CountsTell /\ LockInv
    BY NoLoss DEF CountInv
  <2>2. \A w \in Workers : ~Sending(w) /\ ~Throwing(w)
    BY <2>1 DEF LockInv, IsBusy, Sending, Throwing
  <2> QED
    BY <2>1, <2>2 DEF CountsTell, Tell
<1> QED
  BY <1>1, <1>2, <1>3, CampaignInvariant, PTL DEF Spec

-----------------------------------------------------------------------------
(* The size of a page.                                                     *)

\* A set of subscribers has a largest member.
LEMMA Largest ==
    ASSUME NEW S \in SUBSET Subscribers, S # {}
    PROVE  \E x \in S : \A y \in S : y <= x
<1> DEFINE Above == {n \in Nat : \A y \in S : y <= n}
<1>1. S \subseteq Nat /\ LastId \in Nat
  BY SubscribersAre, BatchAssumption
<1>2. LastId \in Above
  BY <1>1 DEF Subscribers
<1>3. Above \in SUBSET Nat /\ Above # {}
  BY <1>2
<1> DEFINE x == Min(Above)
<1>4. x \in Above /\ \A n \in Above : x <= n
  BY <1>3, Least
<1> HIDE DEF x
<1>5. x \in Nat /\ \A y \in S : y <= x
  BY <1>4
<1>6. ASSUME x \notin S PROVE FALSE
  <2>1. \A y \in S : y <= x - 1 /\ y # x
    BY <1>1, <1>5, <1>6
  <2>2. x - 1 \in Nat
    <3>1. PICK y \in S : TRUE
      OBVIOUS
    <3>2. y \in Nat /\ y <= x - 1
      BY <1>1, <2>1
    <3> QED
      BY <1>5, <3>2
  <2>3. x - 1 \in Above
    BY <2>1, <2>2
  <2> QED
    BY <1>4, <1>5, <2>3
<1> QED
  BY <1>5, <1>6

\* The first n ids are at most n.
LEMMA FirstIdsAreFew ==
    ASSUME NEW ids \in SUBSET Subscribers, NEW n \in Nat
    PROVE  Cardinality(FirstIds(ids, n)) <= n
<1>1. FirstIds(ids, n) \in SUBSET Subscribers
  BY FirstIdsAre
<1>2. CASE FirstIds(ids, n) = {}
  BY <1>2, FS_EmptySet
<1>3. CASE FirstIds(ids, n) # {}
  <2>1. PICK x \in FirstIds(ids, n) : \A y \in FirstIds(ids, n) : y <= x
    BY <1>1, <1>3, Largest
  <2> DEFINE upto == {q \in ids : q <= x}
  <2>2. Cardinality(upto) <= n
    BY <2>1 DEF FirstIds
  <2>3. FirstIds(ids, n) \in SUBSET upto
    BY <2>1, FirstIdsAre
  <2>4. upto \in SUBSET Subscribers
    OBVIOUS
  <2> HIDE DEF upto
  <2>5. IsFiniteSet(upto)
    BY <2>4, SubscribersAre, FS_Subset
  <2>6. /\ Cardinality(FirstIds(ids, n)) <= Cardinality(upto)
        /\ Cardinality(FirstIds(ids, n)) \in Nat /\ Cardinality(upto) \in Nat
    BY <2>3, <2>5, FS_Subset, FS_CardinalityType
  <2> QED
    BY <2>2, <2>6
<1> QED
  BY <1>2, <1>3

PageSizes == \A w \in Workers : Cardinality(worker[w].page) <= BatchSize

\* A page is read, is worked off, or is dropped.
LEMMA PagesStep ==
    ASSUME CampaignInv, [Next]_vars, NEW w \in Workers
    PROVE  \/ worker'[w].page \subseteq worker[w].page
           \/ worker'[w].page = FirstIds(Waiting, BatchSize)
<1>1. worker \in [Workers -> WorkerType]
  BY DEF CampaignInv, Types
<1>2. ASSUME NEW v \in Workers, \E pc : worker' = [worker EXCEPT ![v] = At(pc)]
      PROVE  worker'[w].page \subseteq worker[w].page
  BY <1>1, <1>2 DEF At
<1>3. ASSUME worker' = worker
      PROVE  worker'[w].page \subseteq worker[w].page
  BY <1>3
<1>4. ASSUME NEW v \in Workers, ReadBatch(v)
      PROVE  \/ worker'[w].page \subseteq worker[w].page
             \/ worker'[w].page = FirstIds(Waiting, BatchSize)
  BY <1>1, <1>4 DEF ReadBatch
<1>5. ASSUME NEW v \in Workers, SendMail(v)
      PROVE  worker'[w].page \subseteq worker[w].page
  BY <1>1, <1>5 DEF SendMail, Mailed
<1>6. ASSUME NEW v \in Workers,
             \/ ProcessDueCampaigns(v) \/ Claim(v) \/ SaveBatch(v) \/ BatchThrows(v)
             \/ FailCampaign(v) \/ Crash(v)
      PROVE  \E pc : worker' = [worker EXCEPT ![v] = At(pc)]
  BY <1>6 DEF ProcessDueCampaigns, Claim, SaveBatch, BatchThrows, FailCampaign, Crash, IdleWorker
<1>7. CASE UNCHANGED vars \/ Office \/ FallsDue \/ LockExpires
           \/ \E r \in Movers : Subscribe(r) \/ Unsubscribe(r)
  <2>1. worker' = worker
    BY <1>7 DEF vars, Office, UpdateDraft, SaveDraft, DeleteDraft, ScheduleCampaign,
                CancelCampaign, FallsDue, LockExpires, Subscribe, Unsubscribe
  <2> QED
    BY <1>3, <2>1
<1> QED
  BY <1>2, <1>4, <1>5, <1>6, <1>7 DEF Next, Step

LEMMA PageSizesStep ==
    ASSUME CampaignInv, PageSizes, [Next]_vars
    PROVE  PageSizes'
<1>1. Waiting \in SUBSET Subscribers /\ BatchSize \in Nat
  BY BatchAssumption DEF Waiting, CampaignInv, Types
<1>2. ASSUME NEW w \in Workers
      PROVE  Cardinality(worker'[w].page) <= BatchSize
  <2>1. CASE worker'[w].page = FirstIds(Waiting, BatchSize)
    BY <1>1, <2>1, FirstIdsAreFew
  <2>2. CASE worker'[w].page \subseteq worker[w].page
    <3>1. worker[w].page \in SUBSET Subscribers
      BY WorkersAre DEF WorkerType
    <3>2. IsFiniteSet(worker[w].page)
      BY <3>1, SubscribersAre, FS_Subset
    <3>3. /\ Cardinality(worker'[w].page) <= Cardinality(worker[w].page)
          /\ Cardinality(worker'[w].page) \in Nat /\ Cardinality(worker[w].page) \in Nat
      BY <2>2, <3>2, FS_Subset, FS_CardinalityType
    <3>4. Cardinality(worker[w].page) <= BatchSize
      BY DEF PageSizes
    <3> QED
      BY <1>1, <3>3, <3>4
  <2> QED
    BY <2>1, <2>2, PagesStep
<1> QED
  BY <1>2 DEF PageSizes

\* Types; and a page is never larger than CAMPAIGN_BATCH_SIZE, although one recipient
\* more is read (processCampaignBatch).
THEOREM CampaignTypes == Spec => []TypeOK
<1>1. Init => PageSizes
  <2>1. Init => \A w \in Workers : worker[w].page = {}
    BY DEF Init, IdleWorker, At
  <2>2. Cardinality({}) <= BatchSize
    BY FS_EmptySet, BatchAssumption
  <2> QED
    BY <2>1, <2>2 DEF PageSizes
<1>2. CampaignInv /\ PageSizes /\ [Next]_vars => PageSizes'
  BY PageSizesStep
<1>3. CampaignInv /\ PageSizes => TypeOK
  BY DEF CampaignInv, Types, CampaignType, WorkerType, PageSizes, TypeOK
<1> QED
  BY <1>1, <1>2, <1>3, CampaignInvariant, PTL DEF Spec
===============================================================================
