--------------------------- MODULE BookingState ---------------------------
(***************************************************************************)
(* The database rows that the booking services of src/tour-backend share,  *)
(* the PayOS payment links they refer to, and the operators that one SQL   *)
(* statement or one Prisma $transaction applies to them.                   *)
(*                                                                         *)
(* A request is handled by an async function that reads a row, awaits, and *)
(* writes.  A slot is one handler in flight (or one pass of the cron job): *)
(* req[s] says which statement it reaches next, on which booking, and the  *)
(* one value it carries from what it read.  Statements of different slots  *)
(* interleave; a $transaction is one step: those that move a booking start *)
(* with the UPDATE that locks its row until the commit, and a transaction  *)
(* that fails, also as the victim of a deadlock, leaves nothing (Crashes). *)
(***************************************************************************)
EXTENDS Integers, Sequences, FiniteSets, FiniteSetsExt

CONSTANTS
    Bookings,       \* booking ids that may be used
    NoBooking,      \* the booking of a slot that works on none
    Slots,          \* handlers that may be in flight at the same time
    Capacity,       \* availableSeats of the departure before any booking
    Parties,        \* <<dto.seatCount, calcSeatCount(passengers)>> customers send
    MaxParty,       \* the largest party in Parties
    MaxUses,        \* voucher.maxUses
    Requests,       \* the kinds of request that clients send
    NewMethods,     \* payment methods customers choose for a new booking
    NewVouchers,    \* subset of BOOLEAN: may a customer's booking use the voucher
    DraftVouchers,  \* the same for bookings made from assisted drafts
    Calendar,       \* whole days left before departure, as they come
    MaxLinks,       \* bound: PayOS links per booking
    MaxTxns,        \* bound: payment transactions of a booking that takes requests
    MaxFree,        \* bound: free seats while requests are taken
    Crashes         \* may a handler stop between two statements

RequestKinds ==
    {"create", "approveDraft", "payosReturn", "confirmInStore", "syncPayos",
     "checkPayment", "reconcile", "switchMethod", "retry", "publicRetry",
     "resend", "reportIssue", "cancelPending", "cancelConfirmed",
     "approve", "reject", "adminCancel", "confirmRefund"}

Methods == {"PAYOS", "IN_STORE"}

ASSUME BookingsAssumption == IsFiniteSet(Bookings) /\ NoBooking \notin Bookings
ASSUME CapacityAssumption == Capacity \in Nat /\ MaxUses \in Nat /\ MaxParty \in Nat
ASSUME PartiesAssumption == Parties \subseteq (1..MaxParty) \X (1..MaxParty)
ASSUME InputAssumption ==
    /\ Requests \subseteq RequestKinds
    /\ NewMethods \subseteq Methods
    /\ NewVouchers \subseteq BOOLEAN
    /\ DraftVouchers \subseteq BOOLEAN
    /\ Crashes \in BOOLEAN
ASSUME BoundAssumption == MaxLinks \in Nat /\ MaxTxns \in Nat /\ MaxFree \in Nat
ASSUME CalendarAssumption == Calendar \in Seq(Int) /\ Len(Calendar) > 0

VARIABLES
    booking,    \* the Booking rows
    seats,      \* tourDeparture.availableSeats
    usedCount,  \* voucher.usedCount
    link,       \* PayOS: the status of each payment link of a booking
    txn,        \* the PaymentTransaction rows of a booking, oldest first
    ticket,     \* is a payment SupportTicket open for the booking
    req,        \* what each slot does next
    sweep,      \* the expired bookings a pass of the cron job still has to visit
    day         \* today, as an index of Calendar

vars == <<booking, seats, usedCount, link, txn, ticket, req, sweep, day>>

-----------------------------------------------------------------------------
(* The rows.                                                               *)

\* A hold is the age its booking has certainly reached when holdExpiresAt passes.
Lapsed == 0     \* holdExpiresAt is in the past
Window == 1     \* within the retry ceiling after createdAt
WholeDay == 2   \* within 24 hours after createdAt
Open == 3       \* counted from a later moment: not tied to createdAt

\* age: 0 up to the retry ceiling (60 minutes, or booking_hold_minutes if that is
\* more), 1 up to 24 hours after createdAt, 2 beyond.
Ages == 0..2

Statuses == {"ABSENT", "PENDING", "CONFIRMED", "CANCEL_REQUESTED", "CANCELLED"}
PayStatuses == {"UNPAID", "PROCESSING", "PAID", "FAILED"}
LinkStatuses == {"PENDING", "PAID", "CANCELLED", "EXPIRED"}

RefundPercents == {0, 50, 80, 100}

Row == [status: Statuses, pay: PayStatuses, method: Methods, hold: Lapsed..Open,
        age: Ages, refund: RefundPercents, refunded: BOOLEAN,
        assisted: BOOLEAN, voucher: BOOLEAN, seats: Nat, party: Nat]

\* transactionRef: a link's number, 0 for none or a bank reference, RefundRef
\* for the rows written as 'REFUND-...'.
RefundRef == -1
TxnRow == [gw: {"PAYOS", "MANUAL"}, ref: Nat \cup {RefundRef},
           st: {"PENDING", "SUCCESS", "FAILED"}]

Ops == {"idle", "sweep", "createLink", "createRow", "manualRow", "sendRequest",
        "payosConfirm", "payosRow", "payosCancel", "payosFailedRow",
        "collect", "settle", "reconcile", "closeTicket",
        "toPayos", "toInStore", "payosRows", "inStoreRows",
        "retryHold", "publicHold", "newLink", "requestLink", "replaceRow",
        "fileIssue", "cancelPending", "cancelConfirmed", "approve", "reject",
        "adminCancel", "refund"}

Absent == [status |-> "ABSENT", pay |-> "UNPAID", method |-> "PAYOS",
           hold |-> Lapsed, age |-> 0, refund |-> 0, refunded |-> FALSE,
           assisted |-> FALSE, voucher |-> FALSE, seats |-> 0, party |-> 0]

IdleReq == [op |-> "idle", b |-> NoBooking, n |-> 0]

Txn(gateway, ref, status) == [gw |-> gateway, ref |-> ref, st |-> status]

Exists(b) == booking[b].status # "ABSENT"
Unsettled(b) == booking[b].status \in {"PENDING", "CANCEL_REQUESTED"}
AwaitsPayment(b) == booking[b].status = "PENDING" /\ booking[b].pay = "UNPAID"
DaysLeft == Calendar[day]

-----------------------------------------------------------------------------
(* Slots.                                                                  *)

\* The slot goes on to statement op of booking b, carrying n.
Goto(s, op, b, n) == req' = [req EXCEPT ![s] = [op |-> op, b |-> b, n |-> n]]

Finish(s) == req' = [req EXCEPT ![s] = IdleReq]

At(s, op) == req[s].op = op

\* A request of this kind arrives for booking b and finds the slot free.
Arrives(kind, s, b) ==
    /\ kind \in Requests
    /\ At(s, "idle")
    /\ Len(txn[b]) < MaxTxns
    /\ seats <= MaxFree

-----------------------------------------------------------------------------
(* Seats and voucher uses: one conditional UPDATE each.                    *)

ReserveSeats(n) == seats >= n /\ seats' = seats - n

ReleaseSeats(n) == seats' = seats + n

\* Mutant: the voucher is only checked, as before claims were atomic.
ClaimVoucherChecksOnly(wanted) ==
    /\ wanted => usedCount < MaxUses
    /\ UNCHANGED usedCount

ClaimVoucher(wanted) ==
    /\ wanted => usedCount < MaxUses
    /\ usedCount' = IF wanted THEN usedCount + 1 ELSE usedCount

\* Assisted bookings count their use only when they are paid, if one is left.
MarkVoucherAsUsed(b) ==
    usedCount' = IF booking[b].assisted /\ booking[b].voucher /\ usedCount < MaxUses
                 THEN usedCount + 1 ELSE usedCount

\* Mutant: the decrement forgets WHERE usedCount > 0.
ReleaseVoucherBelowZero(b) ==
    usedCount' = IF booking[b].voucher THEN usedCount - 1 ELSE usedCount

ReleaseVoucher(b) ==
    usedCount' = IF booking[b].voucher /\ usedCount > 0
                 THEN usedCount - 1 ELSE usedCount

\* Mutant: without `if (result.count === 0) return`.
CancelAndRestoreSeatsNoReturn(b) ==
    /\ booking' = IF Unsettled(b)
                  THEN [booking EXCEPT ![b].status = "CANCELLED", ![b].pay = "FAILED"]
                  ELSE booking
    /\ ReleaseSeats(booking[b].party)
    /\ ReleaseVoucher(b)

\* Mutant: the guard excludes CANCELLED only.
CancelAndRestoreSeatsUnlessCancelled(b) ==
    IF booking[b].status # "CANCELLED"
    THEN /\ booking' = [booking EXCEPT ![b].status = "CANCELLED", ![b].pay = "FAILED"]
         /\ ReleaseSeats(booking[b].party)
         /\ ReleaseVoucher(b)
    ELSE UNCHANGED <<booking, seats, usedCount>>

\* Cancels the booking unless it was settled meanwhile; seats and voucher return.
CancelAndRestoreSeats(b) ==
    IF Unsettled(b)
    THEN /\ booking' = [booking EXCEPT ![b].status = "CANCELLED",
                                       ![b].pay = "FAILED"]
         /\ ReleaseSeats(booking[b].party)
         /\ ReleaseVoucher(b)
    ELSE UNCHANGED <<booking, seats, usedCount>>

-----------------------------------------------------------------------------
(* The payment ledger of one booking.                                      *)

Pending(rows, gateways) ==
    {i \in DOMAIN rows : rows[i].gw \in gateways /\ rows[i].st = "PENDING"}

FailRows(rows, failed) ==
    [i \in DOMAIN rows |->
        IF i \in failed THEN [rows[i] EXCEPT !.st = "FAILED"] ELSE rows[i]]

\* Mutant: the pending row is updated, and nothing is written without one.
ConfirmRowsUpdateOnly(rows, gateway) ==
    LET mine == Pending(rows, {gateway})
    IN  [i \in DOMAIN rows |->
            IF i \in mine THEN Txn(gateway, 0, "SUCCESS") ELSE rows[i]]

\* The newest pending row of the gateway becomes the receipt, every other
\* pending row fails; without one a receipt is added.
ConfirmRows(rows, gateway) ==
    LET mine == Pending(rows, {gateway})
        others == Pending(rows, {"PAYOS", "MANUAL"})
        receipt == Txn(gateway, 0, "SUCCESS")
    IN  IF mine = {} THEN Append(FailRows(rows, others), receipt)
        ELSE [FailRows(rows, others) EXCEPT ![Max(mine)] = receipt]

\* The row of link l is the only pending PayOS row.
ReplaceRows(rows, l) ==
    LET reusable == {i \in Pending(rows, {"PAYOS"}) : rows[i].ref = l}
        rest == IF reusable = {} THEN {} ELSE {Max(reusable)}
        kept == FailRows(rows, Pending(rows, {"PAYOS"}) \ rest)
    IN  IF reusable = {} THEN Append(kept, Txn("PAYOS", l, "PENDING")) ELSE kept

\* The pending refund slip becomes the proof of the transfer, or one is added.
RefundRows(rows) ==
    LET slips == {i \in Pending(rows, {"MANUAL"}) : rows[i].ref = RefundRef}
        proof == Txn("MANUAL", RefundRef, "SUCCESS")
    IN  IF slips = {} THEN Append(rows, proof)
        ELSE [rows EXCEPT ![Max(slips)] = proof]

AddRow(b, row) == txn' = [txn EXCEPT ![b] = Append(@, row)]

\* The newest PayOS row names a link, and PayOS says that link is paid.
LatestLinkPaid(b) ==
    LET mine == {i \in DOMAIN txn[b] : txn[b][i].gw = "PAYOS"}
    IN  /\ mine # {}
        /\ LET l == txn[b][Max(mine)].ref
           IN  l \in DOMAIN link[b] /\ link[b][l] = "PAID"

-----------------------------------------------------------------------------
Init ==
    /\ booking = [b \in Bookings |-> Absent]
    /\ seats = Capacity
    /\ usedCount = 0
    /\ link = [b \in Bookings |-> << >>]
    /\ txn = [b \in Bookings |-> << >>]
    /\ ticket = [b \in Bookings |-> FALSE]
    /\ req = [s \in Slots |-> IdleReq]
    /\ sweep = [s \in Slots |-> {}]
    /\ day = 1

TypeOK ==
    /\ booking \in [Bookings -> Row]
    /\ seats \in Nat
    /\ usedCount \in 0..MaxUses
    /\ link \in [Bookings -> Seq(LinkStatuses)]
    /\ txn \in [Bookings -> Seq(TxnRow)]
    /\ ticket \in [Bookings -> BOOLEAN]
    /\ req \in [Slots -> [op: Ops, b: Bookings \cup {NoBooking}, n: Nat]]
    /\ sweep \in [Slots -> SUBSET Bookings]
    /\ day \in 1..Len(Calendar)

\* A handler in flight works on a booking, and a decision to cancel a paid one
\* carries a refund of the policy.
SlotOK ==
    \A s \in Slots :
        /\ req[s].op \notin {"idle", "sweep"} => req[s].b \in Bookings
        /\ req[s].op \in {"cancelConfirmed", "approve", "adminCancel"}
              => req[s].n \in RefundPercents

\* The inductive invariant: rows, counters and the values that handlers carry
\* across an await are well formed, whatever overlaps; no voucher counter goes
\* below zero or above maxUses.
IInv == TypeOK /\ SlotOK
=============================================================================
