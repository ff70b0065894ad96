-------------------------- MODULE BookingPayment --------------------------
(***************************************************************************)
(* Creating a booking and paying for it: BookingService.create, the PayOS  *)
(* return URL and webhook, the three ways staff and customers confirm a    *)
(* payment, the change of payment method, the three ways to get a new      *)
(* payment link, bookings made from assisted drafts, and payment issues.   *)
(*                                                                         *)
(* The first action of each handler is what it reads and checks; the next  *)
(* ones are its statements.  Reads that follow one another, and ledger     *)
(* writes that follow one another, are one step.                           *)
(***************************************************************************)
EXTENDS BookingState

NewBooking(method, hold, assisted, voucher, reserved, party) ==
    [status |-> "PENDING", pay |-> "UNPAID", method |-> method, hold |-> hold,
     age |-> 0, refund |-> 0, refunded |-> FALSE, assisted |-> assisted,
     voucher |-> voucher, seats |-> reserved, party |-> party]

\* calculateBookingHoldExpiresAt for a booking made now: a QR code's hold is
\* booking_hold_minutes, never more than the retry ceiling.
HoldFor(method) == IF method = "PAYOS" THEN Window ELSE WholeDay

-----------------------------------------------------------------------------
(* create                                                                  *)

\* The transaction: the voucher is claimed, dto.seatCount seats are reserved
\* and the row is inserted, or nothing happens.
Create(s, b) ==
    /\ Arrives("create", s, b)
    /\ ~Exists(b)
    /\ DaysLeft >= 0
    /\ \E method \in NewMethods, voucher \in NewVouchers, p \in Parties :
        /\ ClaimVoucher(voucher)
        /\ ReserveSeats(p[1])
        /\ booking' = [booking EXCEPT ![b] =
               NewBooking(method, HoldFor(method), FALSE, voucher, p[1], p[2])]
        /\ Goto(s, IF method = "PAYOS" THEN "createLink" ELSE "manualRow", b, 0)
    /\ UNCHANGED <<link, txn, ticket, sweep, day>>

AddManualRow(s) ==
    /\ At(s, "manualRow")
    /\ AddRow(req[s].b, Txn("MANUAL", 0, "PENDING"))
    /\ Finish(s)
    /\ UNCHANGED <<booking, seats, usedCount, link, ticket, sweep, day>>

\* PayOS makes a link; it is also the next step of every retry.
CreateLink(s) ==
    LET b == req[s].b
    IN  /\ req[s].op \in {"createLink", "newLink", "requestLink"}
        /\ Len(link[b]) < MaxLinks
        /\ link' = [link EXCEPT ![b] = Append(@, "PENDING")]
        /\ Goto(s, IF At(s, "createLink") THEN "createRow" ELSE "replaceRow",
                b, Len(link[b]) + 1)
        /\ UNCHANGED <<booking, seats, usedCount, txn, ticket, sweep, day>>

\* rollbackUnpaidBooking.
CreateLinkFails(s) ==
    /\ At(s, "createLink")
    /\ CancelAndRestoreSeats(req[s].b)
    /\ Finish(s)
    /\ UNCHANGED <<link, txn, ticket, sweep, day>>

AddLinkRow(s) ==
    /\ At(s, "createRow")
    /\ AddRow(req[s].b, Txn("PAYOS", req[s].n, "PENDING"))
    /\ Finish(s)
    /\ UNCHANGED <<booking, seats, usedCount, link, ticket, sweep, day>>

-----------------------------------------------------------------------------
(* handlePayosReturn: webhook and return URL, any number of times, for any *)
(* link the booking ever had.                                              *)

\* Mutant: a booking with a reported issue is left to staff.
PayosReturnUnpaidOnly(s, b) ==
    /\ "payosReturn" \in Requests
    /\ At(s, "idle")
    /\ AwaitsPayment(b)
    /\ \E l \in DOMAIN link[b] :
        /\ link[b][l] # "PENDING"
        /\ Goto(s, IF link[b][l] = "PAID" THEN "payosConfirm" ELSE "payosCancel", b, 0)
    /\ UNCHANGED <<booking, seats, usedCount, link, txn, ticket, sweep, day>>

PayosReturn(s, b) ==
    /\ "payosReturn" \in Requests
    /\ At(s, "idle")
    /\ Unsettled(b)
    /\ \E l \in DOMAIN link[b] :
        /\ link[b][l] # "PENDING"
        /\ Goto(s, IF link[b][l] = "PAID" THEN "payosConfirm" ELSE "payosCancel", b, 0)
    /\ UNCHANGED <<booking, seats, usedCount, link, txn, ticket, sweep, day>>

Confirmed(b) ==
    booking' = [booking EXCEPT ![b].status = "CONFIRMED", ![b].pay = "PAID"]

\* Mutant: the transaction trusts the status read before it.
PayosConfirmUnguarded(s) ==
    LET b == req[s].b
    IN  /\ At(s, "payosConfirm")
        /\ Confirmed(b) /\ MarkVoucherAsUsed(b) /\ Goto(s, "payosRow", b, 0)
        /\ UNCHANGED <<seats, link, txn, ticket, sweep, day>>

PayosConfirm(s) ==
    LET b == req[s].b
    IN  /\ At(s, "payosConfirm")
        /\ IF Unsettled(b)
           THEN Confirmed(b) /\ MarkVoucherAsUsed(b) /\ Goto(s, "payosRow", b, 0)
           ELSE UNCHANGED <<booking, usedCount>> /\ Finish(s)
        /\ UNCHANGED <<seats, link, txn, ticket, sweep, day>>

PayosCancel(s) ==
    /\ At(s, "payosCancel")
    /\ CancelAndRestoreSeats(req[s].b)
    /\ Goto(s, "payosFailedRow", req[s].b, 0)
    /\ UNCHANGED <<link, txn, ticket, sweep, day>>

\* The ledger row is written after the transaction, on its own.
AddPayosRow(s) ==
    /\ req[s].op \in {"payosRow", "payosFailedRow"}
    /\ AddRow(req[s].b, Txn("PAYOS", 0, IF At(s, "payosRow") THEN "SUCCESS" ELSE "FAILED"))
    /\ Finish(s)
    /\ UNCHANGED <<booking, seats, usedCount, link, ticket, sweep, day>>

-----------------------------------------------------------------------------
(* booking-payment.service: confirmations by staff and by polling.         *)

\* The handler has read and checked; it goes on to confirmBookingAsPaid as op.
Proceeds(s, op, b) ==
    /\ Goto(s, op, b, 0)
    /\ UNCHANGED <<booking, seats, usedCount, link, txn, ticket, sweep, day>>

ConfirmInStore(s, b) ==
    /\ Arrives("confirmInStore", s, b)
    /\ Unsettled(b)
    /\ booking[b].method = "IN_STORE"
    /\ Proceeds(s, "collect", b)

CustomerCheckPayment(s, b) ==
    /\ Arrives("checkPayment", s, b)
    /\ booking[b].pay # "PAID"
    /\ booking[b].method = "PAYOS"
    /\ booking[b].status = "PENDING"
    /\ LatestLinkPaid(b)
    /\ Proceeds(s, "settle", b)

SyncPayosStatus(s, b) ==
    /\ Arrives("syncPayos", s, b)
    /\ Unsettled(b)
    /\ booking[b].method = "PAYOS"
    /\ LatestLinkPaid(b)
    /\ Proceeds(s, "settle", b)

ReconcilePayosManual(s, b) ==
    /\ Arrives("reconcile", s, b)
    /\ Unsettled(b)
    /\ booking[b].method = "PAYOS"
    /\ Proceeds(s, "reconcile", b)

\* Mutant: the ledger is written even when the compare-and-set was lost.
ConfirmBookingAsPaidTwice(s) ==
    LET b == req[s].b
    IN  /\ req[s].op \in {"collect", "settle", "reconcile"}
        /\ IF Unsettled(b) THEN Confirmed(b) /\ MarkVoucherAsUsed(b)
                           ELSE UNCHANGED <<booking, usedCount>>
        /\ txn' = [txn EXCEPT ![b] =
               ConfirmRows(@, IF At(s, "collect") THEN "MANUAL" ELSE "PAYOS")]
        /\ IF At(s, "reconcile") THEN Goto(s, "closeTicket", b, 0) ELSE Finish(s)
        /\ UNCHANGED <<seats, link, ticket, sweep, day>>

\* Compare-and-set on the status; the ledger and the voucher in the same
\* transaction.  Manual reconciliation goes on to close the support ticket.
ConfirmBookingAsPaid(s) ==
    LET b == req[s].b
    IN  /\ req[s].op \in {"collect", "settle", "reconcile"}
        /\ IF Unsettled(b)
           THEN /\ Confirmed(b)
                /\ MarkVoucherAsUsed(b)
                /\ txn' = [txn EXCEPT ![b] =
                       ConfirmRows(@, IF At(s, "collect") THEN "MANUAL" ELSE "PAYOS")]
           ELSE UNCHANGED <<booking, usedCount, txn>>
        /\ IF At(s, "reconcile") THEN Goto(s, "closeTicket", b, 0) ELSE Finish(s)
        /\ UNCHANGED <<seats, link, ticket, sweep, day>>

CloseTicket(s) ==
    /\ At(s, "closeTicket")
    /\ ticket' = [ticket EXCEPT ![req[s].b] = FALSE]
    /\ Finish(s)
    /\ UNCHANGED <<booking, seats, usedCount, link, txn, sweep, day>>

-----------------------------------------------------------------------------
(* updatePaymentMethod                                                     *)

UpdatePaymentMethod(s, b) ==
    /\ Arrives("switchMethod", s, b)
    /\ AwaitsPayment(b)
    /\ DaysLeft >= 0
    /\ \E op \in {"toPayos", "toInStore"} : Proceeds(s, op, b)

\* The hold starts again from now, whatever the age of the booking.
SetMethod(s) ==
    LET b == req[s].b
    IN  /\ req[s].op \in {"toPayos", "toInStore"}
        /\ booking' = [booking EXCEPT
               ![b].method = IF At(s, "toPayos") THEN "PAYOS" ELSE "IN_STORE",
               ![b].hold = Open]
        /\ Goto(s, IF At(s, "toPayos") THEN "payosRows" ELSE "inStoreRows", b, 0)
        /\ UNCHANGED <<seats, usedCount, link, txn, ticket, sweep, day>>

\* To PayOS: the pending counter slip fails.
SwitchRowsToPayos(s) ==
    /\ At(s, "payosRows")
    /\ txn' = [txn EXCEPT ![req[s].b] = FailRows(@, Pending(@, {"MANUAL"}))]
    /\ Finish(s)
    /\ UNCHANGED <<booking, seats, usedCount, link, ticket, sweep, day>>

\* To the counter: pending PayOS rows fail, and a counter slip is written
\* unless the booking ever had one.
SwitchRowsToInStore(s) ==
    LET b == req[s].b
        kept == FailRows(txn[b], Pending(txn[b], {"PAYOS"}))
        had == \E i \in DOMAIN kept : kept[i].gw = "MANUAL"
    IN  /\ At(s, "inStoreRows")
        /\ txn' = [txn EXCEPT ![b] =
               IF had THEN kept ELSE Append(kept, Txn("MANUAL", 0, "PENDING"))]
        /\ Finish(s)
        /\ UNCHANGED <<booking, seats, usedCount, link, ticket, sweep, day>>

-----------------------------------------------------------------------------
(* New payment links: retryPayment, publicRetryPayment, and the payment    *)
(* request of an assisted booking.                                         *)

RetryPayment(s, b) ==
    /\ Arrives("retry", s, b)
    /\ AwaitsPayment(b)
    /\ booking[b].age = 0
    /\ DaysLeft >= 0
    /\ Proceeds(s, "retryHold", b)

\* Mutant: the new hold is not cut off at the ceiling.
RetryHoldUncapped(s) ==
    LET b == req[s].b
    IN  /\ At(s, "retryHold")
        /\ booking' = [booking EXCEPT ![b].method = "PAYOS", ![b].hold = Window]
        /\ Goto(s, "newLink", b, 0)
        /\ UNCHANGED <<seats, usedCount, link, txn, ticket, sweep, day>>

\* The new hold never passes the ceiling counted from createdAt.
RetryHold(s) ==
    LET b == req[s].b
    IN  /\ At(s, "retryHold")
        /\ booking' = [booking EXCEPT ![b].method = "PAYOS",
               ![b].hold = IF booking[b].age = 0 THEN Window ELSE Lapsed]
        /\ Goto(s, "newLink", b, 0)
        /\ UNCHANGED <<seats, usedCount, link, txn, ticket, sweep, day>>

PublicRetryPayment(s, b) ==
    /\ Arrives("publicRetry", s, b)
    /\ AwaitsPayment(b)
    /\ booking[b].hold # Lapsed
    /\ DaysLeft >= 0
    /\ Proceeds(s, IF booking[b].method = "PAYOS" THEN "newLink" ELSE "publicHold", b)

PublicRetryHold(s) ==
    LET b == req[s].b
    IN  /\ At(s, "publicHold")
        /\ booking' = [booking EXCEPT ![b].method = "PAYOS", ![b].hold = Open]
        /\ Goto(s, "newLink", b, 0)
        /\ UNCHANGED <<seats, usedCount, link, txn, ticket, sweep, day>>

\* The order code repeats after 1 000 000 ms: PayOS refuses the duplicate and
\* the handler takes the link that code already had.
ReuseLink(s) ==
    LET b == req[s].b
    IN  /\ At(s, "newLink")
        /\ \E l \in DOMAIN link[b] : Goto(s, "replaceRow", b, l)
        /\ UNCHANGED <<booking, seats, usedCount, link, txn, ticket, sweep, day>>

\* PayOS cannot be reached: a retry throws, a payment request is logged as failed.
LinkFails(s) ==
    /\ req[s].op \in {"newLink", "requestLink"}
    /\ Finish(s)
    /\ UNCHANGED <<booking, seats, usedCount, link, txn, ticket, sweep, day>>

ReplacePendingPayosTransaction(s) ==
    LET b == req[s].b
    IN  /\ At(s, "replaceRow")
        /\ txn' = [txn EXCEPT ![b] = ReplaceRows(@, req[s].n)]
        /\ Finish(s)
        /\ UNCHANGED <<booking, seats, usedCount, link, ticket, sweep, day>>

\* Nothing here looks at the booking's status.
PaymentRequestable(b) ==
    /\ booking[b].pay # "PAID"
    /\ booking[b].method = "PAYOS"
    /\ booking[b].hold # Lapsed

ResendPaymentRequest(s, b) ==
    /\ Arrives("resend", s, b)
    /\ Exists(b)
    /\ PaymentRequestable(b)
    /\ Proceeds(s, "requestLink", b)

\* The transaction of approveAssistedDraft: seats are reserved for the party,
\* the voucher is only quoted.
ApproveAssistedDraft(s, b) ==
    /\ Arrives("approveDraft", s, b)
    /\ ~Exists(b)
    /\ DaysLeft >= 0
    /\ \E method \in NewMethods, voucher \in DraftVouchers, p \in Parties :
        /\ voucher => usedCount < MaxUses
        /\ ReserveSeats(p[2])
        /\ booking' = [booking EXCEPT ![b] =
               NewBooking(method, HoldFor(method), TRUE, voucher, p[2], p[2])]
        /\ Goto(s, IF method = "PAYOS" THEN "sendRequest" ELSE "manualRow", b, 0)
    /\ UNCHANGED <<usedCount, link, txn, ticket, sweep, day>>

SendPaymentRequest(s) ==
    /\ At(s, "sendRequest")
    /\ IF PaymentRequestable(req[s].b) THEN Goto(s, "requestLink", req[s].b, 0)
                                       ELSE Finish(s)
    /\ UNCHANGED <<booking, seats, usedCount, link, txn, ticket, sweep, day>>

-----------------------------------------------------------------------------
(* reportPaymentIssue                                                      *)

\* Mutant: without the check that the payment is not recorded yet.
ReportPaymentIssuePaidToo(s, b) ==
    /\ Arrives("reportIssue", s, b)
    /\ booking[b].status \notin {"ABSENT", "CONFIRMED"}
    /\ booking[b].method = "PAYOS"
    /\ ~ticket[b]
    /\ Proceeds(s, "fileIssue", b)

ReportPaymentIssue(s, b) ==
    /\ Arrives("reportIssue", s, b)
    /\ booking[b].status \notin {"ABSENT", "CONFIRMED"}
    /\ booking[b].method = "PAYOS"
    /\ booking[b].pay # "PAID"
    /\ ~ticket[b]
    /\ Proceeds(s, "fileIssue", b)

FilePaymentIssue(s) ==
    LET b == req[s].b
    IN  /\ At(s, "fileIssue")
        /\ ticket' = [ticket EXCEPT ![b] = TRUE]
        /\ booking' = [booking EXCEPT ![b].pay = "PROCESSING"]
        /\ Finish(s)
        /\ UNCHANGED <<seats, usedCount, link, txn, sweep, day>>
=============================================================================
