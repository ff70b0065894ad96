------------------------ MODULE BookingCancellation ------------------------
(***************************************************************************)
(* Ending a booking: the cancellation policy, the customer's cancellation  *)
(* of an unpaid booking and request to cancel a paid one, the admin's      *)
(* approval, rejection and direct cancellation, the confirmation of the    *)
(* refund, and the cron job that cancels bookings whose hold has expired.  *)
(*                                                                         *)
(* Each handler reads the row and checks its status; some writes check the *)
(* status again in their WHERE clause, the others do not.                  *)
(***************************************************************************)
EXTENDS BookingState

-----------------------------------------------------------------------------
(* buildCancellationPolicy                                                 *)

CanCancel(b) == booking[b].status \in {"PENDING", "CONFIRMED"} /\ DaysLeft > 0

\* Percent of the price that goes back: the first tier that applies.
RefundPercent(b) ==
    CASE booking[b].pay # "PAID" -> 0
      [] booking[b].pay = "PAID" /\ booking[b].age < 2 -> 100
      [] booking[b].pay = "PAID" /\ booking[b].age = 2 /\ DaysLeft >= 7 -> 80
      [] booking[b].pay = "PAID" /\ booking[b].age = 2 /\ DaysLeft \in 3..6 -> 50
      [] OTHER -> 0

\* The handler has read the row; its write comes next and carries amount.
Decides(s, op, b, amount) ==
    /\ Goto(s, op, b, amount)
    /\ UNCHANGED <<booking, seats, usedCount, link, txn, ticket, sweep, day>>

-----------------------------------------------------------------------------
(* requestCancellation, first branch: nothing was paid.                    *)

RequestCancelPending(s, b) ==
    /\ Arrives("cancelPending", s, b)
    /\ booking[b].status = "PENDING"
    /\ CanCancel(b)
    /\ Decides(s, "cancelPending", b, 0)

\* Mutant: the seats are not given back.
CancelPendingKeepsSeats(s) ==
    LET b == req[s].b
    IN  /\ At(s, "cancelPending")
        /\ booking' = IF booking[b].status = "PENDING"
                      THEN [booking EXCEPT ![b].status = "CANCELLED", ![b].refund = 0]
                      ELSE booking
        /\ Finish(s)
        /\ UNCHANGED <<seats, usedCount, link, txn, ticket, sweep, day>>

\* updateMany WHERE status = 'PENDING'.  The voucher stays claimed, and the
\* link stays payable: cancelPaymentLink is called with the booking's id, which
\* is no order code.
CancelPending(s) ==
    LET b == req[s].b
    IN  /\ At(s, "cancelPending")
        /\ IF booking[b].status = "PENDING"
           THEN /\ booking' = [booking EXCEPT ![b].status = "CANCELLED", ![b].refund = 0]
                /\ ReleaseSeats(booking[b].party)
           ELSE UNCHANGED <<booking, seats>>
        /\ Finish(s)
        /\ UNCHANGED <<usedCount, link, txn, ticket, sweep, day>>

(* requestCancellation, second branch: the booking is paid.                *)

RequestCancelConfirmed(s, b) ==
    /\ Arrives("cancelConfirmed", s, b)
    /\ booking[b].status = "CONFIRMED"
    /\ CanCancel(b)
    /\ Decides(s, "cancelConfirmed", b, RefundPercent(b))

MarkCancelRequested(s) ==
    LET b == req[s].b
    IN  /\ At(s, "cancelConfirmed")
        /\ booking' = [booking EXCEPT ![b].status = "CANCEL_REQUESTED",
                                      ![b].refund = req[s].n]
        /\ Finish(s)
        /\ UNCHANGED <<seats, usedCount, link, txn, ticket, sweep, day>>

-----------------------------------------------------------------------------
(* Decisions of the admin.                                                 *)

\* A refund owed leaves a slip in the ledger for confirmRefund to settle.
OweRefund(b, amount) ==
    txn' = IF amount = 0 THEN txn
           ELSE [txn EXCEPT ![b] = Append(@, Txn("MANUAL", RefundRef, "PENDING"))]

ApproveCancellation(s, b) ==
    /\ Arrives("approve", s, b)
    /\ booking[b].status = "CANCEL_REQUESTED"
    /\ Decides(s, "approve", b, booking[b].refund)

\* Mutant: the seats are not given back.
ApproveWriteKeepsSeats(s) ==
    LET b == req[s].b
    IN  /\ At(s, "approve")
        /\ booking' = [booking EXCEPT ![b].status = "CANCELLED", ![b].pay = "FAILED",
                                      ![b].refunded = (req[s].n = 0)]
        /\ OweRefund(b, req[s].n)
        /\ Finish(s)
        /\ UNCHANGED <<seats, usedCount, link, ticket, sweep, day>>

ApproveWrite(s) ==
    LET b == req[s].b
    IN  /\ At(s, "approve")
        /\ booking' = [booking EXCEPT ![b].status = "CANCELLED", ![b].pay = "FAILED",
                                      ![b].refunded = (req[s].n = 0)]
        /\ ReleaseSeats(booking[b].party)
        /\ OweRefund(b, req[s].n)
        /\ Finish(s)
        /\ UNCHANGED <<usedCount, link, ticket, sweep, day>>

RejectCancellation(s, b) ==
    /\ Arrives("reject", s, b)
    /\ booking[b].status = "CANCEL_REQUESTED"
    /\ Decides(s, "reject", b, 0)

RejectWrite(s) ==
    LET b == req[s].b
    IN  /\ At(s, "reject")
        /\ booking' = [booking EXCEPT ![b].status = "CONFIRMED", ![b].refund = 0]
        /\ Finish(s)
        /\ UNCHANGED <<seats, usedCount, link, txn, ticket, sweep, day>>

AdminCancelBooking(s, b) ==
    /\ Arrives("adminCancel", s, b)
    /\ CanCancel(b)
    /\ Decides(s, "adminCancel", b, RefundPercent(b))

\* refundedAt is left as it is, and so is the voucher.
AdminCancelWrite(s) ==
    LET b == req[s].b
    IN  /\ At(s, "adminCancel")
        /\ booking' = [booking EXCEPT ![b].status = "CANCELLED", ![b].pay = "FAILED",
                                      ![b].refund = req[s].n]
        /\ ReleaseSeats(booking[b].party)
        /\ OweRefund(b, req[s].n)
        /\ Finish(s)
        /\ UNCHANGED <<usedCount, link, ticket, sweep, day>>

\* Mutant: without refundedAt: null.
RefundOpenAgain(b) == booking[b].status = "CANCELLED"

RefundOpen(b) == booking[b].status = "CANCELLED" /\ ~booking[b].refunded

ConfirmRefund(s, b) ==
    /\ Arrives("confirmRefund", s, b)
    /\ RefundOpen(b)
    /\ booking[b].refund > 0
    /\ Decides(s, "refund", b, 0)

\* updateMany WHERE status = 'CANCELLED' AND refundedAt IS NULL.
ConfirmRefundWrite(s) ==
    LET b == req[s].b
    IN  /\ At(s, "refund")
        /\ IF RefundOpen(b)
           THEN /\ booking' = [booking EXCEPT ![b].refunded = TRUE]
                /\ txn' = [txn EXCEPT ![b] = RefundRows(@)]
           ELSE UNCHANGED <<booking, txn>>
        /\ Finish(s)
        /\ UNCHANGED <<seats, usedCount, link, ticket, sweep, day>>

-----------------------------------------------------------------------------
(* The cron job: a snapshot of the expired bookings, cancelled one by one. *)

\* Mutant: only counter bookings expire.
ExpiredInStore ==
    {b \in Bookings : /\ AwaitsPayment(b)
                      /\ booking[b].hold = Lapsed
                      /\ booking[b].method = "IN_STORE"}

Expired == {b \in Bookings : AwaitsPayment(b) /\ booking[b].hold = Lapsed}

ScanExpired(s) ==
    /\ At(s, "idle")
    /\ Expired # {}
    /\ sweep' = [sweep EXCEPT ![s] = Expired]
    /\ Goto(s, "sweep", NoBooking, 0)
    /\ UNCHANGED <<booking, seats, usedCount, link, txn, ticket, day>>

\* The pass leaves b behind, and ends with its last booking.
Visited(s, b) ==
    /\ sweep' = [sweep EXCEPT ![s] = @ \ {b}]
    /\ IF sweep[s] = {b} THEN Finish(s) ELSE UNCHANGED req

CancelExpired(s, b) ==
    /\ At(s, "sweep")
    /\ b \in sweep[s]
    /\ CancelAndRestoreSeats(b)
    /\ Visited(s, b)
    /\ UNCHANGED <<link, txn, ticket, day>>

\* The transaction fails: the error is logged and the pass goes on.
SkipExpired(s, b) ==
    /\ Crashes
    /\ At(s, "sweep")
    /\ b \in sweep[s]
    /\ Visited(s, b)
    /\ UNCHANGED <<booking, seats, usedCount, link, txn, ticket, day>>
=============================================================================
