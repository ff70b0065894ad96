------------------------------ MODULE Booking ------------------------------
(***************************************************************************)
(* The life of bookings of one departure: BookingPayment (create and pay)  *)
(* composed with BookingCancellation (cancel, refund, expire), the PayOS   *)
(* gateway and the passing of time.                                        *)
(***************************************************************************)
EXTENDS BookingPayment, BookingCancellation

-----------------------------------------------------------------------------
(* The environment.                                                        *)

\* A handler stops between two statements: the process dies, or an await fails.
Abort(s) ==
    /\ Crashes
    /\ ~At(s, "idle")
    /\ Finish(s)
    /\ sweep' = [sweep EXCEPT ![s] = {}]
    /\ UNCHANGED <<booking, seats, usedCount, link, txn, ticket, day>>

\* The customer pays a link, whatever became of its booking.
PayLink(b, l) ==
    /\ link[b][l] = "PENDING"
    /\ link' = [link EXCEPT ![b][l] = "PAID"]
    /\ UNCHANGED <<booking, seats, usedCount, txn, ticket, req, sweep, day>>

\* The customer cancels the link on PayOS's page, or it expires there.
LinkDies(b, l, how) ==
    /\ link[b][l] = "PENDING"
    /\ link' = [link EXCEPT ![b][l] = how]
    /\ UNCHANGED <<booking, seats, usedCount, txn, ticket, req, sweep, day>>

HoldLapses(b) ==
    /\ booking[b].hold # Lapsed
    /\ booking' = [booking EXCEPT ![b].hold = Lapsed]
    /\ UNCHANGED <<seats, usedCount, link, txn, ticket, req, sweep, day>>

\* The booking gets older, and holds that were counted from createdAt lapse.
GrowsOlder(b) ==
    LET age == booking[b].age + 1
        hold == IF booking[b].hold <= age THEN Lapsed ELSE booking[b].hold
    IN  /\ Exists(b)
        /\ age \in Ages
        /\ booking' = [booking EXCEPT ![b].age = age, ![b].hold = hold]
        /\ UNCHANGED <<seats, usedCount, link, txn, ticket, req, sweep, day>>

\* The calendar moves on; no hold outlives the departure.
TimePasses ==
    /\ day < Len(Calendar)
    /\ day' = day + 1
    /\ booking' = [b \in Bookings |->
           IF Calendar[day + 1] < 0 THEN [booking[b] EXCEPT !.hold = Lapsed] ELSE booking[b]]
    /\ UNCHANGED <<seats, usedCount, link, txn, ticket, req, sweep>>

-----------------------------------------------------------------------------
\* A slot runs its next statement.
Step(s) ==
    \/ AddManualRow(s)
    \/ CreateLink(s)
    \/ CreateLinkFails(s)
    \/ AddLinkRow(s)
    \/ PayosConfirm(s)
    \/ PayosCancel(s)
    \/ AddPayosRow(s)
    \/ ConfirmBookingAsPaid(s)
    \/ CloseTicket(s)
    \/ SetMethod(s)
    \/ SwitchRowsToPayos(s)
    \/ SwitchRowsToInStore(s)
    \/ RetryHold(s)
    \/ PublicRetryHold(s)
    \/ ReuseLink(s)
    \/ LinkFails(s)
    \/ ReplacePendingPayosTransaction(s)
    \/ SendPaymentRequest(s)
    \/ FilePaymentIssue(s)
    \/ CancelPending(s)
    \/ MarkCancelRequested(s)
    \/ ApproveWrite(s)
    \/ RejectWrite(s)
    \/ AdminCancelWrite(s)
    \/ ConfirmRefundWrite(s)

\* A request arrives for booking b and its handler reads what it decides on.
Request(s, b) ==
    \/ Create(s, b)
    \/ ApproveAssistedDraft(s, b)
    \/ PayosReturn(s, b)
    \/ ConfirmInStore(s, b)
    \/ CustomerCheckPayment(s, b)
    \/ SyncPayosStatus(s, b)
    \/ ReconcilePayosManual(s, b)
    \/ UpdatePaymentMethod(s, b)
    \/ RetryPayment(s, b)
    \/ PublicRetryPayment(s, b)
    \/ ResendPaymentRequest(s, b)
    \/ ReportPaymentIssue(s, b)
    \/ RequestCancelPending(s, b)
    \/ RequestCancelConfirmed(s, b)
    \/ ApproveCancellation(s, b)
    \/ RejectCancellation(s, b)
    \/ AdminCancelBooking(s, b)
    \/ ConfirmRefund(s, b)

\* The cron job.
Cron(s) ==
    \/ ScanExpired(s)
    \/ \E b \in Bookings : CancelExpired(s, b)
    \/ \E b \in Bookings : SkipExpired(s, b)

\* What PayOS and the clock do on their own.
Environment ==
    \/ \E b \in Bookings : \E l \in DOMAIN link[b] : PayLink(b, l)
    \/ \E b \in Bookings : \E l \in DOMAIN link[b] :
           \E how \in {"CANCELLED", "EXPIRED"} : LinkDies(b, l, how)
    \/ \E b \in Bookings : HoldLapses(b)
    \/ \E b \in Bookings : GrowsOlder(b)
    \/ TimePasses

Next ==
    \/ \E s \in Slots : Step(s)
    \/ \E s \in Slots, b \in Bookings : Request(s, b)
    \/ \E s \in Slots : Cron(s)
    \/ \E s \in Slots : Abort(s)
    \/ Environment

Spec == Init /\ [][Next]_vars

\* The event loop runs every handler it started, time passes, the timer of the
\* cron job fires whatever else runs, and PayOS delivers its webhook again
\* until it is answered.  Nobody has to pay, retry, cancel or approve.
Fairness ==
    /\ \A s \in Slots : WF_vars(Step(s))
    /\ \A s \in Slots : WF_vars(\E b \in Bookings : CancelExpired(s, b))
    /\ SF_vars(\E s \in Slots : ScanExpired(s))
    /\ \A b \in Bookings : WF_vars(HoldLapses(b)) /\ WF_vars(GrowsOlder(b))
    /\ \A b \in Bookings : SF_vars(\E s \in Slots : PayosReturn(s, b))

FairSpec == Spec /\ Fairness
-----------------------------------------------------------------------------
(* Seats.                                                                  *)

Live(b) == booking[b].status \in {"PENDING", "CONFIRMED", "CANCEL_REQUESTED"}

\* The seats that live bookings have reserved, one element per seat.
Held == {p \in Bookings \X (1..MaxParty) :
            Live(p[1]) /\ p[2] <= booking[p[1]].seats}

\* Customers send the seat count their passenger list amounts to.
WellFormedParties == \A p \in Parties : p[1] = p[2]

\* Every seat of the departure is either free or held by one live booking:
\* create, the rollback, every cancellation and the cron job agree on it.
SeatsConserved == seats + Cardinality(Held) = Capacity

\* Whatever overlaps, no seat disappears: the comment above create promises
\* that a failure at any step loses none.
NoSeatLost == seats + Cardinality(Held) >= Capacity

\* Live bookings never hold more seats than the departure has, although every
\* cancellation path puts seats back on sale.
NoOverselling == Cardinality(Held) <= Capacity

-----------------------------------------------------------------------------
(* Money.                                                                  *)

Receipts(b) == {i \in DOMAIN txn[b] :
                   txn[b][i].st = "SUCCESS" /\ txn[b][i].ref # RefundRef}

RefundProofs(b) == {i \in DOMAIN txn[b] :
                       txn[b][i].st = "SUCCESS" /\ txn[b][i].ref = RefundRef}

\* A booking that takes part in the trip is paid, and a cancelled one is not:
\* the status and the payment status are written by different handlers.
ConfirmedIsPaid ==
    \A b \in Bookings :
        /\ booking[b].status \in {"CONFIRMED", "CANCEL_REQUESTED"} => booking[b].pay = "PAID"
        /\ booking[b].status \in {"PENDING", "CANCELLED"} => booking[b].pay # "PAID"

\* A confirmed booking has a receipt in the ledger, or the handler that won the
\* compare-and-set is about to write it.
PaidHasReceipt ==
    \A b \in Bookings :
        booking[b].status = "CONFIRMED" =>
            \/ Receipts(b) # {}
            \/ \E s \in Slots : req[s].op = "payosRow" /\ req[s].b = b

\* Webhook, return URL, polling and staff may all confirm one payment; one wins.
ReceiptOnce == \A b \in Bookings : Cardinality(Receipts(b)) <= 1

\* The ledger proves a refund exactly when the booking says it was made.
RefundLedger ==
    \A b \in Bookings :
        Cardinality(RefundProofs(b)) =
            IF booking[b].refunded /\ booking[b].refund > 0 THEN 1 ELSE 0

\* Two clicks on confirmRefund refund once (booking-cancellation.service, :312).
RefundOnce == \A b \in Bookings : Cardinality(RefundProofs(b)) <= 1

-----------------------------------------------------------------------------
(* Vouchers.                                                               *)

Discounted == {b \in Bookings : Live(b) /\ booking[b].voucher}

\* Every live booking with a discount has its use counted, so there are never
\* more of them than voucher.maxUses.
DiscountsCovered == Cardinality(Discounted) <= usedCount

\* A use of the voucher belongs to a live booking: cancelling and expiring give
\* it back (voucher.service, comment above releaseVoucherInTx).
VoucherUsesReturned == usedCount <= Cardinality(Discounted)

-----------------------------------------------------------------------------
(* Holds.                                                                  *)

\* Renewing the QR code never keeps an unpaid PayOS booking past the ceiling
\* counted from createdAt (booking-helpers, comment on PAYOS_MAX_HOLD_MINUTES).
PayosHoldCapped ==
    \A b \in Bookings :
        AwaitsPayment(b) /\ booking[b].method = "PAYOS" /\ booking[b].age > 0
            => booking[b].hold = Lapsed

-----------------------------------------------------------------------------
(* What a step may never do.                                               *)

\* Some slot finishes the statement op of booking b in this step.
Finishes(op, b) == \E s \in Slots : /\ req[s].op = op /\ req[s].b = b
                                     /\ req'[s].op = "idle"

\* A cancelled booking stays cancelled: no late webhook, confirmation or retry
\* brings back a booking whose seats were given away.
CancelledIsFinal ==
    [][\A b \in Bookings :
          booking[b].status = "CANCELLED" => booking'[b].status = "CANCELLED"]_vars

\* Only an admin's decision cancels a confirmed booking: not the cron job with
\* an old snapshot, not a dead payment link, not the rollback of create.
ConfirmedCancelledByAdmin ==
    [][\A b \in Bookings :
          booking[b].status = "CONFIRMED" /\ booking'[b].status = "CANCELLED"
              => Finishes("approve", b) \/ Finishes("adminCancel", b)]_vars

\* A request to cancel a paid booking waits for the admin, who approves or
\* rejects it (booking-cancellation.service, comment above requestCancellation).
CancelRequestWaitsForAdmin ==
    [][\A b \in Bookings :
          booking[b].status = "CANCEL_REQUESTED" /\ booking'[b].status # "CANCEL_REQUESTED"
              => Finishes("approve", b) \/ Finishes("reject", b)]_vars

-----------------------------------------------------------------------------
(* The promise about seats that all of this implements.                    *)

PhaseOf(status) ==
    CASE status = "ABSENT" -> "new"
      [] status = "PENDING" -> "held"
      [] status \in {"CONFIRMED", "CANCEL_REQUESTED"} -> "sold"
      [] status = "CANCELLED" -> "gone"

Inventory == INSTANCE SeatInventory WITH
    free <- seats,
    phase <- [b \in Bookings |-> PhaseOf(booking[b].status)],
    party <- [b \in Bookings |-> booking[b].seats]

\* Every step of every handler, of the cron job and of PayOS is one step of the
\* seat inventory, or none: seats are taken once, sold once, given back once.
SeatsTakenOnce == Inventory!Spec

-----------------------------------------------------------------------------
(* What must eventually happen.                                            *)

\* An unpaid booking does not keep its seats: it is paid, cancelled or expired,
\* however often the customer asks for a new QR code.
HoldsAreReleased ==
    \A b \in Bookings : AwaitsPayment(b) ~> ~AwaitsPayment(b)

\* A booking whose link was paid does not stay pending, even when the customer's
\* report of a payment issue has taken it out of the cron job's reach.
PaidLinkSettles ==
    \A b \in Bookings :
        (booking[b].status = "PENDING" /\ \E l \in DOMAIN link[b] : link[b][l] = "PAID")
            ~> booking[b].status # "PENDING"
=============================================================================
