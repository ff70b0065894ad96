------------------------- MODULE BookingSeatProofs -------------------------
(***************************************************************************)
(* What handlers that overlap can do to the status of a booking and to the *)
(* seats of the departure, for every value of the constants.  One lemma    *)
(* classifies the steps of Booking by their effect; the theorems follow    *)
(* from the classification.                                                *)
(***************************************************************************)
EXTENDS BookingProofs, FiniteSetTheorems

-----------------------------------------------------------------------------
(* The effects of a step.                                                  *)

\* The step does not change how many seats b has reserved or will give back.
SameParty(b) == /\ booking'[b].seats = booking[b].seats
                /\ booking'[b].party = booking[b].party

\* The status of b becomes st, and no other booking changes status or seats.
Turns(b, st) ==
    /\ booking'[b].status = st
    /\ \A c \in Bookings \ {b} : booking'[c].status = booking[c].status /\ SameParty(c)

Keeps ==
    /\ seats' = seats
    /\ \A c \in Bookings : booking'[c].status = booking[c].status /\ SameParty(c)

\* create and approveAssistedDraft.
Books(b) ==
    /\ booking[b].status = "ABSENT" /\ Turns(b, "PENDING")
    /\ booking'[b].seats \in 1..MaxParty
    /\ WellFormedParties => booking'[b].party = booking'[b].seats
    /\ seats >= booking'[b].seats /\ seats' = seats - booking'[b].seats

\* A payment is recorded by compare-and-set.
Settles(b) ==
    /\ Unsettled(b) /\ Turns(b, "CONFIRMED")
    /\ SameParty(b) /\ seats' = seats

\* The booking is cancelled by compare-and-set.
Frees(b) ==
    /\ Unsettled(b) /\ Turns(b, "CANCELLED")
    /\ SameParty(b) /\ seats' = seats + booking[b].party

\* The writes that do not check the status again.
AdminCancels(b) ==
    /\ Finishes("approve", b) \/ Finishes("adminCancel", b)
    /\ Turns(b, "CANCELLED")
    /\ SameParty(b) /\ seats' = seats + booking[b].party

AdminRejects(b) ==
    /\ Finishes("reject", b) /\ Turns(b, "CONFIRMED")
    /\ SameParty(b) /\ seats' = seats

Asks(b) ==
    /\ Finishes("cancelConfirmed", b) /\ Turns(b, "CANCEL_REQUESTED")
    /\ SameParty(b) /\ seats' = seats

Effect ==
    \/ Keeps
    \/ \E b \in Bookings : \/ Books(b) \/ Settles(b) \/ Frees(b)
                           \/ AdminCancels(b) \/ AdminRejects(b) \/ Asks(b)

-----------------------------------------------------------------------------
(* Every step has one of the effects.                                      *)

\* A step that leaves rows and seats alone, or changes other columns, keeps
\* statuses and seats.
LEMMA UnchangedKeeps ==
    ASSUME UNCHANGED <<booking, seats>>
    PROVE  Keeps
  BY DEF Keeps, SameParty

\* Columns other than status and seat counts keep statuses and seats.
LEMMA OtherColumnsKeep ==
    ASSUME BookingOK, NEW b \in Bookings, NEW r,
           booking' = [booking EXCEPT ![b] = r], seats' = seats,
           r.status = booking[b].status, r.seats = booking[b].seats,
           r.party = booking[b].party
    PROVE  Keeps
  BY DEF Keeps, SameParty, BookingOK

\* Writing status st and any other column but the seat counts into b's row.
LEMMA WriteTurns ==
    ASSUME BookingOK, NEW b \in Bookings, NEW st, NEW r,
           booking' = [booking EXCEPT ![b] = r],
           r.status = st, r.seats = booking[b].seats, r.party = booking[b].party
    PROVE  Turns(b, st) /\ SameParty(b)
  BY DEF Turns, SameParty, BookingOK

\* cancelAndRestoreSeats frees the booking's seats or does nothing.
LEMMA CancelAndRestoreEffect ==
    ASSUME BookingOK, NEW b \in Bookings, CancelAndRestoreSeats(b)
    PROVE  Effect
<1>1. CASE Unsettled(b)
  <2> DEFINE r == [booking[b] EXCEPT !.status = "CANCELLED", !.pay = "FAILED"]
  <2>1. booking' = [booking EXCEPT ![b] = r]
    BY <1>1 DEF CancelAndRestoreSeats, BookingOK
  <2>2. r.status = "CANCELLED" /\ r.seats = booking[b].seats /\ r.party = booking[b].party
    BY DEF BookingOK, Row
  <2>3. Turns(b, "CANCELLED") /\ SameParty(b)
    BY <2>1, <2>2, WriteTurns
  <2> QED
    BY <1>1, <2>3 DEF CancelAndRestoreSeats, ReleaseSeats, Frees, Effect
<1>2. CASE ~Unsettled(b)
  BY <1>2, UnchangedKeeps DEF CancelAndRestoreSeats, Effect
<1> QED
  BY <1>1, <1>2

\* Recording a payment settles an unsettled booking.
LEMMA ConfirmedEffect ==
    ASSUME BookingOK, NEW b \in Bookings, Unsettled(b), Confirmed(b), seats' = seats
    PROVE  Effect
<1> DEFINE r == [booking[b] EXCEPT !.status = "CONFIRMED", !.pay = "PAID"]
<1>1. booking' = [booking EXCEPT ![b] = r]
  BY DEF Confirmed, BookingOK
<1>2. r.status = "CONFIRMED" /\ r.seats = booking[b].seats /\ r.party = booking[b].party
  BY DEF BookingOK, Row
<1>3. Turns(b, "CONFIRMED") /\ SameParty(b)
  BY <1>1, <1>2, WriteTurns
<1> QED
  BY <1>3 DEF Settles, Effect

\* The handler of slot s returns.
LEMMA FinishFinishes ==
    ASSUME SlotsOK, NEW s \in Slots, Finish(s), NEW b, req[s].b = b, NEW op, req[s].op = op
    PROVE  Finishes(op, b)
  BY DEF SlotsOK, Finish, Finishes, IdleReq

\* Every statement of a handler in flight has one of the effects.
LEMMA StepEffect ==
    ASSUME IInv, NEW s \in Slots, Step(s)
    PROVE  Effect
<1> DEFINE b == req[s].b
<1>0. BookingOK /\ SlotsOK
  BY Parts
<1>b. ~At(s, "idle") /\ ~At(s, "sweep") => b \in Bookings
  BY <1>0 DEF SlotsOK, SlotOK, At
<1>1. CASE AddManualRow(s)
  BY <1>1, UnchangedKeeps DEF AddManualRow, Effect
<1>2. CASE CreateLink(s)
  BY <1>2, UnchangedKeeps DEF CreateLink, Effect
<1>3. CASE AddLinkRow(s)
  BY <1>3, UnchangedKeeps DEF AddLinkRow, Effect
<1>4. CASE AddPayosRow(s)
  BY <1>4, UnchangedKeeps DEF AddPayosRow, Effect
<1>5. CASE CloseTicket(s)
  BY <1>5, UnchangedKeeps DEF CloseTicket, Effect
<1>6. CASE SwitchRowsToPayos(s)
  BY <1>6, UnchangedKeeps DEF SwitchRowsToPayos, Effect
<1>7. CASE SwitchRowsToInStore(s)
  BY <1>7, UnchangedKeeps DEF SwitchRowsToInStore, Effect
<1>8. CASE ReuseLink(s)
  BY <1>8, UnchangedKeeps DEF ReuseLink, Effect
<1>9. CASE LinkFails(s)
  BY <1>9, UnchangedKeeps DEF LinkFails, Effect
<1>10. CASE ReplacePendingPayosTransaction(s)
  BY <1>10, UnchangedKeeps DEF ReplacePendingPayosTransaction, Effect
<1>11. CASE SendPaymentRequest(s)
  BY <1>11, UnchangedKeeps DEF SendPaymentRequest, Effect
<1>12. CASE CreateLinkFails(s)
  <2>1. b \in Bookings
    BY <1>b, <1>12 DEF CreateLinkFails, At
  <2> QED
    BY <1>0, <1>12, <2>1, CancelAndRestoreEffect DEF CreateLinkFails
<1>13. CASE PayosCancel(s)
  <2>1. b \in Bookings
    BY <1>b, <1>13 DEF PayosCancel, At
  <2> QED
    BY <1>0, <1>13, <2>1, CancelAndRestoreEffect DEF PayosCancel
<1>14. CASE PayosConfirm(s)
  <2>1. b \in Bookings
    BY <1>b, <1>14 DEF PayosConfirm, At
  <2>2. CASE Unsettled(b)
    BY <1>0, <1>14, <2>1, <2>2, ConfirmedEffect DEF PayosConfirm
  <2>3. CASE ~Unsettled(b)
    BY <1>14, <2>3, UnchangedKeeps DEF PayosConfirm, Effect
  <2> QED
    BY <2>2, <2>3
<1>15. CASE ConfirmBookingAsPaid(s)
  <2>1. b \in Bookings
    BY <1>b, <1>15 DEF ConfirmBookingAsPaid, At
  <2>2. CASE Unsettled(b)
    BY <1>0, <1>15, <2>1, <2>2, ConfirmedEffect DEF ConfirmBookingAsPaid
  <2>3. CASE ~Unsettled(b)
    BY <1>15, <2>3, UnchangedKeeps DEF ConfirmBookingAsPaid, Effect
  <2> QED
    BY <2>2, <2>3
<1>16. CASE SetMethod(s)
  <2> DEFINE r == [booking[b] EXCEPT !.method = IF At(s, "toPayos") THEN "PAYOS" ELSE "IN_STORE", !.hold = Open]
  <2>1. b \in Bookings
    BY <1>b, <1>16 DEF SetMethod, At
  <2>2. booking' = [booking EXCEPT ![b] = r] /\ seats' = seats
    BY <1>0, <1>16, <2>1 DEF SetMethod, BookingOK
  <2>3. r.status = booking[b].status /\ r.seats = booking[b].seats /\ r.party = booking[b].party
    BY <1>0, <2>1 DEF BookingOK, Row
  <2> QED
    BY <1>0, <2>1, <2>2, <2>3, OtherColumnsKeep DEF Effect
<1>17. CASE RetryHold(s)
  <2> DEFINE r == [booking[b] EXCEPT !.method = "PAYOS", !.hold = IF booking[b].age = 0 THEN Window ELSE Lapsed]
  <2>1. b \in Bookings
    BY <1>b, <1>17 DEF RetryHold, At
  <2>2. booking' = [booking EXCEPT ![b] = r] /\ seats' = seats
    BY <1>0, <1>17, <2>1 DEF RetryHold, BookingOK
  <2>3. r.status = booking[b].status /\ r.seats = booking[b].seats /\ r.party = booking[b].party
    BY <1>0, <2>1 DEF BookingOK, Row
  <2> QED
    BY <1>0, <2>1, <2>2, <2>3, OtherColumnsKeep DEF Effect
<1>18. CASE PublicRetryHold(s)
  <2> DEFINE r == [booking[b] EXCEPT !.method = "PAYOS", !.hold = Open]
  <2>1. b \in Bookings
    BY <1>b, <1>18 DEF PublicRetryHold, At
  <2>2. booking' = [booking EXCEPT ![b] = r] /\ seats' = seats
    BY <1>0, <1>18, <2>1 DEF PublicRetryHold, BookingOK
  <2>3. r.status = booking[b].status /\ r.seats = booking[b].seats /\ r.party = booking[b].party
    BY <1>0, <2>1 DEF BookingOK, Row
  <2> QED
    BY <1>0, <2>1, <2>2, <2>3, OtherColumnsKeep DEF Effect
<1>19. CASE FilePaymentIssue(s)
  <2> DEFINE r == [booking[b] EXCEPT !.pay = "PROCESSING"]
  <2>1. b \in Bookings
    BY <1>b, <1>19 DEF FilePaymentIssue, At
  <2>2. booking' = [booking EXCEPT ![b] = r] /\ seats' = seats
    BY <1>0, <1>19, <2>1 DEF FilePaymentIssue, BookingOK
  <2>3. r.status = booking[b].status /\ r.seats = booking[b].seats /\ r.party = booking[b].party
    BY <1>0, <2>1 DEF BookingOK, Row
  <2> QED
    BY <1>0, <2>1, <2>2, <2>3, OtherColumnsKeep DEF Effect
<1>20. CASE CancelPending(s)
  <2> DEFINE r == [booking[b] EXCEPT !.status = "CANCELLED", !.refund = 0]
  <2>1. b \in Bookings
    BY <1>b, <1>20 DEF CancelPending, At
  <2>2. CASE booking[b].status = "PENDING"
    <3>1. booking' = [booking EXCEPT ![b] = r] /\ seats' = seats + booking[b].party
      BY <1>0, <1>20, <2>1, <2>2 DEF CancelPending, BookingOK, ReleaseSeats
    <3>2. r.status = "CANCELLED" /\ r.seats = booking[b].seats /\ r.party = booking[b].party
      BY <1>0, <2>1 DEF BookingOK, Row
    <3>3. Turns(b, "CANCELLED") /\ SameParty(b)
      BY <1>0, <2>1, <3>1, <3>2, WriteTurns
    <3> QED
      BY <2>1, <2>2, <3>1, <3>3 DEF Frees, Unsettled, Effect
  <2>3. CASE booking[b].status # "PENDING"
    BY <1>20, <2>3, UnchangedKeeps DEF CancelPending, Effect
  <2> QED
    BY <2>2, <2>3
<1>21. CASE MarkCancelRequested(s)
  <2> DEFINE r == [booking[b] EXCEPT !.status = "CANCEL_REQUESTED", !.refund = req[s].n]
  <2>1. b \in Bookings
    BY <1>b, <1>21 DEF MarkCancelRequested, At
  <2>2. booking' = [booking EXCEPT ![b] = r]
    BY <1>0, <1>21, <2>1 DEF MarkCancelRequested, BookingOK
  <2>3. r.status = "CANCEL_REQUESTED" /\ r.seats = booking[b].seats /\ r.party = booking[b].party
    BY <1>0, <2>1 DEF BookingOK, Row
  <2>4. Turns(b, "CANCEL_REQUESTED") /\ SameParty(b)
    BY <1>0, <2>1, <2>2, <2>3, WriteTurns
  <2>5. Finishes("cancelConfirmed", b)
    BY <1>0, <1>21, FinishFinishes DEF MarkCancelRequested, At
  <2> QED
    BY <1>21, <2>1, <2>4, <2>5 DEF MarkCancelRequested, Asks, Effect
<1>22. CASE ApproveWrite(s)
  <2> DEFINE r == [booking[b] EXCEPT !.status = "CANCELLED", !.pay = "FAILED", !.refunded = (req[s].n = 0)]
  <2>1. b \in Bookings
    BY <1>b, <1>22 DEF ApproveWrite, At
  <2>2. booking' = [booking EXCEPT ![b] = r]
    BY <1>0, <1>22, <2>1 DEF ApproveWrite, BookingOK
  <2>3. r.status = "CANCELLED" /\ r.seats = booking[b].seats /\ r.party = booking[b].party
    BY <1>0, <2>1 DEF BookingOK, Row
  <2>4. Turns(b, "CANCELLED") /\ SameParty(b)
    BY <1>0, <2>1, <2>2, <2>3, WriteTurns
  <2>5. Finishes("approve", b)
    BY <1>0, <1>22, FinishFinishes DEF ApproveWrite, At
  <2> QED
    BY <1>22, <2>1, <2>4, <2>5 DEF ApproveWrite, AdminCancels, Effect, ReleaseSeats
<1>23. CASE RejectWrite(s)
  <2> DEFINE r == [booking[b] EXCEPT !.status = "CONFIRMED", !.refund = 0]
  <2>1. b \in Bookings
    BY <1>b, <1>23 DEF RejectWrite, At
  <2>2. booking' = [booking EXCEPT ![b] = r]
    BY <1>0, <1>23, <2>1 DEF RejectWrite, BookingOK
  <2>3. r.status = "CONFIRMED" /\ r.seats = booking[b].seats /\ r.party = booking[b].party
    BY <1>0, <2>1 DEF BookingOK, Row
  <2>4. Turns(b, "CONFIRMED") /\ SameParty(b)
    BY <1>0, <2>1, <2>2, <2>3, WriteTurns
  <2>5. Finishes("reject", b)
    BY <1>0, <1>23, FinishFinishes DEF RejectWrite, At
  <2> QED
    BY <1>23, <2>1, <2>4, <2>5 DEF RejectWrite, AdminRejects, Effect
<1>24. CASE AdminCancelWrite(s)
  <2> DEFINE r == [booking[b] EXCEPT !.status = "CANCELLED", !.pay = "FAILED", !.refund = req[s].n]
  <2>1. b \in Bookings
    BY <1>b, <1>24 DEF AdminCancelWrite, At
  <2>2. booking' = [booking EXCEPT ![b] = r]
    BY <1>0, <1>24, <2>1 DEF AdminCancelWrite, BookingOK
  <2>3. r.status = "CANCELLED" /\ r.seats = booking[b].seats /\ r.party = booking[b].party
    BY <1>0, <2>1 DEF BookingOK, Row
  <2>4. Turns(b, "CANCELLED") /\ SameParty(b)
    BY <1>0, <2>1, <2>2, <2>3, WriteTurns
  <2>5. Finishes("adminCancel", b)
    BY <1>0, <1>24, FinishFinishes DEF AdminCancelWrite, At
  <2> QED
    BY <1>24, <2>1, <2>4, <2>5 DEF AdminCancelWrite, AdminCancels, Effect, ReleaseSeats
<1>25. CASE ConfirmRefundWrite(s)
  <2> DEFINE r == [booking[b] EXCEPT !.refunded = TRUE]
  <2>1. b \in Bookings
    BY <1>b, <1>25 DEF ConfirmRefundWrite, At
  <2>2. CASE RefundOpen(b)
    <3>1. booking' = [booking EXCEPT ![b] = r] /\ seats' = seats
      BY <1>0, <1>25, <2>1, <2>2 DEF ConfirmRefundWrite, BookingOK
    <3>2. r.status = booking[b].status /\ r.seats = booking[b].seats /\ r.party = booking[b].party
      BY <1>0, <2>1 DEF BookingOK, Row
    <3> QED
      BY <1>0, <2>1, <3>1, <3>2, OtherColumnsKeep DEF Effect
  <2>3. CASE ~RefundOpen(b)
    BY <1>25, <2>3, UnchangedKeeps DEF ConfirmRefundWrite, Effect
  <2> QED
    BY <2>2, <2>3
<1> QED
  BY <1>1, <1>2, <1>3, <1>4, <1>5, <1>6, <1>7, <1>8, <1>9, <1>10, <1>11, <1>12, <1>13, <1>14, <1>15, <1>16, <1>17, <1>18, <1>19, <1>20, <1>21, <1>22, <1>23, <1>24, <1>25 DEF Step

\* Inserting a booking row reserves its seats.
LEMMA BooksEffect ==
    ASSUME BookingOK, NEW b \in Bookings, ~Exists(b), NEW method, NEW hold,
           NEW assisted, NEW voucher, NEW reserved \in 1..MaxParty, NEW party,
           WellFormedParties => party = reserved, ReserveSeats(reserved),
           booking' = [booking EXCEPT ![b] =
               NewBooking(method, hold, assisted, voucher, reserved, party)]
    PROVE  Effect
<1> DEFINE r == NewBooking(method, hold, assisted, voucher, reserved, party)
<1>1. r.status = "PENDING" /\ r.seats = reserved /\ r.party = party
  BY DEF NewBooking
<1>2. booking'[b] = r /\ \A c \in Bookings \ {b} : booking'[c] = booking[c]
  BY DEF BookingOK
<1>3. Turns(b, "PENDING")
  BY <1>1, <1>2 DEF Turns, SameParty
<1>4. booking'[b].seats = reserved /\ booking'[b].party = party
  BY <1>1, <1>2
<1> QED
  BY <1>3, <1>4 DEF Books, Exists, ReserveSeats, Effect

\* The arrival of a request has one of the effects.
LEMMA RequestEffect ==
    ASSUME IInv, NEW s \in Slots, NEW b \in Bookings, Request(s, b)
    PROVE  Effect
<1>0. BookingOK
  BY Parts
<1>1. CASE Create(s, b)
  <2>1. PICK method \in NewMethods, voucher \in NewVouchers, p \in Parties :
          /\ ReserveSeats(p[1])
          /\ booking' = [booking EXCEPT ![b] =
                 NewBooking(method, HoldFor(method), FALSE, voucher, p[1], p[2])]
    BY <1>1 DEF Create
  <2>2. p[1] \in 1..MaxParty /\ (WellFormedParties => p[2] = p[1])
    BY PartiesAssumption DEF WellFormedParties
  <2> QED
    BY <1>0, <1>1, <2>1, <2>2, BooksEffect DEF Create
<1>2. CASE ApproveAssistedDraft(s, b)
  <2>1. PICK method \in NewMethods, voucher \in DraftVouchers, p \in Parties :
          /\ ReserveSeats(p[2])
          /\ booking' = [booking EXCEPT ![b] =
                 NewBooking(method, HoldFor(method), TRUE, voucher, p[2], p[2])]
    BY <1>2 DEF ApproveAssistedDraft
  <2>2. p[2] \in 1..MaxParty
    BY PartiesAssumption
  <2> QED
    BY <1>0, <1>2, <2>1, <2>2, BooksEffect DEF ApproveAssistedDraft
<1>3. CASE PayosReturn(s, b)
  BY <1>3, UnchangedKeeps DEF PayosReturn, Effect
<1>4. CASE ConfirmInStore(s, b)
  BY <1>4, UnchangedKeeps DEF ConfirmInStore, Proceeds, Effect
<1>5. CASE CustomerCheckPayment(s, b)
  BY <1>5, UnchangedKeeps DEF CustomerCheckPayment, Proceeds, Effect
<1>6. CASE SyncPayosStatus(s, b)
  BY <1>6, UnchangedKeeps DEF SyncPayosStatus, Proceeds, Effect
<1>7. CASE ReconcilePayosManual(s, b)
  BY <1>7, UnchangedKeeps DEF ReconcilePayosManual, Proceeds, Effect
<1>8. CASE UpdatePaymentMethod(s, b)
  BY <1>8, UnchangedKeeps DEF UpdatePaymentMethod, Proceeds, Effect
<1>9. CASE RetryPayment(s, b)
  BY <1>9, UnchangedKeeps DEF RetryPayment, Proceeds, Effect
<1>10. CASE PublicRetryPayment(s, b)
  BY <1>10, UnchangedKeeps DEF PublicRetryPayment, Proceeds, Effect
<1>11. CASE ResendPaymentRequest(s, b)
  BY <1>11, UnchangedKeeps DEF ResendPaymentRequest, Proceeds, Effect
<1>12. CASE ReportPaymentIssue(s, b)
  BY <1>12, UnchangedKeeps DEF ReportPaymentIssue, Proceeds, Effect
<1>13. CASE RequestCancelPending(s, b)
  BY <1>13, UnchangedKeeps DEF RequestCancelPending, Decides, Effect
<1>14. CASE RequestCancelConfirmed(s, b)
  BY <1>14, UnchangedKeeps DEF RequestCancelConfirmed, Decides, Effect
<1>15. CASE ApproveCancellation(s, b)
  BY <1>15, UnchangedKeeps DEF ApproveCancellation, Decides, Effect
<1>16. CASE RejectCancellation(s, b)
  BY <1>16, UnchangedKeeps DEF RejectCancellation, Decides, Effect
<1>17. CASE AdminCancelBooking(s, b)
  BY <1>17, UnchangedKeeps DEF AdminCancelBooking, Decides, Effect
<1>18. CASE ConfirmRefund(s, b)
  BY <1>18, UnchangedKeeps DEF ConfirmRefund, Decides, Effect
<1> QED
  BY <1>1, <1>2, <1>3, <1>4, <1>5, <1>6, <1>7, <1>8, <1>9, <1>10, <1>11, <1>12, <1>13, <1>14, <1>15, <1>16, <1>17, <1>18 DEF Request

\* Gateway and clock leave statuses and seats alone.
LEMMA EnvironmentKeeps ==
    ASSUME IInv, Environment
    PROVE  Keeps
<1>0. BookingOK
  BY Parts
<1>1. ASSUME NEW b \in Bookings, HoldLapses(b)
      PROVE  Keeps
  <2> DEFINE r == [booking[b] EXCEPT !.hold = Lapsed]
  <2>1. booking' = [booking EXCEPT ![b] = r] /\ seats' = seats
    BY <1>0, <1>1 DEF HoldLapses, BookingOK
  <2>2. r.status = booking[b].status /\ r.seats = booking[b].seats /\ r.party = booking[b].party
    BY <1>0 DEF BookingOK, Row
  <2> QED
    BY <1>0, <2>1, <2>2, OtherColumnsKeep
<1>2. ASSUME NEW b \in Bookings, GrowsOlder(b)
      PROVE  Keeps
  <2>1. PICK age, hold : booking' = [booking EXCEPT ![b].age = age, ![b].hold = hold]
    BY <1>2 DEF GrowsOlder
  <2> DEFINE r == [booking[b] EXCEPT !.age = age, !.hold = hold]
  <2>2. booking' = [booking EXCEPT ![b] = r] /\ seats' = seats
    BY <1>0, <1>2, <2>1 DEF GrowsOlder, BookingOK
  <2>3. r.status = booking[b].status /\ r.seats = booking[b].seats /\ r.party = booking[b].party
    BY <1>0 DEF BookingOK, Row
  <2> QED
    BY <1>0, <2>2, <2>3, OtherColumnsKeep
<1>3. CASE TimePasses
  <2>1. \A b \in Bookings :
           LET r == [booking[b] EXCEPT !.hold = Lapsed]
           IN  r.status = booking[b].status /\ r.seats = booking[b].seats
               /\ r.party = booking[b].party
    BY <1>0 DEF BookingOK, Row
  <2> QED
    BY <1>3, <2>1 DEF TimePasses, Keeps, SameParty
<1>4. ASSUME NEW b \in Bookings, NEW l \in DOMAIN link[b], PayLink(b, l)
      PROVE  Keeps
  BY <1>4, UnchangedKeeps DEF PayLink
<1>5. ASSUME NEW b \in Bookings, NEW l \in DOMAIN link[b],
             NEW how \in {"CANCELLED", "EXPIRED"}, LinkDies(b, l, how)
      PROVE  Keeps
  BY <1>5, UnchangedKeeps DEF LinkDies
<1> QED
  BY <1>1, <1>2, <1>3, <1>4, <1>5 DEF Environment

\* Every step has one of the effects.
LEMMA NextEffect ==
    ASSUME IInv, [Next]_vars
    PROVE  Effect
<1>0. BookingOK
  BY Parts
<1>1. ASSUME NEW s \in Slots, Cron(s)
      PROVE  Effect
  <2>1. CASE ScanExpired(s)
    BY <2>1, UnchangedKeeps DEF ScanExpired, Effect
  <2>2. ASSUME NEW b \in Bookings, CancelExpired(s, b)
        PROVE  Effect
    BY <1>0, <2>2, CancelAndRestoreEffect DEF CancelExpired
  <2>3. ASSUME NEW b \in Bookings, SkipExpired(s, b)
        PROVE  Effect
    BY <2>3, UnchangedKeeps DEF SkipExpired, Effect
  <2> QED
    BY <1>1, <2>1, <2>2, <2>3 DEF Cron
<1>2. ASSUME NEW s \in Slots, Abort(s)
      PROVE  Effect
  BY <1>2, UnchangedKeeps DEF Abort, Effect
<1>3. CASE UNCHANGED vars
  BY <1>3, UnchangedKeeps DEF vars, Effect
<1> QED
  BY <1>1, <1>2, <1>3, StepEffect, RequestEffect, EnvironmentKeeps DEF Next, Effect

-----------------------------------------------------------------------------
(* Theorems about the status.                                              *)

\* Only an admin's decision cancels a confirmed booking, whatever overlaps with
\* it (BookingService.cancelAndRestoreSeats, booking-cancellation.service).
THEOREM ConfirmedOnlyCancelledByAdmin == Spec => ConfirmedCancelledByAdmin
<1>1. ASSUME IInv, [Next]_vars, NEW b \in Bookings,
             booking[b].status = "CONFIRMED", booking'[b].status = "CANCELLED"
      PROVE  Finishes("approve", b) \/ Finishes("adminCancel", b)
  <2>1. Effect
    BY <1>1, NextEffect
  <2>2. ASSUME NEW c \in Bookings, NEW st, Turns(c, st)
        PROVE  c = b
    BY <1>1, <2>2 DEF Turns
  <2> QED
    BY <1>1, <2>1, <2>2
       DEF Effect, Keeps, Books, Settles, Frees, AdminCancels, AdminRejects, Asks,
           Turns, Unsettled
<1>2. IInv /\ [Next]_vars =>
        [\A b \in Bookings :
            booking[b].status = "CONFIRMED" /\ booking'[b].status = "CANCELLED"
                => Finishes("approve", b) \/ Finishes("adminCancel", b)]_vars
  BY <1>1
<1> QED
  BY <1>2, InvariantHolds, PTL DEF Spec, ConfirmedCancelledByAdmin

\* A cancelled booking comes back to life only when an admin's rejection, or the
\* request to cancel a paid booking, writes a decision taken before the booking
\* was cancelled (booking-cancellation.service).
THEOREM CancelledOnlyRevivedByLateDecision ==
    Spec => [][\A b \in Bookings :
                  booking[b].status = "CANCELLED" /\ booking'[b].status # "CANCELLED"
                      => Finishes("reject", b) \/ Finishes("cancelConfirmed", b)]_vars
<1>1. ASSUME IInv, [Next]_vars, NEW b \in Bookings,
             booking[b].status = "CANCELLED", booking'[b].status # "CANCELLED"
      PROVE  Finishes("reject", b) \/ Finishes("cancelConfirmed", b)
  <2>1. Effect
    BY <1>1, NextEffect
  <2>2. ASSUME NEW c \in Bookings, NEW st, Turns(c, st)
        PROVE  c = b
    BY <1>1, <2>2 DEF Turns
  <2> QED
    BY <1>1, <2>1, <2>2
       DEF Effect, Keeps, Books, Settles, Frees, AdminCancels, AdminRejects, Asks,
           Turns, Unsettled
<1>2. IInv /\ [Next]_vars =>
        [\A b \in Bookings :
            booking[b].status = "CANCELLED" /\ booking'[b].status # "CANCELLED"
                => Finishes("reject", b) \/ Finishes("cancelConfirmed", b)]_vars
  BY <1>1
<1> QED
  BY <1>2, InvariantHolds, PTL DEF Spec

-----------------------------------------------------------------------------
(* Requests that do not arrive leave no handler behind.                    *)

\* The requests whose write does not check the status again.
Decisions == {"cancelConfirmed", "approve", "reject", "adminCancel"}

\* The ones among them that can write a booking back to life.
LateDecisions == {"reject", "cancelConfirmed"}

Calm(kinds) == \A s \in Slots : req[s].op \notin kinds

\* A handler of a decision is in flight only if that kind of request arrives.
LEMMA CalmInvariant ==
    ASSUME NEW kinds \in SUBSET Decisions, kinds \cap Requests = {}
    PROVE  /\ Init => Calm(kinds)
           /\ IInv /\ Calm(kinds) /\ [Next]_vars => Calm(kinds)'
<1>1. Init => Calm(kinds)
  BY DEF Init, Calm, IdleReq, Decisions
<1>2. ASSUME IInv, Calm(kinds), NEW s \in Slots, NEW op, NEW b, NEW m,
             Goto(s, op, b, m), op \notin kinds
      PROVE  Calm(kinds)'
  <2>1. SlotsOK
    BY <1>2, Parts
  <2> QED
    BY <1>2, <2>1 DEF Calm, Goto, SlotsOK
<1>3. ASSUME IInv, Calm(kinds), NEW s \in Slots, Finish(s)
      PROVE  Calm(kinds)'
  <2>1. Goto(s, "idle", NoBooking, 0)
    BY <1>3 DEF Finish, Goto, IdleReq
  <2>2. "idle" \notin kinds
    BY DEF Decisions
  <2> QED
    BY <1>2, <1>3, <2>1, <2>2
<1>4. ASSUME Calm(kinds), UNCHANGED req
      PROVE  Calm(kinds)'
  BY <1>4 DEF Calm
<1>5. ASSUME IInv, Calm(kinds), NEW s \in Slots, Step(s)
      PROVE  Calm(kinds)'
  <2>1. CASE AddManualRow(s)
    BY <1>2, <1>3, <1>5, <2>1 DEF AddManualRow
  <2>2. CASE CreateLink(s)
    BY <1>2, <1>3, <1>5, <2>2 DEF CreateLink, Decisions
  <2>3. CASE CreateLinkFails(s)
    BY <1>2, <1>3, <1>5, <2>3 DEF CreateLinkFails
  <2>4. CASE AddLinkRow(s)
    BY <1>2, <1>3, <1>5, <2>4 DEF AddLinkRow
  <2>5. CASE PayosConfirm(s)
    BY <1>2, <1>3, <1>5, <2>5 DEF PayosConfirm, Decisions
  <2>6. CASE PayosCancel(s)
    BY <1>2, <1>3, <1>5, <2>6 DEF PayosCancel, Decisions
  <2>7. CASE AddPayosRow(s)
    BY <1>2, <1>3, <1>5, <2>7 DEF AddPayosRow
  <2>8. CASE ConfirmBookingAsPaid(s)
    BY <1>2, <1>3, <1>5, <2>8 DEF ConfirmBookingAsPaid, Decisions
  <2>9. CASE CloseTicket(s)
    BY <1>2, <1>3, <1>5, <2>9 DEF CloseTicket
  <2>10. CASE SetMethod(s)
    BY <1>2, <1>3, <1>5, <2>10 DEF SetMethod, Decisions
  <2>11. CASE SwitchRowsToPayos(s)
    BY <1>2, <1>3, <1>5, <2>11 DEF SwitchRowsToPayos
  <2>12. CASE SwitchRowsToInStore(s)
    BY <1>2, <1>3, <1>5, <2>12 DEF SwitchRowsToInStore
  <2>13. CASE RetryHold(s)
    BY <1>2, <1>3, <1>5, <2>13 DEF RetryHold, Decisions
  <2>14. CASE PublicRetryHold(s)
    BY <1>2, <1>3, <1>5, <2>14 DEF PublicRetryHold, Decisions
  <2>15. CASE ReuseLink(s)
    BY <1>2, <1>3, <1>5, <2>15 DEF ReuseLink, Decisions
  <2>16. CASE LinkFails(s)
    BY <1>2, <1>3, <1>5, <2>16 DEF LinkFails
  <2>17. CASE ReplacePendingPayosTransaction(s)
    BY <1>2, <1>3, <1>5, <2>17 DEF ReplacePendingPayosTransaction
  <2>18. CASE SendPaymentRequest(s)
    BY <1>2, <1>3, <1>5, <2>18 DEF SendPaymentRequest, Decisions
  <2>19. CASE FilePaymentIssue(s)
    BY <1>2, <1>3, <1>5, <2>19 DEF FilePaymentIssue
  <2>20. CASE CancelPending(s)
    BY <1>2, <1>3, <1>5, <2>20 DEF CancelPending
  <2>21. CASE MarkCancelRequested(s)
    BY <1>2, <1>3, <1>5, <2>21 DEF MarkCancelRequested
  <2>22. CASE ApproveWrite(s)
    BY <1>2, <1>3, <1>5, <2>22 DEF ApproveWrite
  <2>23. CASE RejectWrite(s)
    BY <1>2, <1>3, <1>5, <2>23 DEF RejectWrite
  <2>24. CASE AdminCancelWrite(s)
    BY <1>2, <1>3, <1>5, <2>24 DEF AdminCancelWrite
  <2>25. CASE ConfirmRefundWrite(s)
    BY <1>2, <1>3, <1>5, <2>25 DEF ConfirmRefundWrite
  <2> QED
    BY <1>5, <2>1, <2>2, <2>3, <2>4, <2>5, <2>6, <2>7, <2>8, <2>9, <2>10, <2>11, <2>12, <2>13, <2>14, <2>15, <2>16, <2>17, <2>18, <2>19, <2>20, <2>21, <2>22, <2>23, <2>24, <2>25 DEF Step
<1>6. ASSUME IInv, Calm(kinds), NEW s \in Slots, NEW b \in Bookings, Request(s, b)
      PROVE  Calm(kinds)'
  <2>1. CASE Create(s, b)
    BY <1>2, <1>6, <2>1 DEF Create, Decisions
  <2>2. CASE ApproveAssistedDraft(s, b)
    BY <1>2, <1>6, <2>2 DEF ApproveAssistedDraft, Decisions
  <2>3. CASE PayosReturn(s, b)
    BY <1>2, <1>6, <2>3 DEF PayosReturn, Decisions
  <2>4. CASE ConfirmInStore(s, b)
    BY <1>2, <1>6, <2>4 DEF ConfirmInStore, Proceeds, Decisions
  <2>5. CASE CustomerCheckPayment(s, b)
    BY <1>2, <1>6, <2>5 DEF CustomerCheckPayment, Proceeds, Decisions
  <2>6. CASE SyncPayosStatus(s, b)
    BY <1>2, <1>6, <2>6 DEF SyncPayosStatus, Proceeds, Decisions
  <2>7. CASE ReconcilePayosManual(s, b)
    BY <1>2, <1>6, <2>7 DEF ReconcilePayosManual, Proceeds, Decisions
  <2>8. CASE UpdatePaymentMethod(s, b)
    BY <1>2, <1>6, <2>8 DEF UpdatePaymentMethod, Proceeds, Decisions
  <2>9. CASE RetryPayment(s, b)
    BY <1>2, <1>6, <2>9 DEF RetryPayment, Proceeds, Decisions
  <2>10. CASE PublicRetryPayment(s, b)
    BY <1>2, <1>6, <2>10 DEF PublicRetryPayment, Proceeds, Decisions
  <2>11. CASE ResendPaymentRequest(s, b)
    BY <1>2, <1>6, <2>11 DEF ResendPaymentRequest, Proceeds, Decisions
  <2>12. CASE ReportPaymentIssue(s, b)
    BY <1>2, <1>6, <2>12 DEF ReportPaymentIssue, Proceeds, Decisions
  <2>13. CASE RequestCancelPending(s, b)
    BY <1>2, <1>6, <2>13 DEF RequestCancelPending, Decides, Decisions
  <2>14. CASE RequestCancelConfirmed(s, b)
    BY <1>2, <1>6, <2>14 DEF RequestCancelConfirmed, Decides, Arrives, Decisions
  <2>15. CASE ApproveCancellation(s, b)
    BY <1>2, <1>6, <2>15 DEF ApproveCancellation, Decides, Arrives, Decisions
  <2>16. CASE RejectCancellation(s, b)
    BY <1>2, <1>6, <2>16 DEF RejectCancellation, Decides, Arrives, Decisions
  <2>17. CASE AdminCancelBooking(s, b)
    BY <1>2, <1>6, <2>17 DEF AdminCancelBooking, Decides, Arrives, Decisions
  <2>18. CASE ConfirmRefund(s, b)
    BY <1>2, <1>6, <2>18 DEF ConfirmRefund, Decides, Decisions
  <2> QED
    BY <1>6, <2>1, <2>2, <2>3, <2>4, <2>5, <2>6, <2>7, <2>8, <2>9, <2>10, <2>11, <2>12, <2>13, <2>14, <2>15, <2>16, <2>17, <2>18 DEF Request
<1>7. ASSUME IInv, Calm(kinds), NEW s \in Slots, Cron(s)
      PROVE  Calm(kinds)'
  <2>1. CASE ScanExpired(s)
    BY <1>2, <1>7, <2>1 DEF ScanExpired, Decisions
  <2>2. ASSUME NEW b \in Bookings, Visited(s, b)
        PROVE  Calm(kinds)'
    BY <1>3, <1>4, <1>7, <2>2 DEF Visited
  <2> QED
    BY <1>7, <2>1, <2>2 DEF Cron, CancelExpired, SkipExpired
<1>8. ASSUME IInv, Calm(kinds), Environment
      PROVE  Calm(kinds)'
  BY <1>4, <1>8 DEF Environment, PayLink, LinkDies, HoldLapses, GrowsOlder, TimePasses
<1>9. IInv /\ Calm(kinds) /\ [Next]_vars => Calm(kinds)'
  BY <1>3, <1>4, <1>5, <1>6, <1>7, <1>8 DEF Next, vars, Abort
<1> QED
  BY <1>1, <1>9

\* While no such decision is taken, no step of any kind revives a cancelled
\* booking: the compare-and-sets on the status suffice.
THEOREM CancelledStaysCancelled ==
    ASSUME Requests \cap LateDecisions = {}
    PROVE  Spec => CancelledIsFinal
<1>0. LateDecisions \in SUBSET Decisions /\ LateDecisions \cap Requests = {}
  BY DEF LateDecisions, Decisions
<1>1. /\ Init => Calm(LateDecisions)
      /\ IInv /\ Calm(LateDecisions) /\ [Next]_vars => Calm(LateDecisions)'
  BY <1>0, CalmInvariant
<1>2. ASSUME Calm(LateDecisions), NEW b \in Bookings
      PROVE  ~Finishes("reject", b) /\ ~Finishes("cancelConfirmed", b)
  BY <1>2 DEF Calm, LateDecisions, Finishes
<1>3. Calm(LateDecisions) /\
        [\A b \in Bookings :
            booking[b].status = "CANCELLED" /\ booking'[b].status # "CANCELLED"
                => Finishes("reject", b) \/ Finishes("cancelConfirmed", b)]_vars
        => [\A b \in Bookings :
              booking[b].status = "CANCELLED" => booking'[b].status = "CANCELLED"]_vars
  BY <1>2
<1> QED
  BY <1>1, <1>3, InvariantHolds, CancelledOnlyRevivedByLateDecision, PTL
     DEF Spec, CancelledIsFinal

-----------------------------------------------------------------------------
(* Theorems about the seats.                                               *)

\* Cancelling a booking puts back what it reserved, if parties are well formed.
SeatInv ==
    \A b \in Bookings :
        /\ booking[b].seats \in 0..MaxParty
        /\ WellFormedParties => booking[b].party = booking[b].seats

\* Every booking holds at most MaxParty seats and gives back what it took.
LEMMA SeatInvHolds == Spec => []SeatInv
<1>1. Init => SeatInv
  BY CapacityAssumption DEF Init, SeatInv, Absent
<1>2. ASSUME SeatInv, Effect
      PROVE  SeatInv'
  <2>1. ASSUME NEW c \in Bookings, SameParty(c)
        PROVE  /\ booking'[c].seats \in 0..MaxParty
               /\ WellFormedParties => booking'[c].party = booking'[c].seats
    BY <1>2, <2>1 DEF SeatInv, SameParty
  <2>2. CASE Keeps
    BY <2>1, <2>2 DEF Keeps, SeatInv, WellFormedParties
  <2>3. ASSUME NEW b \in Bookings, NEW st, Turns(b, st), SameParty(b)
        PROVE  SeatInv'
    BY <2>1, <2>3 DEF Turns, SeatInv, WellFormedParties
  <2>4. ASSUME NEW b \in Bookings, Books(b)
        PROVE  SeatInv'
    BY <2>1, <2>4, CapacityAssumption DEF Books, Turns, SeatInv, WellFormedParties
  <2> QED
    BY <1>2, <2>2, <2>3, <2>4
       DEF Effect, Settles, Frees, AdminCancels, AdminRejects, Asks
<1>3. IInv /\ SeatInv /\ [Next]_vars => SeatInv'
  BY <1>2, NextEffect
<1> QED
  BY <1>1, <1>3, InvariantHolds, PTL DEF Spec

\* The seats of live bookings can be counted.
LEMMA HeldFinite == IsFiniteSet(Held) /\ IsFiniteSet(Held')
<1>1. IsFiniteSet(1..MaxParty)
  BY FS_Interval, CapacityAssumption
<1>2. IsFiniteSet(Bookings \X (1..MaxParty))
  BY <1>1, FS_Product, BookingsAssumption
<1> QED
  BY <1>2, FS_Subset DEF Held

\* A party of k seats next to a set of other seats.
LEMMA PartyCounts ==
    ASSUME NEW S, IsFiniteSet(S), NEW b, NEW k \in Nat, S \cap ({b} \X (1..k)) = {}
    PROVE  Cardinality(S \cup ({b} \X (1..k))) = Cardinality(S) + k
<1>1. IsFiniteSet(1..k) /\ Cardinality(1..k) = k
  BY FS_Interval
<1>2. IsFiniteSet({b}) /\ Cardinality({b}) = 1
  BY FS_Singleton
<1>3. IsFiniteSet({b} \X (1..k)) /\ Cardinality({b} \X (1..k)) = k
  BY <1>1, <1>2, FS_Product
<1>4. Cardinality(S) \in Nat
  BY FS_CardinalityType
<1>5. Cardinality(S \cap ({b} \X (1..k))) = 0
  BY FS_EmptySet
<1>6. Cardinality(S \cup ({b} \X (1..k)))
        = Cardinality(S) + Cardinality({b} \X (1..k)) - Cardinality(S \cap ({b} \X (1..k)))
  BY <1>3, FS_Union
<1> QED
  BY <1>3, <1>4, <1>5, <1>6

\* How the seats held by live bookings change when one booking changes status.
LEMMA HeldChanges ==
    ASSUME SeatInv, SeatInv', NEW b \in Bookings, NEW st, Turns(b, st)
    PROVE  /\ Live(b) /\ Live(b)' /\ SameParty(b) => Cardinality(Held') = Cardinality(Held)
           /\ ~Live(b) /\ ~Live(b)' => Cardinality(Held') = Cardinality(Held)
           /\ ~Live(b) /\ Live(b)' =>
                 Cardinality(Held') = Cardinality(Held) + booking'[b].seats
           /\ Live(b) /\ ~Live(b)' =>
                 Cardinality(Held') = Cardinality(Held) - booking[b].seats
<1>1. IsFiniteSet(Held) /\ IsFiniteSet(Held')
  BY HeldFinite
<1>2. \A c \in Bookings \ {b} : SameParty(c) /\ (Live(c) <=> Live(c)')
  BY DEF Turns, Live
<1>3. CASE Live(b) /\ Live(b)' /\ SameParty(b)
  BY <1>2, <1>3 DEF Held, SameParty
<1>4. CASE ~Live(b) /\ ~Live(b)'
  BY <1>2, <1>4 DEF Held, SameParty
<1>5. CASE ~Live(b) /\ Live(b)'
  <2> DEFINE k == booking'[b].seats
  <2>1. k \in 0..MaxParty
    BY DEF SeatInv
  <2>2. \A p : p \in Held' <=> p \in Held \/ p \in {b} \X (1..k)
    <3>1. ASSUME NEW p \in Bookings \X (1..MaxParty)
          PROVE  p \in Held' <=> p \in Held \/ p \in {b} \X (1..k)
      <4>1. CASE p[1] = b
        BY <1>5, <2>1, <3>1, <4>1 DEF Held
      <4>2. CASE p[1] # b
        BY <1>2, <3>1, <4>2 DEF Held, SameParty
      <4> QED
        BY <4>1, <4>2
    <3>2. ASSUME NEW p, p \in Held \/ p \in Held' \/ p \in {b} \X (1..k)
          PROVE  p \in Bookings \X (1..MaxParty)
      BY <2>1, <3>2, CapacityAssumption DEF Held
    <3> QED
      BY <3>1, <3>2
  <2>3. Held \cap ({b} \X (1..k)) = {}
    <3>1. ASSUME NEW p \in Held
          PROVE  p \notin {b} \X (1..k)
      BY <1>5, <3>1 DEF Held
    <3> QED
      BY <3>1
  <2>4. k \in Nat /\ Held' = Held \cup ({b} \X (1..k))
    BY <2>1, <2>2, CapacityAssumption
  <2> HIDE DEF k
  <2>5. Cardinality(Held \cup ({b} \X (1..k))) = Cardinality(Held) + k
    BY <1>1, <2>3, <2>4, PartyCounts
  <2>6. Cardinality(Held') = Cardinality(Held) + k
    BY <2>4, <2>5
  <2> QED
    BY <1>5, <2>6 DEF k
<1>6. CASE Live(b) /\ ~Live(b)'
  <2> DEFINE k == booking[b].seats
  <2>1. k \in 0..MaxParty
    BY DEF SeatInv
  <2>2. \A p : p \in Held <=> p \in Held' \/ p \in {b} \X (1..k)
    <3>1. ASSUME NEW p \in Bookings \X (1..MaxParty)
          PROVE  p \in Held <=> p \in Held' \/ p \in {b} \X (1..k)
      <4>1. CASE p[1] = b
        BY <1>6, <2>1, <3>1, <4>1 DEF Held
      <4>2. CASE p[1] # b
        BY <1>2, <3>1, <4>2 DEF Held, SameParty
      <4> QED
        BY <4>1, <4>2
    <3>2. ASSUME NEW p, p \in Held \/ p \in Held' \/ p \in {b} \X (1..k)
          PROVE  p \in Bookings \X (1..MaxParty)
      BY <2>1, <3>2, CapacityAssumption DEF Held
    <3> QED
      BY <3>1, <3>2
  <2>3. Held' \cap ({b} \X (1..k)) = {}
    <3>1. ASSUME NEW p \in Held'
          PROVE  p \notin {b} \X (1..k)
      BY <1>6, <3>1 DEF Held
    <3> QED
      BY <3>1
  <2>4. k \in Nat /\ Held = Held' \cup ({b} \X (1..k))
    BY <2>1, <2>2, CapacityAssumption
  <2> HIDE DEF k
  <2>5. Cardinality(Held' \cup ({b} \X (1..k))) = Cardinality(Held') + k
    BY <1>1, <2>3, <2>4, PartyCounts
  <2>6. Cardinality(Held) = Cardinality(Held') + k /\ Cardinality(Held') \in Nat
    BY <1>1, <2>4, <2>5, FS_CardinalityType
  <2> QED
    BY <1>6, <2>4, <2>6 DEF k
<1> QED
  BY <1>3, <1>4, <1>5, <1>6

\* What this step writes without checking the status again is still due.
Timely ==
    \A b \in Bookings : /\ AdminCancels(b) => Live(b)
                        /\ AdminRejects(b) => booking[b].status = "CANCEL_REQUESTED"
                        /\ Asks(b) => booking[b].status = "CONFIRMED"

LEMMA CalmIsTimely ==
    ASSUME Calm(Decisions)
    PROVE  Timely
  BY DEF Calm, Decisions, Timely, AdminCancels, AdminRejects, Asks, Finishes

\* The balance of the departure: no effect lowers it, and only a late decision
\* raises it.
LEMMA SeatBalance ==
    ASSUME IInv, SeatInv, SeatInv', Effect, WellFormedParties
    PROVE  /\ seats' + Cardinality(Held') >= seats + Cardinality(Held)
           /\ Timely => seats' + Cardinality(Held') = seats + Cardinality(Held)
<1>0. seats \in Nat /\ Cardinality(Held) \in Nat
  BY HeldFinite, FS_CardinalityType DEF IInv, TypeOK
<1>1. \A c \in Bookings : /\ booking[c].seats \in Nat /\ booking[c].party = booking[c].seats
                          /\ booking'[c].seats \in Nat
  BY CapacityAssumption DEF SeatInv, WellFormedParties
<1>2. CASE Keeps
  <2>1. Held' = Held
    BY <1>2 DEF Keeps, Held, Live, SameParty
  <2> QED
    BY <1>0, <1>2, <2>1 DEF Keeps
<1>3. ASSUME NEW b \in Bookings, Books(b)
      PROVE  seats' + Cardinality(Held') = seats + Cardinality(Held)
  <2>1. ~Live(b) /\ Live(b)'
    BY <1>3 DEF Books, Turns, Live
  <2>2. Cardinality(Held') = Cardinality(Held) + booking'[b].seats
    BY <1>3, <2>1, HeldChanges DEF Books
  <2> QED
    BY <1>0, <1>1, <1>3, <2>2 DEF Books
<1>4. ASSUME NEW b \in Bookings, Settles(b)
      PROVE  seats' + Cardinality(Held') = seats + Cardinality(Held)
  <2>1. Live(b) /\ Live(b)'
    BY <1>4 DEF Settles, Turns, Live, Unsettled
  <2> QED
    BY <1>4, <2>1, HeldChanges DEF Settles
<1>5. ASSUME NEW b \in Bookings, Turns(b, "CANCELLED"), SameParty(b), Live(b),
             seats' = seats + booking[b].party
      PROVE  seats' + Cardinality(Held') = seats + Cardinality(Held)
  <2>1. ~Live(b)'
    BY <1>5 DEF Turns, Live
  <2>2. Cardinality(Held') = Cardinality(Held) - booking[b].seats
    BY <1>5, <2>1, HeldChanges
  <2> QED
    BY <1>0, <1>1, <1>5, <2>2
<1>6. ASSUME NEW b \in Bookings, Frees(b)
      PROVE  seats' + Cardinality(Held') = seats + Cardinality(Held)
  BY <1>5, <1>6 DEF Frees, Unsettled, Live
<1>7. ASSUME NEW b \in Bookings, AdminCancels(b)
      PROVE  seats' + Cardinality(Held') >= seats + Cardinality(Held)
  <2>1. CASE Live(b)
    <3>1. seats' + Cardinality(Held') = seats + Cardinality(Held)
      BY <1>5, <1>7, <2>1 DEF AdminCancels
    <3> QED
      BY <1>0, <3>1
  <2>2. CASE ~Live(b)
    <3>1. ~Live(b)'
      BY <1>7 DEF AdminCancels, Turns, Live
    <3>2. Cardinality(Held') = Cardinality(Held)
      BY <1>7, <2>2, <3>1, HeldChanges DEF AdminCancels
    <3> QED
      BY <1>0, <1>1, <1>7, <3>2 DEF AdminCancels
  <2> QED
    BY <2>1, <2>2
<1>8. ASSUME NEW b \in Bookings, AdminRejects(b) \/ Asks(b)
      PROVE  seats' + Cardinality(Held') >= seats + Cardinality(Held)
  <2>1. seats' = seats /\ SameParty(b) /\ Live(b)'
    BY <1>8 DEF AdminRejects, Asks, Turns, Live
  <2>2. PICK st : Turns(b, st)
    BY <1>8 DEF AdminRejects, Asks
  <2>3. \/ Cardinality(Held') = Cardinality(Held)
        \/ Cardinality(Held') = Cardinality(Held) + booking'[b].seats
    BY <2>1, <2>2, HeldChanges
  <2> QED
    BY <1>0, <1>1, <2>1, <2>3
<1>9. ASSUME Timely, NEW b \in Bookings, AdminCancels(b) \/ AdminRejects(b) \/ Asks(b)
      PROVE  seats' + Cardinality(Held') = seats + Cardinality(Held)
  <2>1. CASE AdminCancels(b)
    BY <1>5, <1>9, <2>1 DEF Timely, AdminCancels
  <2>2. CASE AdminRejects(b) \/ Asks(b)
    <3>1. seats' = seats /\ SameParty(b) /\ Live(b) /\ Live(b)'
      BY <1>9, <2>2 DEF Timely, AdminRejects, Asks, Turns, Live
    <3>2. PICK st : Turns(b, st)
      BY <2>2 DEF AdminRejects, Asks
    <3> QED
      BY <3>1, <3>2, HeldChanges
  <2> QED
    BY <1>9, <2>1, <2>2
<1>a. CASE \E b \in Bookings : Books(b) \/ Settles(b) \/ Frees(b)
  <2>1. seats' + Cardinality(Held') = seats + Cardinality(Held)
    BY <1>a, <1>3, <1>4, <1>6
  <2> QED
    BY <1>0, <2>1
<1> QED
  BY <1>2, <1>7, <1>8, <1>9, <1>a DEF Effect

\* No seat of the departure ever disappears: whatever requests overlap and
\* wherever they stop, every seat is free or held by a live booking.
THEOREM SeatsNeverLost ==
    ASSUME WellFormedParties
    PROVE  Spec => []NoSeatLost
<1>1. Init => Held = {}
  BY DEF Init, Held, Live, Absent
<1>2. Init => NoSeatLost
  <2> SUFFICES ASSUME Init PROVE NoSeatLost
    OBVIOUS
  <2>1. Cardinality(Held) = 0
    BY <1>1, FS_EmptySet
  <2>2. seats = Capacity
    BY DEF Init
  <2> QED
    BY <2>1, <2>2, CapacityAssumption DEF NoSeatLost
<1>3. IInv /\ SeatInv /\ SeatInv' /\ NoSeatLost /\ [Next]_vars => NoSeatLost'
  <2> SUFFICES ASSUME IInv, SeatInv, SeatInv', NoSeatLost, [Next]_vars
               PROVE  NoSeatLost'
    OBVIOUS
  <2>1. seats' + Cardinality(Held') >= seats + Cardinality(Held)
    BY NextEffect, SeatBalance
  <2>2. IInv'
    BY NextPreservesIInv
  <2>3. /\ seats \in Nat /\ Cardinality(Held) \in Nat
        /\ seats' \in Nat /\ Cardinality(Held') \in Nat
    BY <2>2, HeldFinite, FS_CardinalityType DEF IInv, TypeOK
  <2> QED
    BY <2>1, <2>3, CapacityAssumption DEF NoSeatLost
<1> QED
  BY <1>2, <1>3, InvariantHolds, SeatInvHolds, PTL DEF Spec

LEMMA BalancedAtFirst ==
    ASSUME Init
    PROVE  SeatsConserved
<1>1. Held = {}
  BY DEF Init, Held, Live, Absent
<1>2. Cardinality(Held) = 0
  BY <1>1, FS_EmptySet
<1>3. seats = Capacity
  BY DEF Init
<1> QED
  BY <1>2, <1>3, CapacityAssumption DEF SeatsConserved

\* Creating, paying, retrying, cancelling unpaid bookings and expiring them keep
\* the exact balance of the departure, however they interleave.
THEOREM SeatsBalance ==
    ASSUME WellFormedParties, Requests \cap Decisions = {}
    PROVE  Spec => []SeatsConserved
<1>2. Init => SeatsConserved
  BY BalancedAtFirst
<1>3. IInv /\ Calm(Decisions) /\ [Next]_vars => Calm(Decisions)'
  BY CalmInvariant
<1>5. Init => Calm(Decisions)
  BY CalmInvariant
<1>4. IInv /\ Calm(Decisions) /\ SeatInv /\ SeatInv' /\ SeatsConserved /\ [Next]_vars
        => SeatsConserved'
  BY NextEffect, CalmIsTimely, SeatBalance DEF SeatsConserved
<1> QED
  BY <1>2, <1>3, <1>4, <1>5, InvariantHolds, SeatInvHolds, PTL DEF Spec

LEMMA BalancedIsNotOversold ==
    ASSUME IInv, SeatsConserved
    PROVE  NoOverselling
<1>1. Cardinality(Held) \in Nat
  BY HeldFinite, FS_CardinalityType
<1> QED
  BY <1>1, CapacityAssumption DEF IInv, TypeOK, SeatsConserved, NoOverselling

\* ... so the departure is never oversold by them.
THEOREM NeverOversold ==
    ASSUME WellFormedParties, Requests \cap Decisions = {}
    PROVE  Spec => []NoOverselling
<1>1. IInv /\ SeatsConserved => NoOverselling
  BY BalancedIsNotOversold
<1> QED
  BY <1>1, SeatsBalance, InvariantHolds, PTL

-----------------------------------------------------------------------------
(* Booking implements SeatInventory, as long as no handler writes a        *)
(* decision without checking the status again.                             *)

Phase == [b \in Bookings |-> PhaseOf(booking[b].status)]
Party == [b \in Bookings |-> booking[b].seats]

\* The three shared pieces of the inventory, as Booking keeps them.
InventoryVars == <<seats, Phase, Party>>

\* A booking that turns from one status to another changes one phase only.
LEMMA TurnsPhase ==
    ASSUME NEW b \in Bookings, NEW st, Turns(b, st)
    PROVE  /\ Phase' = [Phase EXCEPT ![b] = PhaseOf(st)]
           /\ SameParty(b) => Party' = Party
<1>1. Phase' = [c \in Bookings |-> PhaseOf(booking'[c].status)]
  BY DEF Phase
<1>2. \A c \in Bookings \ {b} : booking'[c].status = booking[c].status /\ SameParty(c)
  BY DEF Turns
<1>3. booking'[b].status = st
  BY DEF Turns
<1>4. Phase' = [Phase EXCEPT ![b] = PhaseOf(st)]
  BY <1>1, <1>2, <1>3 DEF Phase
<1>5. SameParty(b) => Party' = Party
  BY <1>2 DEF Party, SameParty
<1> QED
  BY <1>4, <1>5

\* Each effect of a step is a step of the inventory or leaves it alone.
LEMMA EffectMaps ==
    ASSUME SeatInv, WellFormedParties, Timely, Effect
    PROVE  Inventory!Next \/ UNCHANGED InventoryVars
<1>0. \A b \in Bookings : booking[b].party = booking[b].seats
  BY DEF SeatInv, WellFormedParties
<1>1. CASE Keeps
  <2>1. Phase' = Phase /\ Party' = Party
    BY <1>1 DEF Keeps, SameParty, Phase, Party
  <2> QED
    BY <1>1, <2>1 DEF Keeps, InventoryVars
<1>2. ASSUME NEW b \in Bookings, Books(b)
      PROVE  Inventory!Next
  <2> DEFINE n == booking'[b].seats
  <2>1. Phase[b] = "new" /\ PhaseOf("PENDING") = "held"
    BY <1>2 DEF Books, Phase, PhaseOf
  <2>2. Phase' = [Phase EXCEPT ![b] = "held"]
    BY <1>2, <2>1, TurnsPhase DEF Books
  <2>3. Party' = [Party EXCEPT ![b] = n]
    BY <1>2 DEF Books, Turns, SameParty, Party
  <2>4. n \in 1..MaxParty /\ seats >= n /\ seats' = seats - n
    BY <1>2 DEF Books
  <2> HIDE DEF n
  <2> QED
    BY <2>1, <2>2, <2>3, <2>4 DEF Inventory!Next, Inventory!Hold, Phase, Party
<1>3. ASSUME NEW b \in Bookings, Settles(b)
      PROVE  Inventory!Next \/ UNCHANGED InventoryVars
  <2>1. Phase' = [Phase EXCEPT ![b] = "sold"] /\ Party' = Party /\ seats' = seats
    BY <1>3, TurnsPhase DEF Settles, PhaseOf
  <2>2. CASE booking[b].status = "PENDING"
    <3>1. Phase[b] = "held"
      BY <2>2 DEF Phase, PhaseOf
    <3>2. Inventory!Settle(b)
      BY <2>1, <3>1 DEF Inventory!Settle, Phase, Party
    <3> QED
      BY <3>2 DEF Inventory!Next
  <2>3. CASE booking[b].status = "CANCEL_REQUESTED"
    <3>1. Phase[b] = "sold"
      BY <2>3 DEF Phase, PhaseOf
    <3>2. Phase' = Phase
      BY <2>1, <3>1 DEF Phase
    <3> QED
      BY <2>1, <3>2 DEF InventoryVars
  <2> QED
    BY <1>3, <2>2, <2>3 DEF Settles, Unsettled
<1>4. ASSUME NEW b \in Bookings, Frees(b) \/ AdminCancels(b)
      PROVE  Inventory!Next
  <2>1. Phase[b] \in {"held", "sold"}
    BY <1>4 DEF Frees, Unsettled, Timely, Live, Phase, PhaseOf
  <2>2. Phase' = [Phase EXCEPT ![b] = "gone"] /\ Party' = Party
    BY <1>4, TurnsPhase DEF Frees, AdminCancels, PhaseOf
  <2>3. seats' = seats + Party[b]
    BY <1>0, <1>4 DEF Frees, AdminCancels, Party
  <2>4. Inventory!GiveBack(b)
    BY <2>1, <2>2, <2>3 DEF Inventory!GiveBack, Phase, Party
  <2> QED
    BY <2>4 DEF Inventory!Next
<1>5. ASSUME NEW b \in Bookings, AdminRejects(b) \/ Asks(b)
      PROVE  UNCHANGED InventoryVars
  <2>1. Phase' = [Phase EXCEPT ![b] = "sold"] /\ Party' = Party /\ seats' = seats
    BY <1>5, TurnsPhase DEF AdminRejects, Asks, PhaseOf
  <2>2. Phase[b] = "sold"
    BY <1>5 DEF Timely, Phase, PhaseOf
  <2>3. Phase' = Phase
    BY <2>1, <2>2 DEF Phase
  <2> QED
    BY <2>1, <2>3 DEF InventoryVars
<1> QED
  BY <1>1, <1>2, <1>3, <1>4, <1>5 DEF Effect

\* Create, payment, retry, cancellation and expiry, however they interleave and
\* wherever they stop, use the seats of the departure as SeatInventory promises.
THEOREM BookingImplementsInventory ==
    ASSUME WellFormedParties, Requests \cap Decisions = {}
    PROVE  Spec => SeatsTakenOnce
<1>1. Init => Inventory!Init
  BY DEF Init, Inventory!Init, Absent, PhaseOf
<1>2. IInv /\ SeatInv /\ Calm(Decisions) /\ [Next]_vars => [Inventory!Next]_(Inventory!vars)
  <2> SUFFICES ASSUME IInv, SeatInv, Calm(Decisions), [Next]_vars
               PROVE  Inventory!Next \/ UNCHANGED Inventory!vars
    OBVIOUS
  <2>1. Inventory!Next \/ UNCHANGED InventoryVars
    BY NextEffect, CalmIsTimely, EffectMaps
  <2> QED
    BY <2>1 DEF InventoryVars, Inventory!vars, Phase, Party
<1>3. /\ Init => Calm(Decisions)
      /\ IInv /\ Calm(Decisions) /\ [Next]_vars => Calm(Decisions)'
  BY CalmInvariant
<1> QED
  BY <1>1, <1>2, <1>3, InvariantHolds, SeatInvHolds, PTL
     DEF Spec, SeatsTakenOnce, Inventory!Spec
=============================================================================
