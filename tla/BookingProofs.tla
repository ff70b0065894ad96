--------------------------- MODULE BookingProofs ---------------------------
(***************************************************************************)
(* Type correctness of Booking for every value of its constants.  The      *)
(* inductive invariant IInv is TypeOK together with SlotOK, which says what *)
(* a handler carries from the statement that read it to the one that       *)
(* writes it.  It is split into parts, so that a step only argues about    *)
(* the parts it disturbs.                                                  *)
(***************************************************************************)
EXTENDS Booking, SequenceTheorems, TLAPS

-----------------------------------------------------------------------------
(* Sequences and ledgers.                                                  *)

\* A function on 1..n into S is a sequence of length n over S.
LEMMA SeqOfFunction ==
    ASSUME NEW S, NEW n \in Nat, NEW f \in [1..n -> S]
    PROVE  f \in Seq(S) /\ Len(f) = n /\ DOMAIN f = 1..n
  OBVIOUS

\* A sequence over S is a function on 1..Len into S.
LEMMA FunctionOfSeq ==
    ASSUME NEW S, NEW s \in Seq(S)
    PROVE  /\ Len(s) \in Nat
           /\ s \in [1..Len(s) -> S]
           /\ DOMAIN s = 1..Len(s)
  OBVIOUS

\* Overwriting one element of a sequence over S by an element of S keeps it one.
LEMMA ReplaceInSeq ==
    ASSUME NEW S, NEW s \in Seq(S), NEW i, NEW e \in S
    PROVE  [s EXCEPT ![i] = e] \in Seq(S)
<1>1. [s EXCEPT ![i] = e] \in [1..Len(s) -> S]
  BY FunctionOfSeq
<1> QED
  BY <1>1, FunctionOfSeq, SeqOfFunction

\* Failing some rows of a ledger leaves a ledger (updateMany on paymentTransaction).
LEMMA FailRowsType ==
    ASSUME NEW rows \in Seq(TxnRow), NEW failed
    PROVE  FailRows(rows, failed) \in Seq(TxnRow)
<1>1. ASSUME NEW i \in DOMAIN rows
      PROVE  [rows[i] EXCEPT !.st = "FAILED"] \in TxnRow /\ rows[i] \in TxnRow
  <2>1. rows[i] \in TxnRow
    OBVIOUS
  <2> QED
    BY <2>1 DEF TxnRow
<1>2. FailRows(rows, failed) \in [DOMAIN rows -> TxnRow]
  BY <1>1 DEF FailRows
<1> QED
  BY <1>2, FunctionOfSeq, SeqOfFunction

\* Writing the receipt of confirmBookingAsPaid leaves a ledger.
LEMMA ConfirmRowsType ==
    ASSUME NEW rows \in Seq(TxnRow), NEW gateway \in {"PAYOS", "MANUAL"}
    PROVE  ConfirmRows(rows, gateway) \in Seq(TxnRow)
<1> DEFINE others == Pending(rows, {"PAYOS", "MANUAL"})
<1> DEFINE receipt == Txn(gateway, 0, "SUCCESS")
<1>1. receipt \in TxnRow
  BY DEF Txn, TxnRow
<1>2. FailRows(rows, others) \in Seq(TxnRow)
  BY FailRowsType
<1>3. Append(FailRows(rows, others), receipt) \in Seq(TxnRow)
  BY <1>1, <1>2
<1>4. [FailRows(rows, others) EXCEPT ![Max(Pending(rows, {gateway}))] = receipt] \in Seq(TxnRow)
  BY <1>1, <1>2, ReplaceInSeq
<1> QED
  BY <1>3, <1>4 DEF ConfirmRows

\* replacePendingPayosTransaction leaves a ledger.
LEMMA ReplaceRowsType ==
    ASSUME NEW rows \in Seq(TxnRow), NEW l \in Nat
    PROVE  ReplaceRows(rows, l) \in Seq(TxnRow)
<1>1. Txn("PAYOS", l, "PENDING") \in TxnRow
  BY DEF Txn, TxnRow
<1>2. ASSUME NEW failed
      PROVE  /\ FailRows(rows, failed) \in Seq(TxnRow)
             /\ Append(FailRows(rows, failed), Txn("PAYOS", l, "PENDING")) \in Seq(TxnRow)
  BY <1>1, FailRowsType
<1> QED
  BY <1>2 DEF ReplaceRows

\* Writing the proof of a refund leaves a ledger.
LEMMA RefundRowsType ==
    ASSUME NEW rows \in Seq(TxnRow)
    PROVE  RefundRows(rows) \in Seq(TxnRow)
<1>1. Txn("MANUAL", RefundRef, "SUCCESS") \in TxnRow
  BY DEF Txn, TxnRow
<1> QED
  BY <1>1, ReplaceInSeq DEF RefundRows

-----------------------------------------------------------------------------
(* The parts of the invariant.                                             *)

BookingOK == booking \in [Bookings -> Row]

SlotsOK == /\ req \in [Slots -> [op: Ops, b: Bookings \cup {NoBooking}, n: Nat]]
           /\ SlotOK

\* A slot that goes on to a statement of a booking leaves the slots well formed, if
\* a decision that carries a refund carries one of the policy.
LEMMA GotoOK ==
    ASSUME SlotsOK, NEW s \in Slots, NEW op \in Ops, NEW b \in Bookings, NEW n \in Nat,
           op \in {"cancelConfirmed", "approve", "adminCancel"} => n \in RefundPercents,
           Goto(s, op, b, n)
    PROVE  SlotsOK'
  BY DEF SlotsOK, SlotOK, Goto

\* A slot whose handler returns leaves the slots well formed.
LEMMA FinishOK ==
    ASSUME SlotsOK, NEW s \in Slots, Finish(s)
    PROVE  SlotsOK'
  BY DEF SlotsOK, SlotOK, Finish, IdleReq, Ops


LedgerOK == txn \in [Bookings -> Seq(TxnRow)]
CountersOK == seats \in Nat /\ usedCount \in 0..MaxUses
LinksOK == link \in [Bookings -> Seq(LinkStatuses)]
RestOK == /\ ticket \in [Bookings -> BOOLEAN]
          /\ sweep \in [Slots -> SUBSET Bookings]
          /\ day \in 1..Len(Calendar)

\* The inductive invariant is the conjunction of its parts, now and after a step.
LEMMA Parts ==
    /\ IInv <=> /\ BookingOK /\ SlotsOK /\ LedgerOK
                /\ CountersOK /\ LinksOK /\ RestOK
    /\ IInv' <=> /\ BookingOK' /\ SlotsOK' /\ LedgerOK'
                 /\ CountersOK' /\ LinksOK' /\ RestOK'
  BY DEF IInv, TypeOK, BookingOK, SlotsOK, LedgerOK, CountersOK, LinksOK, RestOK

-----------------------------------------------------------------------------
(* What a statement does to one part.                                      *)

\* Appending a ledger row leaves the ledgers well formed.
LEMMA AddRowOK ==
    ASSUME LedgerOK, NEW b \in Bookings, NEW row \in TxnRow, AddRow(b, row)
    PROVE  LedgerOK'
  BY DEF LedgerOK, AddRow

\* The rows that the handlers write are ledger rows.
LEMMA TxnOK ==
    /\ \A g \in {"PAYOS", "MANUAL"}, st \in {"PENDING", "SUCCESS", "FAILED"} :
          /\ \A n \in Nat : Txn(g, n, st) \in TxnRow
          /\ Txn(g, RefundRef, st) \in TxnRow
  BY DEF Txn, TxnRow

\* Giving back the seats of a party leaves availableSeats a natural number.
LEMMA ReleaseSeatsOK ==
    ASSUME BookingOK, CountersOK, NEW b \in Bookings, ReleaseSeats(booking[b].party)
    PROVE  seats' \in Nat
  BY DEF BookingOK, CountersOK, ReleaseSeats, Row

\* cancelAndRestoreSeats leaves rows and counters well formed: in particular it
\* never takes voucher.usedCount below zero.
LEMMA CancelAndRestoreOK ==
    ASSUME BookingOK, CountersOK, NEW b \in Bookings, CancelAndRestoreSeats(b)
    PROVE  BookingOK' /\ CountersOK'
<1>1. CASE Unsettled(b)
  <2>1. booking' \in [Bookings -> Row]
    BY <1>1 DEF CancelAndRestoreSeats, BookingOK, Row, Statuses, PayStatuses
  <2>2. seats' \in Nat
    BY <1>1, ReleaseSeatsOK DEF CancelAndRestoreSeats
  <2>3. usedCount' \in 0..MaxUses
    BY <1>1, CapacityAssumption DEF CancelAndRestoreSeats, ReleaseVoucher, CountersOK
  <2> QED
    BY <2>1, <2>2, <2>3 DEF BookingOK, CountersOK
<1>2. CASE ~Unsettled(b)
  BY <1>2 DEF CancelAndRestoreSeats, BookingOK, CountersOK
<1> QED
  BY <1>1, <1>2

\* Recording a payment leaves the rows well formed and voucher.usedCount at most
\* maxUses, although assisted bookings claim their use only then.
LEMMA ConfirmedOK ==
    ASSUME BookingOK, CountersOK, NEW b \in Bookings, Confirmed(b), MarkVoucherAsUsed(b)
    PROVE  BookingOK' /\ usedCount' \in 0..MaxUses
<1>1. booking' \in [Bookings -> Row]
  <2>1. booking' = [booking EXCEPT ![b].status = "CONFIRMED", ![b].pay = "PAID"]
    BY DEF Confirmed
  <2>2. [booking[b] EXCEPT !.status = "CONFIRMED", !.pay = "PAID"] \in Row
    BY DEF BookingOK, Row, Statuses, PayStatuses
  <2> QED
    BY <2>1, <2>2 DEF BookingOK
<1>2. usedCount' \in 0..MaxUses
  BY CapacityAssumption DEF MarkVoucherAsUsed, CountersOK
<1> QED
  BY <1>1, <1>2 DEF BookingOK

\* A handler that has only read and checked preserves the invariant.
LEMMA ProceedsOK ==
    ASSUME IInv, NEW s \in Slots, NEW b \in Bookings, NEW op \in Ops, NEW n \in Nat,
           op \in {"cancelConfirmed", "approve", "adminCancel"} => n \in RefundPercents,
           Goto(s, op, b, n),
           UNCHANGED <<booking, seats, usedCount, link, txn, ticket, sweep, day>>
    PROVE  IInv'
<1>1. SlotsOK'
  BY GotoOK, Parts
<1> QED
  BY <1>1, Parts DEF BookingOK, LedgerOK, CountersOK, LinksOK, RestOK

\* The cancellation policy pays back one of its tiers.
LEMMA RefundPercentOK ==
    ASSUME NEW b \in Bookings
    PROVE  RefundPercent(b) \in RefundPercents
  BY DEF RefundPercent, RefundPercents

\* Writing a refund slip leaves the ledgers well formed.
LEMMA OweRefundOK ==
    ASSUME LedgerOK, NEW b \in Bookings, NEW amount, OweRefund(b, amount)
    PROVE  LedgerOK'
  BY TxnOK DEF LedgerOK, OweRefund

-----------------------------------------------------------------------------
(* Every step preserves the invariant.                                     *)

\* The next statement of any handler in flight preserves the invariant.
LEMMA StepPreservesIInv ==
    ASSUME IInv, NEW s \in Slots, Step(s)
    PROVE  IInv'
<1> DEFINE b == req[s].b
<1>0. BookingOK /\ SlotsOK /\ LedgerOK /\ CountersOK /\ LinksOK /\ RestOK
  BY Parts
<1>b. ~At(s, "idle") /\ ~At(s, "sweep") => b \in Bookings
  BY <1>0 DEF SlotsOK, SlotOK, At
<1>n. req[s].n \in Nat
  BY <1>0 DEF SlotsOK
<1>r. req[s].op \in {"cancelConfirmed", "approve", "adminCancel"} => req[s].n \in RefundPercents
  BY <1>0 DEF SlotsOK, SlotOK
<1> USE DEF At
<1>1. CASE AddManualRow(s)
  <2>1. b \in Bookings
    BY <1>b, <1>1 DEF AddManualRow
  <2>2. SlotsOK'
    BY <1>0, <1>1, <2>1, FinishOK DEF AddManualRow
  <2>3. LedgerOK'
    BY <1>0, <1>1, <2>1, AddRowOK, TxnOK DEF AddManualRow
  <2> QED
    BY <1>0, <1>1, <2>2, <2>3, Parts DEF AddManualRow, BookingOK, CountersOK, LedgerOK, LinksOK, RestOK
<1>2. CASE CreateLink(s)
  <2>1. b \in Bookings
    BY <1>b, <1>2 DEF CreateLink
  <2>2. Len(link[b]) + 1 \in Nat
    BY <1>0, <1>2, <2>1, FunctionOfSeq DEF LinksOK
  <2>3. SlotsOK'
    BY <1>0, <1>2, <2>1, <2>2, GotoOK DEF CreateLink, Ops
  <2>4. LinksOK'
    BY <1>0, <1>2, <2>1 DEF CreateLink, LinksOK, LinkStatuses
  <2> QED
    BY <1>0, <1>2, <2>2, <2>3, <2>4, Parts DEF CreateLink, BookingOK, CountersOK, LedgerOK, LinksOK, RestOK
<1>3. CASE CreateLinkFails(s)
  <2>1. b \in Bookings
    BY <1>b, <1>3 DEF CreateLinkFails
  <2>2. SlotsOK'
    BY <1>0, <1>3, <2>1, FinishOK DEF CreateLinkFails
  <2>3. BookingOK' /\ CountersOK'
    BY <1>0, <1>3, <2>1, CancelAndRestoreOK DEF CreateLinkFails
  <2> QED
    BY <1>0, <1>3, <2>2, <2>3, Parts DEF CreateLinkFails, BookingOK, CountersOK, LedgerOK, LinksOK, RestOK
<1>4. CASE AddLinkRow(s)
  <2>1. b \in Bookings
    BY <1>b, <1>4 DEF AddLinkRow
  <2>2. SlotsOK'
    BY <1>0, <1>4, <2>1, FinishOK DEF AddLinkRow
  <2>3. LedgerOK'
    BY <1>0, <1>4, <2>1, <1>n, AddRowOK, TxnOK DEF AddLinkRow
  <2> QED
    BY <1>0, <1>4, <2>2, <2>3, Parts DEF AddLinkRow, BookingOK, CountersOK, LedgerOK, LinksOK, RestOK
<1>5. CASE PayosConfirm(s)
  <2>1. b \in Bookings
    BY <1>b, <1>5 DEF PayosConfirm
  <2>2. SlotsOK'
    BY <1>0, <1>5, <2>1, GotoOK, FinishOK DEF PayosConfirm, Ops
  <2>3. BookingOK' /\ usedCount' \in 0..MaxUses
    BY <1>0, <1>5, <2>1, ConfirmedOK DEF PayosConfirm, BookingOK, CountersOK
  <2> QED
    BY <1>0, <1>5, <2>2, <2>3, Parts DEF PayosConfirm, BookingOK, CountersOK, LedgerOK, LinksOK, RestOK
<1>6. CASE PayosCancel(s)
  <2>1. b \in Bookings
    BY <1>b, <1>6 DEF PayosCancel
  <2>2. SlotsOK'
    BY <1>0, <1>6, <2>1, GotoOK DEF PayosCancel, Ops
  <2>3. BookingOK' /\ CountersOK'
    BY <1>0, <1>6, <2>1, CancelAndRestoreOK DEF PayosCancel
  <2> QED
    BY <1>0, <1>6, <2>2, <2>3, Parts DEF PayosCancel, BookingOK, CountersOK, LedgerOK, LinksOK, RestOK
<1>7. CASE AddPayosRow(s)
  <2>1. b \in Bookings
    BY <1>b, <1>7 DEF AddPayosRow
  <2>2. SlotsOK'
    BY <1>0, <1>7, <2>1, FinishOK DEF AddPayosRow
  <2>3. LedgerOK'
    BY <1>0, <1>7, <2>1, AddRowOK, TxnOK DEF AddPayosRow
  <2> QED
    BY <1>0, <1>7, <2>2, <2>3, Parts DEF AddPayosRow, BookingOK, CountersOK, LedgerOK, LinksOK, RestOK
<1>8. CASE ConfirmBookingAsPaid(s)
  <2>1. b \in Bookings
    BY <1>b, <1>8 DEF ConfirmBookingAsPaid
  <2>2. SlotsOK'
    BY <1>0, <1>8, <2>1, GotoOK, FinishOK DEF ConfirmBookingAsPaid, Ops
  <2>3. BookingOK' /\ usedCount' \in 0..MaxUses
    BY <1>0, <1>8, <2>1, ConfirmedOK DEF ConfirmBookingAsPaid, BookingOK, CountersOK
  <2>4. LedgerOK'
    BY <1>0, <1>8, <2>1, ConfirmRowsType DEF ConfirmBookingAsPaid, LedgerOK
  <2> QED
    BY <1>0, <1>8, <2>2, <2>3, <2>4, Parts DEF ConfirmBookingAsPaid, BookingOK, CountersOK, LedgerOK, LinksOK, RestOK
<1>9. CASE CloseTicket(s)
  <2>1. b \in Bookings
    BY <1>b, <1>9 DEF CloseTicket
  <2>2. SlotsOK'
    BY <1>0, <1>9, <2>1, FinishOK DEF CloseTicket
  <2>3. RestOK'
    BY <1>0, <1>9, <2>1 DEF CloseTicket, RestOK
  <2> QED
    BY <1>0, <1>9, <2>2, <2>3, Parts DEF CloseTicket, BookingOK, CountersOK, LedgerOK, LinksOK, RestOK
<1>10. CASE SetMethod(s)
  <2>1. b \in Bookings
    BY <1>b, <1>10 DEF SetMethod
  <2>2. SlotsOK'
    BY <1>0, <1>10, <2>1, GotoOK DEF SetMethod, Ops
  <2>3. BookingOK'
    BY <1>0, <1>10, <2>1 DEF SetMethod, Row, BookingOK, Methods, Lapsed, Open
  <2> QED
    BY <1>0, <1>10, <2>2, <2>3, Parts DEF SetMethod, BookingOK, CountersOK, LedgerOK, LinksOK, RestOK
<1>11. CASE SwitchRowsToPayos(s)
  <2>1. b \in Bookings
    BY <1>b, <1>11 DEF SwitchRowsToPayos
  <2>2. SlotsOK'
    BY <1>0, <1>11, <2>1, FinishOK DEF SwitchRowsToPayos
  <2>3. LedgerOK'
    BY <1>0, <1>11, <2>1, FailRowsType DEF SwitchRowsToPayos, LedgerOK
  <2> QED
    BY <1>0, <1>11, <2>2, <2>3, Parts DEF SwitchRowsToPayos, BookingOK, CountersOK, LedgerOK, LinksOK, RestOK
<1>12. CASE SwitchRowsToInStore(s)
  <2>1. b \in Bookings
    BY <1>b, <1>12 DEF SwitchRowsToInStore
  <2>2. SlotsOK'
    BY <1>0, <1>12, <2>1, FinishOK DEF SwitchRowsToInStore
  <2>3. LedgerOK'
    BY <1>0, <1>12, <2>1, FailRowsType, TxnOK DEF SwitchRowsToInStore, LedgerOK
  <2> QED
    BY <1>0, <1>12, <2>2, <2>3, Parts DEF SwitchRowsToInStore, BookingOK, CountersOK, LedgerOK, LinksOK, RestOK
<1>13. CASE RetryHold(s)
  <2>1. b \in Bookings
    BY <1>b, <1>13 DEF RetryHold
  <2>2. SlotsOK'
    BY <1>0, <1>13, <2>1, GotoOK DEF RetryHold, Ops
  <2>3. BookingOK'
    BY <1>0, <1>13, <2>1 DEF RetryHold, Row, BookingOK, Methods, Lapsed, Window, Open
  <2> QED
    BY <1>0, <1>13, <2>2, <2>3, Parts DEF RetryHold, BookingOK, CountersOK, LedgerOK, LinksOK, RestOK
<1>14. CASE PublicRetryHold(s)
  <2>1. b \in Bookings
    BY <1>b, <1>14 DEF PublicRetryHold
  <2>2. SlotsOK'
    BY <1>0, <1>14, <2>1, GotoOK DEF PublicRetryHold, Ops
  <2>3. BookingOK'
    BY <1>0, <1>14, <2>1 DEF PublicRetryHold, Row, BookingOK, Methods, Lapsed, Open
  <2> QED
    BY <1>0, <1>14, <2>2, <2>3, Parts DEF PublicRetryHold, BookingOK, CountersOK, LedgerOK, LinksOK, RestOK
<1>15. CASE ReuseLink(s)
  <2>1. b \in Bookings
    BY <1>b, <1>15 DEF ReuseLink
  <2>2. DOMAIN link[b] \subseteq Nat
    BY <1>0, <1>15, <2>1, FunctionOfSeq DEF LinksOK
  <2>3. SlotsOK'
    BY <1>0, <1>15, <2>1, <2>2, GotoOK DEF ReuseLink, Ops
  <2> QED
    BY <1>0, <1>15, <2>2, <2>3, Parts DEF ReuseLink, BookingOK, CountersOK, LedgerOK, LinksOK, RestOK
<1>16. CASE LinkFails(s)
  <2>1. b \in Bookings
    BY <1>b, <1>16 DEF LinkFails
  <2>2. SlotsOK'
    BY <1>0, <1>16, <2>1, FinishOK DEF LinkFails
  <2> QED
    BY <1>0, <1>16, <2>2, Parts DEF LinkFails, BookingOK, CountersOK, LedgerOK, LinksOK, RestOK
<1>17. CASE ReplacePendingPayosTransaction(s)
  <2>1. b \in Bookings
    BY <1>b, <1>17 DEF ReplacePendingPayosTransaction
  <2>2. SlotsOK'
    BY <1>0, <1>17, <2>1, FinishOK DEF ReplacePendingPayosTransaction
  <2>3. LedgerOK'
    BY <1>0, <1>17, <2>1, <1>n, ReplaceRowsType DEF ReplacePendingPayosTransaction, LedgerOK
  <2> QED
    BY <1>0, <1>17, <2>2, <2>3, Parts DEF ReplacePendingPayosTransaction, BookingOK, CountersOK, LedgerOK, LinksOK, RestOK
<1>18. CASE SendPaymentRequest(s)
  <2>1. b \in Bookings
    BY <1>b, <1>18 DEF SendPaymentRequest
  <2>2. SlotsOK'
    BY <1>0, <1>18, <2>1, GotoOK, FinishOK DEF SendPaymentRequest, Ops
  <2> QED
    BY <1>0, <1>18, <2>2, Parts DEF SendPaymentRequest, BookingOK, CountersOK, LedgerOK, LinksOK, RestOK
<1>19. CASE FilePaymentIssue(s)
  <2>1. b \in Bookings
    BY <1>b, <1>19 DEF FilePaymentIssue
  <2>2. SlotsOK'
    BY <1>0, <1>19, <2>1, FinishOK DEF FilePaymentIssue
  <2>3. BookingOK'
    BY <1>0, <1>19, <2>1 DEF FilePaymentIssue, Row, BookingOK, PayStatuses
  <2>4. RestOK'
    BY <1>0, <1>19, <2>1 DEF FilePaymentIssue, RestOK
  <2> QED
    BY <1>0, <1>19, <2>2, <2>3, <2>4, Parts DEF FilePaymentIssue, BookingOK, CountersOK, LedgerOK, LinksOK, RestOK
<1>20. CASE CancelPending(s)
  <2>1. b \in Bookings
    BY <1>b, <1>20 DEF CancelPending
  <2>2. SlotsOK'
    BY <1>0, <1>20, <2>1, FinishOK DEF CancelPending
  <2>3. BookingOK'
    BY <1>0, <1>20, <2>1 DEF CancelPending, Row, BookingOK, Statuses, RefundPercents
  <2>4. CountersOK'
    BY <1>0, <1>20, <2>1, ReleaseSeatsOK DEF CancelPending, CountersOK
  <2> QED
    BY <1>0, <1>20, <2>2, <2>3, <2>4, Parts DEF CancelPending, BookingOK, CountersOK, LedgerOK, LinksOK, RestOK
<1>21. CASE MarkCancelRequested(s)
  <2>1. b \in Bookings
    BY <1>b, <1>21 DEF MarkCancelRequested
  <2>2. SlotsOK'
    BY <1>0, <1>21, <2>1, FinishOK DEF MarkCancelRequested
  <2>3. BookingOK'
    BY <1>0, <1>21, <2>1, <1>r DEF MarkCancelRequested, Row, BookingOK, Statuses
  <2> QED
    BY <1>0, <1>21, <2>2, <2>3, Parts DEF MarkCancelRequested, BookingOK, CountersOK, LedgerOK, LinksOK, RestOK
<1>22. CASE ApproveWrite(s)
  <2>1. b \in Bookings
    BY <1>b, <1>22 DEF ApproveWrite
  <2>2. SlotsOK'
    BY <1>0, <1>22, <2>1, FinishOK DEF ApproveWrite
  <2>3. BookingOK'
    BY <1>0, <1>22, <2>1 DEF ApproveWrite, Row, BookingOK, Statuses, PayStatuses
  <2>4. CountersOK'
    BY <1>0, <1>22, <2>1, ReleaseSeatsOK DEF ApproveWrite, CountersOK
  <2>5. LedgerOK'
    BY <1>0, <1>22, <2>1, OweRefundOK DEF ApproveWrite
  <2> QED
    BY <1>0, <1>22, <2>2, <2>3, <2>4, <2>5, Parts DEF ApproveWrite, BookingOK, CountersOK, LedgerOK, LinksOK, RestOK
<1>23. CASE RejectWrite(s)
  <2>1. b \in Bookings
    BY <1>b, <1>23 DEF RejectWrite
  <2>2. SlotsOK'
    BY <1>0, <1>23, <2>1, FinishOK DEF RejectWrite
  <2>3. BookingOK'
    BY <1>0, <1>23, <2>1 DEF RejectWrite, Row, BookingOK, Statuses, RefundPercents
  <2> QED
    BY <1>0, <1>23, <2>2, <2>3, Parts DEF RejectWrite, BookingOK, CountersOK, LedgerOK, LinksOK, RestOK
<1>24. CASE AdminCancelWrite(s)
  <2>1. b \in Bookings
    BY <1>b, <1>24 DEF AdminCancelWrite
  <2>2. SlotsOK'
    BY <1>0, <1>24, <2>1, FinishOK DEF AdminCancelWrite
  <2>3. BookingOK'
    BY <1>0, <1>24, <2>1, <1>r DEF AdminCancelWrite, Row, BookingOK, Statuses, PayStatuses
  <2>4. CountersOK'
    BY <1>0, <1>24, <2>1, ReleaseSeatsOK DEF AdminCancelWrite, CountersOK
  <2>5. LedgerOK'
    BY <1>0, <1>24, <2>1, OweRefundOK DEF AdminCancelWrite
  <2> QED
    BY <1>0, <1>24, <2>2, <2>3, <2>4, <2>5, Parts DEF AdminCancelWrite, BookingOK, CountersOK, LedgerOK, LinksOK, RestOK
<1>25. CASE ConfirmRefundWrite(s)
  <2>1. b \in Bookings
    BY <1>b, <1>25 DEF ConfirmRefundWrite
  <2>2. SlotsOK'
    BY <1>0, <1>25, <2>1, FinishOK DEF ConfirmRefundWrite
  <2>3. CASE RefundOpen(b)
    <3>1. /\ booking' = [booking EXCEPT ![b].refunded = TRUE]
          /\ txn' = [txn EXCEPT ![b] = RefundRows(txn[b])]
      BY <1>25, <2>3 DEF ConfirmRefundWrite
    <3>2. BookingOK'
      BY <1>0, <3>1 DEF BookingOK, Row
    <3>3. LedgerOK'
      BY <1>0, <2>1, <3>1, RefundRowsType DEF LedgerOK
    <3> QED
      BY <1>0, <1>25, <2>2, <3>2, <3>3, Parts DEF ConfirmRefundWrite, CountersOK, LinksOK, RestOK
  <2>4. CASE ~RefundOpen(b)
    BY <1>0, <1>25, <2>2, <2>4, Parts
       DEF ConfirmRefundWrite, BookingOK, CountersOK, LedgerOK, LinksOK, RestOK
  <2> QED
    BY <2>3, <2>4
<1> QED
  BY <1>1, <1>2, <1>3, <1>4, <1>5, <1>6, <1>7, <1>8, <1>9, <1>10, <1>11, <1>12, <1>13, <1>14, <1>15, <1>16, <1>17, <1>18, <1>19, <1>20, <1>21, <1>22, <1>23, <1>24, <1>25 DEF Step

\* The row that create and approveAssistedDraft insert is a booking row.
LEMMA NewBookingOK ==
    ASSUME NEW method \in Methods, NEW assisted \in BOOLEAN, NEW voucher \in BOOLEAN,
           NEW reserved \in Nat, NEW party \in Nat
    PROVE  NewBooking(method, HoldFor(method), assisted, voucher, reserved, party) \in Row
  BY DEF NewBooking, HoldFor, Row, Statuses, PayStatuses, Methods, Ages, RefundPercents,
         Lapsed, Window, WholeDay, Open

\* The transaction of create and of approveAssistedDraft preserves the invariant.
LEMMA CreateOK ==
    ASSUME IInv, NEW s \in Slots, NEW b \in Bookings,
           NEW assisted \in BOOLEAN, NEW method \in Methods, NEW voucher \in BOOLEAN,
           NEW reserved \in 1..MaxParty, NEW party \in 1..MaxParty,
           NEW op \in Ops \ {"cancelConfirmed", "approve", "adminCancel"},
           usedCount' \in 0..MaxUses, ReserveSeats(reserved), Goto(s, op, b, 0),
           booking' = [booking EXCEPT ![b] =
               NewBooking(method, HoldFor(method), assisted, voucher, reserved, party)],
           UNCHANGED <<link, txn, ticket, sweep, day>>
    PROVE  IInv'
<1>0. BookingOK /\ SlotsOK /\ LedgerOK /\ CountersOK /\ LinksOK /\ RestOK
  BY Parts
<1>1. SlotsOK'
  BY <1>0, GotoOK
<1>2. NewBooking(method, HoldFor(method), assisted, voucher, reserved, party) \in Row
  BY NewBookingOK, CapacityAssumption
<1>3. BookingOK'
  BY <1>0, <1>2 DEF BookingOK
<1>4. CountersOK'
  BY <1>0, CapacityAssumption DEF CountersOK, ReserveSeats
<1> QED
  BY <1>0, <1>1, <1>3, <1>4, Parts DEF LedgerOK, LinksOK, RestOK

\* The arrival of any request preserves the invariant.
LEMMA RequestPreservesIInv ==
    ASSUME IInv, NEW s \in Slots, NEW b \in Bookings, Request(s, b)
    PROVE  IInv'
<1>0. BookingOK /\ SlotsOK /\ LedgerOK /\ CountersOK /\ LinksOK /\ RestOK
  BY Parts
<1>1. CASE Create(s, b)
  <2>1. PICK method \in NewMethods, voucher \in NewVouchers, p \in Parties :
          /\ ClaimVoucher(voucher)
          /\ ReserveSeats(p[1])
          /\ booking' = [booking EXCEPT ![b] =
                 NewBooking(method, HoldFor(method), FALSE, voucher, p[1], p[2])]
          /\ Goto(s, IF method = "PAYOS" THEN "createLink" ELSE "manualRow", b, 0)
    BY <1>1 DEF Create
  <2>2. usedCount' \in 0..MaxUses
    BY <1>0, <2>1, CapacityAssumption DEF ClaimVoucher, CountersOK
  <2>3. /\ method \in Methods /\ voucher \in BOOLEAN
        /\ p[1] \in 1..MaxParty /\ p[2] \in 1..MaxParty
    BY InputAssumption, PartiesAssumption
  <2>4. (IF method = "PAYOS" THEN "createLink" ELSE "manualRow")
           \in Ops \ {"cancelConfirmed", "approve", "adminCancel"}
    BY DEF Ops
  <2> QED
    BY <1>1, <2>1, <2>2, <2>3, <2>4, CreateOK DEF Create
<1>2. CASE ApproveAssistedDraft(s, b)
  <2>1. PICK method \in NewMethods, voucher \in DraftVouchers, p \in Parties :
          /\ ReserveSeats(p[2])
          /\ booking' = [booking EXCEPT ![b] =
                 NewBooking(method, HoldFor(method), TRUE, voucher, p[2], p[2])]
          /\ Goto(s, IF method = "PAYOS" THEN "sendRequest" ELSE "manualRow", b, 0)
    BY <1>2 DEF ApproveAssistedDraft
  <2>2. usedCount' \in 0..MaxUses
    BY <1>0, <1>2 DEF ApproveAssistedDraft, CountersOK
  <2>3. /\ method \in Methods /\ voucher \in BOOLEAN /\ p[2] \in 1..MaxParty
    BY InputAssumption, PartiesAssumption
  <2>4. (IF method = "PAYOS" THEN "sendRequest" ELSE "manualRow")
           \in Ops \ {"cancelConfirmed", "approve", "adminCancel"}
    BY DEF Ops
  <2> QED
    BY <1>2, <2>1, <2>2, <2>3, <2>4, CreateOK DEF ApproveAssistedDraft
<1>3. CASE PayosReturn(s, b)
  BY <1>3, ProceedsOK DEF PayosReturn, Ops
<1>4. CASE ConfirmInStore(s, b)
  BY <1>4, ProceedsOK DEF ConfirmInStore, Proceeds, Ops
<1>5. CASE CustomerCheckPayment(s, b)
  BY <1>5, ProceedsOK DEF CustomerCheckPayment, Proceeds, Ops
<1>6. CASE SyncPayosStatus(s, b)
  BY <1>6, ProceedsOK DEF SyncPayosStatus, Proceeds, Ops
<1>7. CASE ReconcilePayosManual(s, b)
  BY <1>7, ProceedsOK DEF ReconcilePayosManual, Proceeds, Ops
<1>8. CASE UpdatePaymentMethod(s, b)
  BY <1>8, ProceedsOK DEF UpdatePaymentMethod, Proceeds, Ops
<1>9. CASE RetryPayment(s, b)
  BY <1>9, ProceedsOK DEF RetryPayment, Proceeds, Ops
<1>10. CASE PublicRetryPayment(s, b)
  BY <1>10, ProceedsOK DEF PublicRetryPayment, Proceeds, Ops
<1>11. CASE ResendPaymentRequest(s, b)
  BY <1>11, ProceedsOK DEF ResendPaymentRequest, Proceeds, Ops
<1>12. CASE ReportPaymentIssue(s, b)
  BY <1>12, ProceedsOK DEF ReportPaymentIssue, Proceeds, Ops
<1>13. CASE RequestCancelPending(s, b)
  BY <1>13, ProceedsOK DEF RequestCancelPending, Decides, Ops
<1>14. CASE RequestCancelConfirmed(s, b)
  BY <1>14, RefundPercentOK, ProceedsOK DEF RequestCancelConfirmed, Decides, RefundPercents, Ops
<1>15. CASE ApproveCancellation(s, b)
  <2>1. booking[b].refund \in RefundPercents
    BY <1>0 DEF BookingOK, Row
  <2> QED
    BY <1>15, <2>1, ProceedsOK DEF ApproveCancellation, Decides, RefundPercents, Ops
<1>16. CASE RejectCancellation(s, b)
  BY <1>16, ProceedsOK DEF RejectCancellation, Decides, Ops
<1>17. CASE AdminCancelBooking(s, b)
  BY <1>17, RefundPercentOK, ProceedsOK DEF AdminCancelBooking, Decides, RefundPercents, Ops
<1>18. CASE ConfirmRefund(s, b)
  BY <1>18, ProceedsOK DEF ConfirmRefund, Decides, Ops
<1> QED
  BY <1>1, <1>2, <1>3, <1>4, <1>5, <1>6, <1>7, <1>8, <1>9, <1>10, <1>11, <1>12, <1>13, <1>14, <1>15, <1>16, <1>17, <1>18 DEF Request

\* A statement of the cron job preserves the invariant.
LEMMA CronPreservesIInv ==
    ASSUME IInv, NEW s \in Slots, Cron(s)
    PROVE  IInv'
<1>0. BookingOK /\ SlotsOK /\ LedgerOK /\ CountersOK /\ LinksOK /\ RestOK
  BY Parts
<1>1. CASE ScanExpired(s)
  <2>1. SlotsOK'
    BY <1>0, <1>1 DEF ScanExpired, Goto, SlotsOK, SlotOK, Ops
  <2>2. RestOK'
    BY <1>0, <1>1 DEF ScanExpired, RestOK, Expired
  <2> QED
    BY <1>0, <1>1, <2>1, <2>2, Parts
       DEF ScanExpired, BookingOK, LedgerOK, CountersOK, LinksOK
<1>2. ASSUME NEW b \in Bookings, Visited(s, b)
      PROVE  SlotsOK' /\ sweep' \in [Slots -> SUBSET Bookings]
  <2>1. SlotsOK'
    BY <1>0, <1>2, FinishOK DEF Visited, SlotsOK, SlotOK
  <2>2. sweep' \in [Slots -> SUBSET Bookings]
    BY <1>0, <1>2 DEF Visited, RestOK
  <2> QED
    BY <2>1, <2>2
<1>3. ASSUME NEW b \in Bookings, CancelExpired(s, b)
      PROVE  IInv'
  <2>1. SlotsOK' /\ sweep' \in [Slots -> SUBSET Bookings]
    BY <1>2, <1>3 DEF CancelExpired
  <2>2. BookingOK' /\ CountersOK'
    BY <1>0, <1>3, CancelAndRestoreOK DEF CancelExpired
  <2> QED
    BY <1>0, <1>3, <2>1, <2>2, Parts DEF CancelExpired, LedgerOK, LinksOK, RestOK
<1>4. ASSUME NEW b \in Bookings, SkipExpired(s, b)
      PROVE  IInv'
  <2>1. SlotsOK' /\ sweep' \in [Slots -> SUBSET Bookings]
    BY <1>2, <1>4 DEF SkipExpired
  <2> QED
    BY <1>0, <1>4, <2>1, Parts
       DEF SkipExpired, BookingOK, LedgerOK, CountersOK, LinksOK, RestOK
<1> QED
  BY <1>1, <1>3, <1>4 DEF Cron

\* A payment link that is paid, cancelled or expires leaves the links well formed.
LEMMA LinkTurns ==
    ASSUME LinksOK, NEW b \in Bookings, NEW l \in DOMAIN link[b], NEW st \in LinkStatuses,
           link' = [link EXCEPT ![b][l] = st]
    PROVE  LinksOK'
<1>1. [link[b] EXCEPT ![l] = st] \in Seq(LinkStatuses)
  BY ReplaceInSeq DEF LinksOK
<1> QED
  BY <1>1 DEF LinksOK

\* The gateway and the clock preserve the invariant.
LEMMA EnvironmentPreservesIInv ==
    ASSUME IInv, Environment
    PROVE  IInv'
<1>0. BookingOK /\ SlotsOK /\ LedgerOK /\ CountersOK /\ LinksOK /\ RestOK
  BY Parts
<1>1. ASSUME NEW b \in Bookings, NEW l \in DOMAIN link[b], PayLink(b, l)
      PROVE  IInv'
  <2>1. LinksOK'
    BY <1>0, <1>1, LinkTurns DEF PayLink, LinkStatuses
  <2> QED
    BY <1>0, <1>1, <2>1, Parts DEF PayLink, BookingOK, SlotsOK, SlotOK, LedgerOK, CountersOK, RestOK
<1>2. ASSUME NEW b \in Bookings, NEW l \in DOMAIN link[b],
             NEW how \in {"CANCELLED", "EXPIRED"}, LinkDies(b, l, how)
      PROVE  IInv'
  <2>1. LinksOK'
    BY <1>0, <1>2, LinkTurns DEF LinkDies, LinkStatuses
  <2> QED
    BY <1>0, <1>2, <2>1, Parts DEF LinkDies, BookingOK, SlotsOK, SlotOK, LedgerOK, CountersOK, RestOK
<1>3. ASSUME NEW b \in Bookings, HoldLapses(b)
      PROVE  IInv'
  <2>1. BookingOK'
    BY <1>0, <1>3 DEF HoldLapses, BookingOK, Row, Lapsed, Open
  <2> QED
    BY <1>0, <1>3, <2>1, Parts DEF HoldLapses, SlotsOK, SlotOK, LedgerOK, CountersOK, LinksOK, RestOK
<1>4. ASSUME NEW b \in Bookings, GrowsOlder(b)
      PROVE  IInv'
  <2> DEFINE age == booking[b].age + 1
             hold == IF booking[b].hold <= age THEN Lapsed ELSE booking[b].hold
  <2>1. age \in Ages /\ hold \in Lapsed..Open
    BY <1>0, <1>4 DEF GrowsOlder, BookingOK, Row, Lapsed, Open
  <2>2. booking' = [booking EXCEPT ![b].age = age, ![b].hold = hold]
    BY <1>4 DEF GrowsOlder
  <2>3. [booking[b] EXCEPT !.age = age, !.hold = hold] \in Row
    BY <1>0, <2>1 DEF BookingOK, Row
  <2>4. BookingOK'
    BY <1>0, <2>2, <2>3 DEF BookingOK
  <2> QED
    BY <1>0, <1>4, <2>4, Parts DEF GrowsOlder, SlotsOK, SlotOK, LedgerOK, CountersOK, LinksOK, RestOK
<1>5. CASE TimePasses
  <2>1. \A b \in Bookings : [booking[b] EXCEPT !.hold = Lapsed] \in Row /\ booking[b] \in Row
    BY <1>0 DEF BookingOK, Row, Lapsed, Open
  <2>2. BookingOK'
    BY <1>5, <2>1 DEF TimePasses, BookingOK
  <2>3. day' \in 1..Len(Calendar)
    BY <1>0, <1>5, CalendarAssumption, LenProperties DEF TimePasses, RestOK
  <2> QED
    BY <1>0, <1>5, <2>2, <2>3, Parts
       DEF TimePasses, SlotsOK, SlotOK, LedgerOK, CountersOK, LinksOK, RestOK
<1> QED
  BY <1>1, <1>2, <1>3, <1>4, <1>5 DEF Environment

-----------------------------------------------------------------------------
(* The theorems.                                                           *)

\* The empty database satisfies the invariant.
LEMMA InitIInv == Init => IInv
<1> SUFFICES ASSUME Init PROVE IInv
  OBVIOUS
<1>1. BookingOK
  BY DEF Init, BookingOK, Absent, Row, Statuses, PayStatuses, Methods, Ages, RefundPercents,
         Lapsed, Open
<1>2. SlotsOK
  BY DEF Init, SlotsOK, SlotOK, IdleReq, Ops
<1>3. << >> \in Seq(TxnRow) /\ << >> \in Seq(LinkStatuses)
  OBVIOUS
<1>4. LedgerOK /\ LinksOK
  BY <1>3 DEF Init, LedgerOK, LinksOK
<1>5. CountersOK
  BY CapacityAssumption DEF Init, CountersOK
<1>6. RestOK
  BY CalendarAssumption, LenProperties DEF Init, RestOK
<1> QED
  BY <1>1, <1>2, <1>4, <1>5, <1>6, Parts

\* Every step preserves the invariant.
LEMMA NextPreservesIInv == IInv /\ [Next]_vars => IInv'
<1> SUFFICES ASSUME IInv, [Next]_vars PROVE IInv'
  OBVIOUS
<1>0. BookingOK /\ SlotsOK /\ LedgerOK /\ CountersOK /\ LinksOK /\ RestOK
  BY Parts
<1>1. ASSUME NEW s \in Slots, Abort(s)
      PROVE  IInv'
  <2>1. SlotsOK'
    BY <1>0, <1>1, FinishOK DEF Abort
  <2>2. RestOK'
    BY <1>0, <1>1 DEF Abort, RestOK
  <2> QED
    BY <1>0, <1>1, <2>1, <2>2, Parts DEF Abort, BookingOK, LedgerOK, CountersOK, LinksOK
<1>2. CASE UNCHANGED vars
  BY <1>2 DEF vars, IInv, TypeOK, SlotOK
<1> QED
  BY <1>1, <1>2, StepPreservesIInv, RequestPreservesIInv, CronPreservesIInv,
     EnvironmentPreservesIInv DEF Next

\* Every value a handler carries between two statements names a booking and, where it
\* decides on a refund, a tier of the cancellation policy; every row is well formed.
THEOREM InvariantHolds == Spec => []IInv
  BY InitIInv, NextPreservesIInv, PTL DEF Spec

\* Rows, counters and slots keep their types whatever handlers overlap: availableSeats
\* and voucher.usedCount are never negative and no voucher is used more than maxUses
\* times (the conditional updates of create and voucher.service).
THEOREM TypeCorrect == Spec => []TypeOK
<1>1. IInv => TypeOK
  BY DEF IInv
<1> QED
  BY <1>1, InvariantHolds, PTL
=============================================================================
