------------------------ MODULE BookingLedgerProofs ------------------------
(***************************************************************************)
(* What handlers that overlap can do to the money of a booking, for every  *)
(* value of the constants: its payment status, its receipts, its refund    *)
(* and the voucher use it paid with.  As in BookingSeatProofs, one lemma   *)
(* classifies the steps of Booking by their effect, and the theorems       *)
(* follow from the classification.                                         *)
(***************************************************************************)
EXTENDS BookingSeatProofs, WellFoundedInduction

-----------------------------------------------------------------------------
(* The newest row.                                                         *)

\* A set of natural numbers that is not empty has a least element.
LEMMA LeastElement ==
    ASSUME NEW S \in SUBSET Nat, S # {}
    PROVE  \E x \in S : \A y \in S : x <= y
<1>1. PICK x \in S : \A y \in S : ~ (<<y, x>> \in OpToRel(<, Nat))
  BY NatLessThanWellFounded, WFMin
<1>2. \A y \in S : y \in Nat /\ x \in Nat
  OBVIOUS
<1>3. \A y \in S : ~(y < x)
  BY <1>1, <1>2 DEF OpToRel
<1> QED
  BY <1>2, <1>3

\* Max finds the newest of some rows (orderBy createdAt desc, take the first).
LEMMA MaxIsMember ==
    ASSUME NEW n \in Nat, NEW S \in SUBSET (1..n), S # {}
    PROVE  Max(S) \in S /\ \A y \in S : y <= Max(S)
<1> DEFINE D == {n - i : i \in S}
<1>1. D \in SUBSET Nat /\ D # {}
  <2>1. \A i \in S : n - i \in Nat
    OBVIOUS
  <2>2. D # {}
    OBVIOUS
  <2>3. \A d \in D : d \in Nat
    BY <2>1
  <2> QED
    BY <2>2, <2>3
<1>2. PICK d \in D : \A e \in D : d <= e
  <2> HIDE DEF D
  <2> QED
    BY <1>1, LeastElement
<1>3. PICK x \in S : d = n - x
  BY <1>2
<1>4. \A y \in S : x >= y
  <2>1. \A y \in S : n - x <= n - y
    BY <1>2, <1>3
  <2> QED
    BY <2>1
<1>5. \E z \in S : \A y \in S : z >= y
  BY <1>4
<1>6. Max(S) \in S /\ \A y \in S : Max(S) >= y
  BY <1>5 DEF Max
<1> QED
  BY <1>6

-----------------------------------------------------------------------------
(* What a ledger proves.                                                   *)

IsReceipt(row) == row.st = "SUCCESS" /\ row.ref # RefundRef
IsProof(row) == row.st = "SUCCESS" /\ row.ref = RefundRef

ReceiptsIn(rows) == {i \in DOMAIN rows : IsReceipt(rows[i])}
ProofsIn(rows) == {i \in DOMAIN rows : IsProof(rows[i])}

ProvesTheSame(old, new) ==
    ReceiptsIn(new) = ReceiptsIn(old) /\ ProofsIn(new) = ProofsIn(old)

AddsReceipt(old, new) ==
    /\ \E i : i \notin ReceiptsIn(old) /\ ReceiptsIn(new) = ReceiptsIn(old) \cup {i}
    /\ ProofsIn(new) = ProofsIn(old)

AddsProof(old, new) ==
    /\ \E i : i \notin ProofsIn(old) /\ ProofsIn(new) = ProofsIn(old) \cup {i}
    /\ ReceiptsIn(new) = ReceiptsIn(old)

\* The rows that are written.
LEMMA WrittenRows ==
    /\ \A g, n : ~IsReceipt(Txn(g, n, "PENDING")) /\ ~IsProof(Txn(g, n, "PENDING"))
    /\ \A g, n : ~IsReceipt(Txn(g, n, "FAILED")) /\ ~IsProof(Txn(g, n, "FAILED"))
    /\ \A g : IsReceipt(Txn(g, 0, "SUCCESS")) /\ ~IsProof(Txn(g, 0, "SUCCESS"))
    /\ \A g : IsProof(Txn(g, RefundRef, "SUCCESS")) /\ ~IsReceipt(Txn(g, RefundRef, "SUCCESS"))
  BY DEF IsReceipt, IsProof, Txn, RefundRef

\* A row is appended: it counts for what it is.
LEMMA AppendAccounts ==
    ASSUME NEW rows \in Seq(TxnRow), NEW row
    PROVE  /\ ~IsReceipt(row) /\ ~IsProof(row) => ProvesTheSame(rows, Append(rows, row))
           /\ IsReceipt(row) /\ ~IsProof(row) => AddsReceipt(rows, Append(rows, row))
           /\ IsProof(row) /\ ~IsReceipt(row) => AddsProof(rows, Append(rows, row))
<1> DEFINE n == Len(rows)
<1> DEFINE new == Append(rows, row)
<1>1. n \in Nat /\ DOMAIN rows = 1..n
  BY FunctionOfSeq
<1>2. DOMAIN new = 1..(n + 1) /\ new[n + 1] = row /\ \A i \in 1..n : new[i] = rows[i]
  BY <1>1 DEF Append
<1>3. n + 1 \notin ReceiptsIn(rows) /\ n + 1 \notin ProofsIn(rows)
  BY <1>1 DEF ReceiptsIn, ProofsIn
<1> HIDE DEF new
<1>4. /\ IsReceipt(row) => ReceiptsIn(new) = ReceiptsIn(rows) \cup {n + 1}
      /\ ~IsReceipt(row) => ReceiptsIn(new) = ReceiptsIn(rows)
  BY <1>1, <1>2 DEF ReceiptsIn
<1>5. /\ IsProof(row) => ProofsIn(new) = ProofsIn(rows) \cup {n + 1}
      /\ ~IsProof(row) => ProofsIn(new) = ProofsIn(rows)
  BY <1>1, <1>2 DEF ProofsIn
<1> HIDE DEF n
<1> QED
  BY <1>3, <1>4, <1>5 DEF ProvesTheSame, AddsReceipt, AddsProof, new

\* A row that proved nothing is overwritten.
LEMMA OverwriteAccounts ==
    ASSUME NEW rows \in Seq(TxnRow), NEW i \in DOMAIN rows, rows[i].st # "SUCCESS", NEW row
    PROVE  /\ IsReceipt(row) /\ ~IsProof(row) => AddsReceipt(rows, [rows EXCEPT ![i] = row])
           /\ IsProof(row) /\ ~IsReceipt(row) => AddsProof(rows, [rows EXCEPT ![i] = row])
<1> DEFINE new == [rows EXCEPT ![i] = row]
<1>1. DOMAIN new = DOMAIN rows /\ new[i] = row /\ \A j \in DOMAIN rows \ {i} : new[j] = rows[j]
  OBVIOUS
<1>2. i \notin ReceiptsIn(rows) /\ i \notin ProofsIn(rows)
  BY DEF ReceiptsIn, ProofsIn, IsReceipt, IsProof
<1> HIDE DEF new
<1>3. /\ IsReceipt(row) => ReceiptsIn(new) = ReceiptsIn(rows) \cup {i}
      /\ ~IsReceipt(row) => ReceiptsIn(new) = ReceiptsIn(rows)
  BY <1>1, <1>2 DEF ReceiptsIn
<1>4. /\ IsProof(row) => ProofsIn(new) = ProofsIn(rows) \cup {i}
      /\ ~IsProof(row) => ProofsIn(new) = ProofsIn(rows)
  BY <1>1, <1>2 DEF ProofsIn
<1> QED
  BY <1>2, <1>3, <1>4 DEF AddsReceipt, AddsProof, new

\* Failing pending rows takes no proof away.
LEMMA FailRowsAccounts ==
    ASSUME NEW rows \in Seq(TxnRow), NEW failed, \A i \in DOMAIN rows : i \in failed => rows[i].st = "PENDING"
    PROVE  /\ ProvesTheSame(rows, FailRows(rows, failed))
           /\ DOMAIN FailRows(rows, failed) = DOMAIN rows
           /\ \A i \in DOMAIN rows : FailRows(rows, failed)[i].st = "SUCCESS" => rows[i].st = "SUCCESS"
<1> DEFINE new == FailRows(rows, failed)
<1>1. DOMAIN new = DOMAIN rows
  BY DEF FailRows
<1>2. ASSUME NEW i \in DOMAIN rows
      PROVE  /\ i \in failed => new[i].st = "FAILED" /\ rows[i].st = "PENDING"
             /\ i \notin failed => new[i] = rows[i]
  <2>1. rows[i] \in TxnRow
    OBVIOUS
  <2> QED
    BY <2>1 DEF FailRows, TxnRow
<1> HIDE DEF new
<1>3. ReceiptsIn(new) = ReceiptsIn(rows) /\ ProofsIn(new) = ProofsIn(rows)
  BY <1>1, <1>2 DEF ReceiptsIn, ProofsIn, IsReceipt, IsProof
<1>4. \A i \in DOMAIN rows : new[i].st = "SUCCESS" => rows[i].st = "SUCCESS"
  BY <1>2
<1> QED
  BY <1>1, <1>3, <1>4 DEF ProvesTheSame, new

\* Failing the pending rows of some gateways, or some of them, proves the same.
LEMMA FailPendingAccounts ==
    ASSUME NEW rows \in Seq(TxnRow), NEW gateways, NEW failed, failed \subseteq Pending(rows, gateways)
    PROVE  ProvesTheSame(rows, FailRows(rows, failed))
  BY FailRowsAccounts DEF Pending

\* confirmBookingAsPaid writes one receipt, over a pending row or as a new one.
LEMMA ConfirmRowsAccounts ==
    ASSUME NEW rows \in Seq(TxnRow), NEW gateway \in {"PAYOS", "MANUAL"}
    PROVE  AddsReceipt(rows, ConfirmRows(rows, gateway))
<1> DEFINE mine == Pending(rows, {gateway})
<1> DEFINE others == Pending(rows, {"PAYOS", "MANUAL"})
<1> DEFINE receipt == Txn(gateway, 0, "SUCCESS")
<1> DEFINE kept == FailRows(rows, others)
<1>1. IsReceipt(receipt) /\ ~IsProof(receipt)
  BY WrittenRows
<1>2. /\ ProvesTheSame(rows, kept) /\ DOMAIN kept = DOMAIN rows
      /\ \A i \in DOMAIN rows : kept[i].st = "SUCCESS" => rows[i].st = "SUCCESS"
  BY FailRowsAccounts DEF Pending
<1>3. kept \in Seq(TxnRow)
  BY FailRowsType
<1>4. mine # {} => Max(mine) \in mine
  <2>1. Len(rows) \in Nat /\ mine \in SUBSET (1..Len(rows))
    BY FunctionOfSeq DEF Pending
  <2> HIDE DEF mine
  <2> QED
    BY <2>1, MaxIsMember
<1>5. \A i \in mine : i \in DOMAIN kept /\ kept[i].st # "SUCCESS"
  BY <1>2 DEF Pending
<1>6. ConfirmRows(rows, gateway) =
        IF mine = {} THEN Append(kept, receipt) ELSE [kept EXCEPT ![Max(mine)] = receipt]
  BY DEF ConfirmRows
<1> HIDE DEF mine, kept, receipt
<1>7. AddsReceipt(kept, Append(kept, receipt))
  BY <1>1, <1>3, AppendAccounts
<1>8. mine # {} => AddsReceipt(kept, [kept EXCEPT ![Max(mine)] = receipt])
  BY <1>1, <1>3, <1>4, <1>5, OverwriteAccounts
<1>9. AddsReceipt(kept, ConfirmRows(rows, gateway))
  BY <1>6, <1>7, <1>8
<1> QED
  BY <1>2, <1>9 DEF ProvesTheSame, AddsReceipt

\* replacePendingPayosTransaction proves the same.
LEMMA ReplaceRowsAccounts ==
    ASSUME NEW rows \in Seq(TxnRow), NEW l
    PROVE  ProvesTheSame(rows, ReplaceRows(rows, l))
<1>1. ASSUME NEW failed, failed \subseteq Pending(rows, {"PAYOS"})
      PROVE  /\ ProvesTheSame(rows, FailRows(rows, failed))
             /\ ProvesTheSame(rows, Append(FailRows(rows, failed), Txn("PAYOS", l, "PENDING")))
  <2>1. FailRows(rows, failed) \in Seq(TxnRow)
    BY FailRowsType
  <2>2. ProvesTheSame(rows, FailRows(rows, failed))
    BY <1>1, FailPendingAccounts
  <2>3. ProvesTheSame(FailRows(rows, failed), Append(FailRows(rows, failed), Txn("PAYOS", l, "PENDING")))
    BY <2>1, WrittenRows, AppendAccounts
  <2> QED
    BY <2>2, <2>3 DEF ProvesTheSame
<1> DEFINE reusable == {i \in Pending(rows, {"PAYOS"}) : rows[i].ref = l}
<1> DEFINE failed == Pending(rows, {"PAYOS"}) \ (IF reusable = {} THEN {} ELSE {Max(reusable)})
<1>2. failed \subseteq Pending(rows, {"PAYOS"})
  OBVIOUS
<1>3. ReplaceRows(rows, l) = IF reusable = {} THEN Append(FailRows(rows, failed), Txn("PAYOS", l, "PENDING"))
                                              ELSE FailRows(rows, failed)
  BY DEF ReplaceRows
<1> HIDE DEF failed, reusable
<1> QED
  BY <1>1, <1>2, <1>3

\* confirmRefund writes one proof, over the pending slip or as a new row.
LEMMA RefundRowsAccounts ==
    ASSUME NEW rows \in Seq(TxnRow)
    PROVE  AddsProof(rows, RefundRows(rows))
<1> DEFINE slips == {i \in Pending(rows, {"MANUAL"}) : rows[i].ref = RefundRef}
<1> DEFINE proof == Txn("MANUAL", RefundRef, "SUCCESS")
<1>1. IsProof(proof) /\ ~IsReceipt(proof)
  BY WrittenRows
<1>2. slips # {} => Max(slips) \in slips
  <2>1. Len(rows) \in Nat /\ slips \in SUBSET (1..Len(rows))
    BY FunctionOfSeq DEF Pending
  <2> HIDE DEF slips
  <2> QED
    BY <2>1, MaxIsMember
<1>3. \A i \in slips : i \in DOMAIN rows /\ rows[i].st # "SUCCESS"
  BY DEF Pending
<1>4. RefundRows(rows) = IF slips = {} THEN Append(rows, proof) ELSE [rows EXCEPT ![Max(slips)] = proof]
  BY DEF RefundRows
<1> HIDE DEF slips, proof
<1> QED
  BY <1>1, <1>2, <1>3, <1>4, AppendAccounts, OverwriteAccounts

-----------------------------------------------------------------------------
(* The effects of a step on the money.                                     *)

SameRow(c) ==
    /\ booking'[c].status = booking[c].status /\ booking'[c].pay = booking[c].pay
    /\ booking'[c].refund = booking[c].refund /\ booking'[c].refunded = booking[c].refunded
    /\ booking'[c].assisted = booking[c].assisted /\ booking'[c].voucher = booking[c].voucher

SameMoney(c) == SameRow(c) /\ ProvesTheSame(txn[c], txn'[c])

OtherMoneyKept(b) == \A c \in Bookings \ {b} : SameMoney(c)

NoMoneyMoves == usedCount' = usedCount /\ \A c \in Bookings : SameMoney(c)

\* The row of b afterwards; how it was made and its voucher stay.
Becomes(b, status, pay, refund, refunded) ==
    /\ booking'[b].status = status /\ booking'[b].pay = pay
    /\ booking'[b].refund = refund /\ booking'[b].refunded = refunded
    /\ booking'[b].assisted = booking[b].assisted /\ booking'[b].voucher = booking[b].voucher

\* The statements that are about to write a payment, a refund, or a status that
\* was checked before.
MoneyOps == {"payosRow", "fileIssue", "cancelConfirmed", "approve", "reject",
             "adminCancel", "refund"}

OthersWait(s) == \A t \in Slots \ {s} : req'[t] = req[t]

\* Slot s goes from one statement to another, neither of them about money.
Passes(s) == req[s].op \notin MoneyOps /\ req'[s].op \notin MoneyOps /\ OthersWait(s)

Begins(s, op, b) ==
    /\ req[s].op \notin MoneyOps /\ req'[s].op = op /\ req'[s].b = b
    /\ OthersWait(s)

Ends(s, op, b) ==
    /\ req[s].op = op /\ req[s].b = b /\ req'[s].op = "idle"
    /\ OthersWait(s)

Idled == NoMoneyMoves /\ (req' = req \/ \E s \in Slots : Passes(s))

Stopped(s) == NoMoneyMoves /\ Crashes /\ req'[s].op = "idle" /\ OthersWait(s)

\* A request was accepted; its decision is still to be written.
Decided(s, b) ==
    /\ NoMoneyMoves
    /\ \/ /\ Begins(s, "fileIssue", b) /\ "reportIssue" \in Requests
          /\ booking[b].status \notin {"ABSENT", "CONFIRMED"} /\ booking[b].pay # "PAID"
       \/ /\ Begins(s, "cancelConfirmed", b) /\ "cancelConfirmed" \in Requests
          /\ booking[b].status = "CONFIRMED"
       \/ /\ Begins(s, "approve", b) /\ "approve" \in Requests
          /\ booking[b].status = "CANCEL_REQUESTED" /\ req'[s].n = booking[b].refund
       \/ /\ Begins(s, "reject", b) /\ "reject" \in Requests
          /\ booking[b].status = "CANCEL_REQUESTED"
       \/ /\ Begins(s, "adminCancel", b) /\ "adminCancel" \in Requests
          /\ booking[b].status \in {"PENDING", "CONFIRMED"}
       \/ /\ Begins(s, "refund", b) /\ "confirmRefund" \in Requests
          /\ RefundOpen(b) /\ booking[b].refund > 0

\* create and approveAssistedDraft: only the first counts the voucher's use.
Inserted(s, b) ==
    /\ booking[b].status = "ABSENT"
    /\ booking'[b].status = "PENDING" /\ booking'[b].pay = "UNPAID"
    /\ booking'[b].refund = 0 /\ ~booking'[b].refunded
    /\ \/ ~booking'[b].assisted /\ ClaimVoucher(booking'[b].voucher)
       \/ /\ booking'[b].assisted /\ "approveDraft" \in Requests
          /\ booking'[b].voucher \in DraftVouchers /\ usedCount' = usedCount
    /\ ProvesTheSame(txn[b], txn'[b]) /\ OtherMoneyKept(b)
    /\ Passes(s)

Paid(b) ==
    /\ Unsettled(b)
    /\ Becomes(b, "CONFIRMED", "PAID", booking[b].refund, booking[b].refunded)
    /\ MarkVoucherAsUsed(b)
    /\ OtherMoneyKept(b)

PaidOnline(s, b) == Paid(b) /\ ProvesTheSame(txn[b], txn'[b]) /\ Begins(s, "payosRow", b)

PaidAtDesk(s, b) == Paid(b) /\ AddsReceipt(txn[b], txn'[b]) /\ Passes(s)

ReceiptAdded(s, b) ==
    /\ SameRow(b) /\ AddsReceipt(txn[b], txn'[b]) /\ OtherMoneyKept(b)
    /\ usedCount' = usedCount /\ Ends(s, "payosRow", b)

\* Cancelled by compare-and-set: the rollback, PayOS, the customer, the cron job.
Released(b) ==
    /\ Unsettled(b)
    /\ \/ /\ Becomes(b, "CANCELLED", "FAILED", booking[b].refund, booking[b].refunded)
          /\ ReleaseVoucher(b)
       \/ /\ Becomes(b, "CANCELLED", booking[b].pay, 0, booking[b].refunded)
          /\ booking[b].status = "PENDING" /\ usedCount' = usedCount
    /\ ProvesTheSame(txn[b], txn'[b]) /\ OtherMoneyKept(b)
    /\ \E s \in Slots : Passes(s)

\* A decision is written, whatever the row has become.
Written(s, b) ==
    /\ \/ /\ Ends(s, "fileIssue", b)
          /\ Becomes(b, booking[b].status, "PROCESSING", booking[b].refund, booking[b].refunded)
       \/ /\ Ends(s, "cancelConfirmed", b)
          /\ Becomes(b, "CANCEL_REQUESTED", booking[b].pay, req[s].n, booking[b].refunded)
       \/ /\ Ends(s, "approve", b)
          /\ Becomes(b, "CANCELLED", "FAILED", booking[b].refund, req[s].n = 0)
       \/ /\ Ends(s, "reject", b)
          /\ Becomes(b, "CONFIRMED", booking[b].pay, 0, booking[b].refunded)
       \/ /\ Ends(s, "adminCancel", b)
          /\ Becomes(b, "CANCELLED", "FAILED", req[s].n, booking[b].refunded)
    /\ ProvesTheSame(txn[b], txn'[b]) /\ OtherMoneyKept(b) /\ usedCount' = usedCount

Refunded(s, b) ==
    /\ RefundOpen(b)
    /\ Becomes(b, "CANCELLED", booking[b].pay, booking[b].refund, TRUE)
    /\ AddsProof(txn[b], txn'[b]) /\ OtherMoneyKept(b) /\ usedCount' = usedCount
    /\ Ends(s, "refund", b)

RefundRefused(s, b) == ~RefundOpen(b) /\ NoMoneyMoves /\ Ends(s, "refund", b)

MoneyEffect ==
    \/ Idled
    \/ \E s \in Slots : Stopped(s)
    \/ \E b \in Bookings : Released(b)
    \/ \E s \in Slots, b \in Bookings :
          \/ Decided(s, b) \/ Inserted(s, b) \/ PaidOnline(s, b) \/ PaidAtDesk(s, b)
          \/ ReceiptAdded(s, b) \/ Written(s, b) \/ Refunded(s, b) \/ RefundRefused(s, b)

-----------------------------------------------------------------------------
(* Every step has one of the effects.                                      *)

\* A step that leaves rows, ledgers and the voucher alone moves no money.
LEMMA UnchangedMoney ==
    ASSUME UNCHANGED <<booking, usedCount, txn>>
    PROVE  NoMoneyMoves
  BY DEF NoMoneyMoves, SameMoney, SameRow, ProvesTheSame

\* One row of booking and one ledger are written.
LEMMA OneBooking ==
    ASSUME BookingOK, LedgerOK, NEW b \in Bookings, NEW r, NEW rows,
           booking' = [booking EXCEPT ![b] = r], txn' = [txn EXCEPT ![b] = rows]
    PROVE  booking'[b] = r /\ txn'[b] = rows /\ OtherMoneyKept(b)
  BY DEF BookingOK, LedgerOK, OtherMoneyKept, SameMoney, SameRow, ProvesTheSame

\* Writes to other columns of one row move no money.
LEMMA OtherColumns ==
    ASSUME BookingOK, NEW b \in Bookings, NEW r, booking' = [booking EXCEPT ![b] = r],
           UNCHANGED <<usedCount, txn>>,
           r.status = booking[b].status, r.pay = booking[b].pay,
           r.refund = booking[b].refund, r.refunded = booking[b].refunded,
           r.assisted = booking[b].assisted, r.voucher = booking[b].voucher
    PROVE  NoMoneyMoves
  BY DEF BookingOK, NoMoneyMoves, SameMoney, SameRow, ProvesTheSame

\* A ledger write that proves nothing moves no money.
LEMMA OtherRows ==
    ASSUME LedgerOK, NEW b \in Bookings, NEW rows, txn' = [txn EXCEPT ![b] = rows],
           ProvesTheSame(txn[b], rows), UNCHANGED <<booking, usedCount>>
    PROVE  NoMoneyMoves
<1>1. txn'[b] = rows /\ \A c \in Bookings \ {b} : txn'[c] = txn[c]
  BY DEF LedgerOK
<1> QED
  BY <1>1 DEF NoMoneyMoves, SameMoney, SameRow, ProvesTheSame

\* What Goto and Finish do to the slots.
LEMMA SlotMoves ==
    ASSUME SlotsOK, NEW s \in Slots
    PROVE  /\ \A op, b, n : Goto(s, op, b, n) =>
                 /\ req'[s].op = op /\ req'[s].b = b /\ req'[s].n = n
                 /\ OthersWait(s)
           /\ Finish(s) => req'[s].op = "idle" /\ OthersWait(s)
  BY DEF SlotsOK, Goto, Finish, IdleReq, OthersWait

\* cancelAndRestoreSeats releases the booking or moves no money.
LEMMA CancelAndRestoreMoney ==
    ASSUME BookingOK, LedgerOK, NEW b \in Bookings, CancelAndRestoreSeats(b), UNCHANGED txn,
           \E s \in Slots : Passes(s)
    PROVE  MoneyEffect
<1>1. CASE Unsettled(b)
  <2> DEFINE r == [booking[b] EXCEPT !.status = "CANCELLED", !.pay = "FAILED"]
  <2>1. booking' = [booking EXCEPT ![b] = r] /\ ReleaseVoucher(b)
    BY <1>1 DEF CancelAndRestoreSeats, BookingOK
  <2>2. txn' = [txn EXCEPT ![b] = txn[b]]
    BY DEF LedgerOK
  <2>3. /\ r.status = "CANCELLED" /\ r.pay = "FAILED"
        /\ r.refund = booking[b].refund /\ r.refunded = booking[b].refunded
        /\ r.assisted = booking[b].assisted /\ r.voucher = booking[b].voucher
    BY DEF BookingOK, Row
  <2> HIDE DEF r
  <2>4. booking'[b] = r /\ txn'[b] = txn[b] /\ OtherMoneyKept(b)
    BY <2>1, <2>2, OneBooking
  <2>5. Becomes(b, "CANCELLED", "FAILED", booking[b].refund, booking[b].refunded)
    BY <2>3, <2>4 DEF Becomes
  <2>6. Released(b)
    BY <1>1, <2>1, <2>4, <2>5 DEF Released, ProvesTheSame
  <2> QED
    BY <2>6 DEF MoneyEffect
<1>2. CASE ~Unsettled(b)
  BY <1>2, UnchangedMoney DEF CancelAndRestoreSeats, MoneyEffect, Idled
<1> QED
  BY <1>1, <1>2

\* Recording a payment.
LEMMA ConfirmedMoney ==
    ASSUME BookingOK, LedgerOK, NEW b \in Bookings, Unsettled(b), Confirmed(b),
           MarkVoucherAsUsed(b), NEW rows, txn' = [txn EXCEPT ![b] = rows]
    PROVE  Paid(b) /\ txn'[b] = rows
<1> DEFINE r == [booking[b] EXCEPT !.status = "CONFIRMED", !.pay = "PAID"]
<1>1. booking' = [booking EXCEPT ![b] = r]
  BY DEF Confirmed, BookingOK
<1>2. /\ r.status = "CONFIRMED" /\ r.pay = "PAID"
      /\ r.refund = booking[b].refund /\ r.refunded = booking[b].refunded
      /\ r.assisted = booking[b].assisted /\ r.voucher = booking[b].voucher
  BY DEF BookingOK, Row
<1> HIDE DEF r
<1>3. booking'[b] = r /\ txn'[b] = rows /\ OtherMoneyKept(b)
  BY <1>1, OneBooking
<1> QED
  BY <1>2, <1>3 DEF Paid, Becomes

\* Every statement of a handler in flight has one of the effects.
LEMMA StepMoney ==
    ASSUME IInv, NEW s \in Slots, Step(s)
    PROVE  MoneyEffect
<1> DEFINE b == req[s].b
<1>0. BookingOK /\ SlotsOK /\ LedgerOK
  BY Parts
<1>b. ~At(s, "idle") /\ ~At(s, "sweep") => b \in Bookings
  BY <1>0 DEF SlotsOK, SlotOK, At
<1>g. /\ \A op, c, n : Goto(s, op, c, n) =>
            req'[s].op = op /\ req'[s].b = c /\ req'[s].n = n /\ OthersWait(s)
      /\ Finish(s) => req'[s].op = "idle" /\ OthersWait(s)
  BY <1>0, SlotMoves
<1>p. ASSUME NEW op, NEW c, NEW n, Goto(s, op, c, n), op \notin MoneyOps, req[s].op \notin MoneyOps
      PROVE  Passes(s)
  BY <1>g, <1>p DEF Passes
<1>f. ASSUME Finish(s), req[s].op \notin MoneyOps
      PROVE  Passes(s)
  BY <1>g, <1>f DEF Passes, MoneyOps
<1>i. ASSUME NoMoneyMoves, Passes(s)
      PROVE  MoneyEffect
  BY <1>i DEF Idled, MoneyEffect
<1>r. ASSUME b \in Bookings, NEW row, AddRow(b, row), UNCHANGED <<booking, usedCount>>,
             ~IsReceipt(row), ~IsProof(row)
      PROVE  NoMoneyMoves
  <2>1. txn' = [txn EXCEPT ![b] = Append(txn[b], row)] /\ txn[b] \in Seq(TxnRow)
    BY <1>0, <1>r DEF AddRow, LedgerOK
  <2> QED
    BY <1>0, <1>r, <2>1, AppendAccounts, OtherRows
<1> USE DEF At
<1>1. CASE AddManualRow(s)
  <2>1. b \in Bookings /\ Passes(s)
    BY <1>b, <1>f, <1>1 DEF AddManualRow, MoneyOps
  <2>2. NoMoneyMoves
    BY <1>r, <1>1, <2>1, WrittenRows DEF AddManualRow
  <2> QED
    BY <1>i, <2>1, <2>2
<1>2. CASE CreateLink(s)
  BY <1>i, <1>p, <1>2, UnchangedMoney DEF CreateLink, MoneyOps
<1>3. CASE CreateLinkFails(s)
  <2>1. b \in Bookings /\ Passes(s)
    BY <1>b, <1>f, <1>3 DEF CreateLinkFails, MoneyOps
  <2> QED
    BY <1>0, <1>3, <2>1, CancelAndRestoreMoney DEF CreateLinkFails
<1>4. CASE AddLinkRow(s)
  <2>1. b \in Bookings /\ Passes(s)
    BY <1>b, <1>f, <1>4 DEF AddLinkRow, MoneyOps
  <2>2. NoMoneyMoves
    BY <1>r, <1>4, <2>1, WrittenRows DEF AddLinkRow
  <2> QED
    BY <1>i, <2>1, <2>2
<1>5. CASE PayosConfirm(s)
  <2>1. b \in Bookings
    BY <1>b, <1>5 DEF PayosConfirm
  <2>2. CASE Unsettled(b)
    <3>1. txn' = [txn EXCEPT ![b] = txn[b]]
      BY <1>0, <1>5 DEF PayosConfirm, LedgerOK
    <3>2. Confirmed(b) /\ MarkVoucherAsUsed(b)
      BY <1>5, <2>2 DEF PayosConfirm
    <3>3. Paid(b) /\ txn'[b] = txn[b]
      BY <1>0, <2>1, <2>2, <3>1, <3>2, ConfirmedMoney
    <3>4. Begins(s, "payosRow", b)
      BY <1>g, <1>5, <2>2 DEF PayosConfirm, Begins, MoneyOps
    <3>5. PaidOnline(s, b)
      BY <3>3, <3>4 DEF PaidOnline, ProvesTheSame
    <3> QED
      BY <2>1, <3>5 DEF MoneyEffect
  <2>3. CASE ~Unsettled(b)
    BY <1>f, <1>i, <1>5, <2>3, UnchangedMoney DEF PayosConfirm, MoneyOps
  <2> QED
    BY <2>2, <2>3
<1>6. CASE PayosCancel(s)
  <2>1. b \in Bookings /\ Passes(s)
    BY <1>b, <1>p, <1>6 DEF PayosCancel, MoneyOps
  <2> QED
    BY <1>0, <1>6, <2>1, CancelAndRestoreMoney DEF PayosCancel
<1>7. CASE AddPayosRow(s)
  <2>1. b \in Bookings
    BY <1>b, <1>7 DEF AddPayosRow
  <2>2. CASE At(s, "payosRow")
    <3> DEFINE rows == Append(txn[b], Txn("PAYOS", 0, "SUCCESS"))
    <3>1. txn' = [txn EXCEPT ![b] = rows]
      BY <1>0, <1>7, <2>2 DEF AddPayosRow, AddRow, LedgerOK
    <3>2. AddsReceipt(txn[b], rows)
      BY <1>0, <2>1, WrittenRows, AppendAccounts DEF LedgerOK
    <3>3. booking' = [booking EXCEPT ![b] = booking[b]]
      BY <1>0, <1>7 DEF AddPayosRow, BookingOK
    <3> HIDE DEF rows
    <3>4. AddsReceipt(txn[b], txn'[b]) /\ OtherMoneyKept(b) /\ booking'[b] = booking[b]
      BY <1>0, <2>1, <3>1, <3>2, <3>3, OneBooking
    <3>5. Ends(s, "payosRow", b)
      BY <1>g, <1>7, <2>2 DEF AddPayosRow, Ends
    <3>6. ReceiptAdded(s, b)
      BY <1>7, <3>4, <3>5 DEF AddPayosRow, ReceiptAdded, SameRow
    <3> QED
      BY <2>1, <3>6 DEF MoneyEffect
  <2>3. CASE ~At(s, "payosRow")
    <3>1. Passes(s)
      BY <1>f, <1>7, <2>3 DEF AddPayosRow, MoneyOps
    <3>2. NoMoneyMoves
      BY <1>r, <1>7, <2>1, <2>3, WrittenRows DEF AddPayosRow
    <3> QED
      BY <1>i, <3>1, <3>2
  <2> QED
    BY <2>2, <2>3
<1>8. CASE ConfirmBookingAsPaid(s)
  <2>1. b \in Bookings
    BY <1>b, <1>8 DEF ConfirmBookingAsPaid
  <2>2. Passes(s)
    BY <1>f, <1>p, <1>8 DEF ConfirmBookingAsPaid, MoneyOps
  <2>3. CASE Unsettled(b)
    <3> DEFINE rows == ConfirmRows(txn[b], IF At(s, "collect") THEN "MANUAL" ELSE "PAYOS")
    <3>1. txn' = [txn EXCEPT ![b] = rows]
      BY <1>0, <1>8, <2>3 DEF ConfirmBookingAsPaid, LedgerOK
    <3>2. AddsReceipt(txn[b], rows)
      BY <1>0, <2>1, ConfirmRowsAccounts DEF LedgerOK
    <3>3. Confirmed(b) /\ MarkVoucherAsUsed(b)
      BY <1>8, <2>3 DEF ConfirmBookingAsPaid
    <3> HIDE DEF rows
    <3>4. Paid(b) /\ txn'[b] = rows
      BY <1>0, <2>1, <2>3, <3>1, <3>3, ConfirmedMoney
    <3>5. PaidAtDesk(s, b)
      BY <2>2, <3>2, <3>4 DEF PaidAtDesk
    <3> QED
      BY <2>1, <3>5 DEF MoneyEffect
  <2>4. CASE ~Unsettled(b)
    BY <1>i, <1>8, <2>2, <2>4, UnchangedMoney DEF ConfirmBookingAsPaid
  <2> QED
    BY <2>3, <2>4
<1>9. CASE CloseTicket(s)
  BY <1>f, <1>i, <1>9, UnchangedMoney DEF CloseTicket, MoneyOps
<1>10. CASE SetMethod(s)
  <2> DEFINE r == [booking[b] EXCEPT !.method = IF At(s, "toPayos") THEN "PAYOS" ELSE "IN_STORE", !.hold = Open]
  <2>1. b \in Bookings /\ Passes(s)
    BY <1>b, <1>p, <1>10 DEF SetMethod, MoneyOps
  <2>2. booking' = [booking EXCEPT ![b] = r] /\ UNCHANGED <<usedCount, txn>>
    BY <1>0, <1>10, <2>1 DEF SetMethod, BookingOK
  <2>3. /\ r.status = booking[b].status /\ r.pay = booking[b].pay
        /\ r.refund = booking[b].refund /\ r.refunded = booking[b].refunded
        /\ r.assisted = booking[b].assisted /\ r.voucher = booking[b].voucher
    BY <1>0, <2>1 DEF BookingOK, Row
  <2> HIDE DEF r
  <2> QED
    BY <1>0, <1>i, <2>1, <2>2, <2>3, OtherColumns
<1>11. CASE SwitchRowsToPayos(s)
  <2> DEFINE rows == FailRows(txn[b], Pending(txn[b], {"MANUAL"}))
  <2>1. b \in Bookings /\ Passes(s)
    BY <1>b, <1>f, <1>11 DEF SwitchRowsToPayos, MoneyOps
  <2>2. txn' = [txn EXCEPT ![b] = rows] /\ UNCHANGED <<booking, usedCount>>
    BY <1>0, <1>11, <2>1 DEF SwitchRowsToPayos, LedgerOK
  <2>3. ProvesTheSame(txn[b], rows)
    BY <1>0, <2>1, FailPendingAccounts DEF LedgerOK
  <2> QED
    BY <1>0, <1>i, <2>1, <2>2, <2>3, OtherRows
<1>12. CASE SwitchRowsToInStore(s)
  <2> DEFINE kept == FailRows(txn[b], Pending(txn[b], {"PAYOS"}))
  <2> DEFINE more == Append(kept, Txn("MANUAL", 0, "PENDING"))
  <2>1. b \in Bookings /\ Passes(s)
    BY <1>b, <1>f, <1>12 DEF SwitchRowsToInStore, MoneyOps
  <2>2. PICK rows \in {kept, more} : txn' = [txn EXCEPT ![b] = rows]
    BY <1>0, <1>12, <2>1 DEF SwitchRowsToInStore, LedgerOK
  <2>3. ProvesTheSame(txn[b], kept)
    BY <1>0, <2>1, FailPendingAccounts DEF LedgerOK
  <2>4. ProvesTheSame(kept, more)
    BY <1>0, <2>1, FailRowsType, WrittenRows, AppendAccounts DEF LedgerOK
  <2>5. ProvesTheSame(txn[b], rows)
    BY <2>2, <2>3, <2>4 DEF ProvesTheSame
  <2>6. UNCHANGED <<booking, usedCount>>
    BY <1>12 DEF SwitchRowsToInStore
  <2> QED
    BY <1>0, <1>i, <2>1, <2>2, <2>5, <2>6, OtherRows
<1>13. CASE RetryHold(s)
  <2> DEFINE r == [booking[b] EXCEPT !.method = "PAYOS", !.hold = IF booking[b].age = 0 THEN Window ELSE Lapsed]
  <2>1. b \in Bookings /\ Passes(s)
    BY <1>b, <1>p, <1>13 DEF RetryHold, MoneyOps
  <2>2. booking' = [booking EXCEPT ![b] = r] /\ UNCHANGED <<usedCount, txn>>
    BY <1>0, <1>13, <2>1 DEF RetryHold, BookingOK
  <2>3. /\ r.status = booking[b].status /\ r.pay = booking[b].pay
        /\ r.refund = booking[b].refund /\ r.refunded = booking[b].refunded
        /\ r.assisted = booking[b].assisted /\ r.voucher = booking[b].voucher
    BY <1>0, <2>1 DEF BookingOK, Row
  <2> HIDE DEF r
  <2> QED
    BY <1>0, <1>i, <2>1, <2>2, <2>3, OtherColumns
<1>14. CASE PublicRetryHold(s)
  <2> DEFINE r == [booking[b] EXCEPT !.method = "PAYOS", !.hold = Open]
  <2>1. b \in Bookings /\ Passes(s)
    BY <1>b, <1>p, <1>14 DEF PublicRetryHold, MoneyOps
  <2>2. booking' = [booking EXCEPT ![b] = r] /\ UNCHANGED <<usedCount, txn>>
    BY <1>0, <1>14, <2>1 DEF PublicRetryHold, BookingOK
  <2>3. /\ r.status = booking[b].status /\ r.pay = booking[b].pay
        /\ r.refund = booking[b].refund /\ r.refunded = booking[b].refunded
        /\ r.assisted = booking[b].assisted /\ r.voucher = booking[b].voucher
    BY <1>0, <2>1 DEF BookingOK, Row
  <2> HIDE DEF r
  <2> QED
    BY <1>0, <1>i, <2>1, <2>2, <2>3, OtherColumns
<1>15. CASE ReuseLink(s)
  BY <1>i, <1>p, <1>15, UnchangedMoney DEF ReuseLink, MoneyOps
<1>16. CASE LinkFails(s)
  BY <1>i, <1>f, <1>16, UnchangedMoney DEF LinkFails, MoneyOps
<1>17. CASE ReplacePendingPayosTransaction(s)
  <2> DEFINE rows == ReplaceRows(txn[b], req[s].n)
  <2>1. b \in Bookings /\ Passes(s)
    BY <1>b, <1>f, <1>17 DEF ReplacePendingPayosTransaction, MoneyOps
  <2>2. txn' = [txn EXCEPT ![b] = rows] /\ UNCHANGED <<booking, usedCount>>
    BY <1>0, <1>17, <2>1 DEF ReplacePendingPayosTransaction, LedgerOK
  <2>3. ProvesTheSame(txn[b], rows)
    BY <1>0, <2>1, ReplaceRowsAccounts DEF LedgerOK
  <2> QED
    BY <1>0, <1>i, <2>1, <2>2, <2>3, OtherRows
<1>18. CASE SendPaymentRequest(s)
  BY <1>f, <1>i, <1>p, <1>18, UnchangedMoney DEF SendPaymentRequest, MoneyOps
<1>w. ASSUME b \in Bookings, NEW r, booking' = [booking EXCEPT ![b] = r],
             NEW rows, txn' = [txn EXCEPT ![b] = rows], ProvesTheSame(txn[b], rows),
             usedCount' = usedCount,
             r.assisted = booking[b].assisted, r.voucher = booking[b].voucher
      PROVE  /\ Becomes(b, r.status, r.pay, r.refund, r.refunded)
             /\ ProvesTheSame(txn[b], txn'[b]) /\ OtherMoneyKept(b) /\ usedCount' = usedCount
  <2>1. booking'[b] = r /\ txn'[b] = rows /\ OtherMoneyKept(b)
    BY <1>0, <1>w, OneBooking
  <2> QED
    BY <1>w, <2>1 DEF Becomes
<1>u. UNCHANGED txn => txn' = [txn EXCEPT ![b] = txn[b]] /\ ProvesTheSame(txn[b], txn[b])
  BY <1>0 DEF LedgerOK, ProvesTheSame
<1>19. CASE FilePaymentIssue(s)
  <2> DEFINE r == [booking[b] EXCEPT !.pay = "PROCESSING"]
  <2>1. b \in Bookings /\ Ends(s, "fileIssue", b)
    BY <1>b, <1>g, <1>19 DEF FilePaymentIssue, Ends
  <2>2. booking' = [booking EXCEPT ![b] = r] /\ UNCHANGED <<usedCount, txn>>
    BY <1>0, <1>19, <2>1 DEF FilePaymentIssue, BookingOK
  <2>3. /\ r.status = booking[b].status /\ r.pay = "PROCESSING"
        /\ r.refund = booking[b].refund /\ r.refunded = booking[b].refunded
        /\ r.assisted = booking[b].assisted /\ r.voucher = booking[b].voucher
    BY <1>0, <2>1 DEF BookingOK, Row
  <2> HIDE DEF r
  <2>4. Written(s, b)
    BY <1>u, <1>w, <2>1, <2>2, <2>3 DEF Written
  <2> QED
    BY <2>1, <2>4 DEF MoneyEffect
<1>20. CASE CancelPending(s)
  <2> DEFINE r == [booking[b] EXCEPT !.status = "CANCELLED", !.refund = 0]
  <2>1. b \in Bookings /\ Passes(s)
    BY <1>b, <1>f, <1>20 DEF CancelPending, MoneyOps
  <2>2. CASE booking[b].status = "PENDING"
    <3>1. booking' = [booking EXCEPT ![b] = r] /\ UNCHANGED <<usedCount, txn>>
      BY <1>0, <1>20, <2>1, <2>2 DEF CancelPending, BookingOK
    <3>2. /\ r.status = "CANCELLED" /\ r.pay = booking[b].pay
          /\ r.refund = 0 /\ r.refunded = booking[b].refunded
          /\ r.assisted = booking[b].assisted /\ r.voucher = booking[b].voucher
      BY <1>0, <2>1 DEF BookingOK, Row
    <3> HIDE DEF r
    <3>3. /\ Becomes(b, "CANCELLED", booking[b].pay, 0, booking[b].refunded)
          /\ ProvesTheSame(txn[b], txn'[b]) /\ OtherMoneyKept(b)
      BY <1>u, <1>w, <2>1, <3>1, <3>2
    <3>4. Released(b)
      BY <2>1, <2>2, <3>1, <3>3 DEF Released, Unsettled
    <3> QED
      BY <2>1, <3>4 DEF MoneyEffect
  <2>3. CASE booking[b].status # "PENDING"
    BY <1>i, <1>20, <2>1, <2>3, UnchangedMoney DEF CancelPending
  <2> QED
    BY <2>2, <2>3
<1>21. CASE MarkCancelRequested(s)
  <2> DEFINE r == [booking[b] EXCEPT !.status = "CANCEL_REQUESTED", !.refund = req[s].n]
  <2>1. b \in Bookings /\ Ends(s, "cancelConfirmed", b)
    BY <1>b, <1>g, <1>21 DEF MarkCancelRequested, Ends
  <2>2. booking' = [booking EXCEPT ![b] = r] /\ UNCHANGED <<usedCount, txn>>
    BY <1>0, <1>21, <2>1 DEF MarkCancelRequested, BookingOK
  <2>3. /\ r.status = "CANCEL_REQUESTED" /\ r.pay = booking[b].pay
        /\ r.refund = req[s].n /\ r.refunded = booking[b].refunded
        /\ r.assisted = booking[b].assisted /\ r.voucher = booking[b].voucher
    BY <1>0, <2>1 DEF BookingOK, Row
  <2> HIDE DEF r
  <2>4. Written(s, b)
    BY <1>u, <1>w, <2>1, <2>2, <2>3 DEF Written
  <2> QED
    BY <2>1, <2>4 DEF MoneyEffect
<1>o. ASSUME b \in Bookings, OweRefund(b, req[s].n)
      PROVE  \E rows : txn' = [txn EXCEPT ![b] = rows] /\ ProvesTheSame(txn[b], rows)
  <2> DEFINE rows == Append(txn[b], Txn("MANUAL", RefundRef, "PENDING"))
  <2>1. ProvesTheSame(txn[b], rows)
    BY <1>0, <1>o, WrittenRows, AppendAccounts DEF LedgerOK
  <2>2. txn' = txn \/ txn' = [txn EXCEPT ![b] = rows]
    BY <1>0, <1>o DEF OweRefund, LedgerOK
  <2> HIDE DEF rows
  <2> QED
    BY <1>u, <2>1, <2>2
<1>22. CASE ApproveWrite(s)
  <2> DEFINE r == [booking[b] EXCEPT !.status = "CANCELLED", !.pay = "FAILED", !.refunded = (req[s].n = 0)]
  <2>1. b \in Bookings /\ Ends(s, "approve", b)
    BY <1>b, <1>g, <1>22 DEF ApproveWrite, Ends
  <2>2. booking' = [booking EXCEPT ![b] = r] /\ UNCHANGED usedCount
    BY <1>0, <1>22, <2>1 DEF ApproveWrite, BookingOK
  <2>3. PICK rows : txn' = [txn EXCEPT ![b] = rows] /\ ProvesTheSame(txn[b], rows)
    BY <1>o, <1>22, <2>1 DEF ApproveWrite
  <2>4. /\ r.status = "CANCELLED" /\ r.pay = "FAILED"
        /\ r.refund = booking[b].refund /\ r.refunded = (req[s].n = 0)
        /\ r.assisted = booking[b].assisted /\ r.voucher = booking[b].voucher
    BY <1>0, <2>1 DEF BookingOK, Row
  <2> HIDE DEF r
  <2>5. Written(s, b)
    BY <1>w, <2>1, <2>2, <2>3, <2>4 DEF Written
  <2> QED
    BY <2>1, <2>5 DEF MoneyEffect
<1>23. CASE RejectWrite(s)
  <2> DEFINE r == [booking[b] EXCEPT !.status = "CONFIRMED", !.refund = 0]
  <2>1. b \in Bookings /\ Ends(s, "reject", b)
    BY <1>b, <1>g, <1>23 DEF RejectWrite, Ends
  <2>2. booking' = [booking EXCEPT ![b] = r] /\ UNCHANGED <<usedCount, txn>>
    BY <1>0, <1>23, <2>1 DEF RejectWrite, BookingOK
  <2>3. /\ r.status = "CONFIRMED" /\ r.pay = booking[b].pay
        /\ r.refund = 0 /\ r.refunded = booking[b].refunded
        /\ r.assisted = booking[b].assisted /\ r.voucher = booking[b].voucher
    BY <1>0, <2>1 DEF BookingOK, Row
  <2> HIDE DEF r
  <2>4. Written(s, b)
    BY <1>u, <1>w, <2>1, <2>2, <2>3 DEF Written
  <2> QED
    BY <2>1, <2>4 DEF MoneyEffect
<1>24. CASE AdminCancelWrite(s)
  <2> DEFINE r == [booking[b] EXCEPT !.status = "CANCELLED", !.pay = "FAILED", !.refund = req[s].n]
  <2>1. b \in Bookings /\ Ends(s, "adminCancel", b)
    BY <1>b, <1>g, <1>24 DEF AdminCancelWrite, Ends
  <2>2. booking' = [booking EXCEPT ![b] = r] /\ UNCHANGED usedCount
    BY <1>0, <1>24, <2>1 DEF AdminCancelWrite, BookingOK
  <2>3. PICK rows : txn' = [txn EXCEPT ![b] = rows] /\ ProvesTheSame(txn[b], rows)
    BY <1>o, <1>24, <2>1 DEF AdminCancelWrite
  <2>4. /\ r.status = "CANCELLED" /\ r.pay = "FAILED"
        /\ r.refund = req[s].n /\ r.refunded = booking[b].refunded
        /\ r.assisted = booking[b].assisted /\ r.voucher = booking[b].voucher
    BY <1>0, <2>1 DEF BookingOK, Row
  <2> HIDE DEF r
  <2>5. Written(s, b)
    BY <1>w, <2>1, <2>2, <2>3, <2>4 DEF Written
  <2> QED
    BY <2>1, <2>5 DEF MoneyEffect
<1>25. CASE ConfirmRefundWrite(s)
  <2> DEFINE r == [booking[b] EXCEPT !.refunded = TRUE]
  <2>1. b \in Bookings /\ Ends(s, "refund", b)
    BY <1>b, <1>g, <1>25 DEF ConfirmRefundWrite, Ends
  <2>2. CASE RefundOpen(b)
    <3> DEFINE rows == RefundRows(txn[b])
    <3>1. booking' = [booking EXCEPT ![b] = r] /\ txn' = [txn EXCEPT ![b] = rows]
      BY <1>0, <1>25, <2>1, <2>2 DEF ConfirmRefundWrite, BookingOK, LedgerOK
    <3>2. AddsProof(txn[b], rows)
      BY <1>0, <2>1, RefundRowsAccounts DEF LedgerOK
    <3>3. /\ r.status = "CANCELLED" /\ r.pay = booking[b].pay
          /\ r.refund = booking[b].refund /\ r.refunded = TRUE
          /\ r.assisted = booking[b].assisted /\ r.voucher = booking[b].voucher
      BY <1>0, <2>1, <2>2 DEF BookingOK, Row, RefundOpen
    <3> HIDE DEF r, rows
    <3>4. booking'[b] = r /\ txn'[b] = rows /\ OtherMoneyKept(b)
      BY <1>0, <2>1, <3>1, OneBooking
    <3>5. Refunded(s, b)
      BY <1>25, <2>1, <2>2, <3>2, <3>3, <3>4 DEF ConfirmRefundWrite, Refunded, Becomes
    <3> QED
      BY <2>1, <3>5 DEF MoneyEffect
  <2>3. CASE ~RefundOpen(b)
    <3>1. RefundRefused(s, b)
      BY <1>25, <2>1, <2>3, UnchangedMoney DEF ConfirmRefundWrite, RefundRefused
    <3> QED
      BY <2>1, <3>1 DEF MoneyEffect
  <2> QED
    BY <2>2, <2>3
<1> QED
  BY <1>1, <1>2, <1>3, <1>4, <1>5, <1>6, <1>7, <1>8, <1>9, <1>10, <1>11, <1>12, <1>13, <1>14, <1>15, <1>16, <1>17, <1>18, <1>19, <1>20, <1>21, <1>22, <1>23, <1>24, <1>25 DEF Step

\* Inserting a booking row, whose voucher is counted as its kind wants.
LEMMA InsertedMoney ==
    ASSUME BookingOK, LedgerOK, NEW s \in Slots, NEW b \in Bookings, ~Exists(b),
           NEW method, NEW hold, NEW assisted \in BOOLEAN, NEW voucher, NEW reserved, NEW party,
           booking' = [booking EXCEPT ![b] =
               NewBooking(method, hold, assisted, voucher, reserved, party)],
           \/ ~assisted /\ ClaimVoucher(voucher)
           \/ /\ assisted /\ "approveDraft" \in Requests
              /\ voucher \in DraftVouchers /\ usedCount' = usedCount,
           UNCHANGED txn, Passes(s)
    PROVE  MoneyEffect
<1> DEFINE r == NewBooking(method, hold, assisted, voucher, reserved, party)
<1>1. /\ r.status = "PENDING" /\ r.pay = "UNPAID" /\ r.refund = 0 /\ r.refunded = FALSE
      /\ r.assisted = assisted /\ r.voucher = voucher
  BY DEF NewBooking
<1>2. txn' = [txn EXCEPT ![b] = txn[b]] /\ ProvesTheSame(txn[b], txn[b])
  BY DEF LedgerOK, ProvesTheSame
<1> HIDE DEF r
<1>3. booking'[b] = r /\ txn'[b] = txn[b] /\ OtherMoneyKept(b)
  BY <1>2, OneBooking DEF r
<1>4. Inserted(s, b)
  BY <1>1, <1>2, <1>3 DEF Inserted, Exists
<1> QED
  BY <1>4 DEF MoneyEffect

\* The arrival of a request has one of the effects.
LEMMA RequestMoney ==
    ASSUME IInv, NEW s \in Slots, NEW b \in Bookings, Request(s, b)
    PROVE  MoneyEffect
<1>0. BookingOK /\ SlotsOK /\ LedgerOK
  BY Parts
<1>i. ASSUME NEW op, NEW n, Goto(s, op, b, n), op \notin MoneyOps, At(s, "idle"),
             UNCHANGED <<booking, usedCount, txn>>
      PROVE  MoneyEffect
  <2>1. Passes(s)
    BY <1>0, <1>i, SlotMoves DEF Passes, MoneyOps, At
  <2> QED
    BY <1>i, <2>1, UnchangedMoney DEF Idled, MoneyEffect
<1>d. ASSUME NEW op, NEW n, Goto(s, op, b, n), At(s, "idle"),
             UNCHANGED <<booking, usedCount, txn>>
      PROVE  NoMoneyMoves /\ Begins(s, op, b) /\ req'[s].n = n
  BY <1>0, <1>d, SlotMoves, UnchangedMoney DEF Begins, MoneyOps, At
<1>1. CASE Create(s, b)
  <2>1. PICK method \in NewMethods, voucher \in NewVouchers, p \in Parties :
          /\ ClaimVoucher(voucher)
          /\ booking' = [booking EXCEPT ![b] =
                 NewBooking(method, HoldFor(method), FALSE, voucher, p[1], p[2])]
          /\ Goto(s, IF method = "PAYOS" THEN "createLink" ELSE "manualRow", b, 0)
    BY <1>1 DEF Create
  <2>2. Passes(s) /\ ~Exists(b) /\ UNCHANGED txn
    BY <1>0, <1>1, <2>1, SlotMoves DEF Create, Arrives, At, Passes, MoneyOps
  <2> QED
    BY <1>0, <2>1, <2>2, InsertedMoney
<1>2. CASE ApproveAssistedDraft(s, b)
  <2>1. PICK method \in NewMethods, voucher \in DraftVouchers, p \in Parties :
          /\ booking' = [booking EXCEPT ![b] =
                 NewBooking(method, HoldFor(method), TRUE, voucher, p[2], p[2])]
          /\ Goto(s, IF method = "PAYOS" THEN "sendRequest" ELSE "manualRow", b, 0)
    BY <1>2 DEF ApproveAssistedDraft
  <2>2. Passes(s) /\ ~Exists(b) /\ UNCHANGED <<txn, usedCount>> /\ "approveDraft" \in Requests
    BY <1>0, <1>2, <2>1, SlotMoves DEF ApproveAssistedDraft, Arrives, At, Passes, MoneyOps
  <2> QED
    BY <1>0, <2>1, <2>2, InsertedMoney
<1>3. CASE PayosReturn(s, b)
  BY <1>i, <1>3 DEF PayosReturn, MoneyOps
<1>4. CASE ConfirmInStore(s, b)
  BY <1>i, <1>4 DEF ConfirmInStore, Proceeds, Arrives, MoneyOps
<1>5. CASE CustomerCheckPayment(s, b)
  BY <1>i, <1>5 DEF CustomerCheckPayment, Proceeds, Arrives, MoneyOps
<1>6. CASE SyncPayosStatus(s, b)
  BY <1>i, <1>6 DEF SyncPayosStatus, Proceeds, Arrives, MoneyOps
<1>7. CASE ReconcilePayosManual(s, b)
  BY <1>i, <1>7 DEF ReconcilePayosManual, Proceeds, Arrives, MoneyOps
<1>8. CASE UpdatePaymentMethod(s, b)
  BY <1>i, <1>8 DEF UpdatePaymentMethod, Proceeds, Arrives, MoneyOps
<1>9. CASE RetryPayment(s, b)
  BY <1>i, <1>9 DEF RetryPayment, Proceeds, Arrives, MoneyOps
<1>10. CASE PublicRetryPayment(s, b)
  BY <1>i, <1>10 DEF PublicRetryPayment, Proceeds, Arrives, MoneyOps
<1>11. CASE ResendPaymentRequest(s, b)
  BY <1>i, <1>11 DEF ResendPaymentRequest, Proceeds, Arrives, MoneyOps
<1>12. CASE ReportPaymentIssue(s, b)
  <2>1. Decided(s, b)
    BY <1>d, <1>12 DEF ReportPaymentIssue, Proceeds, Arrives, Decided
  <2> QED
    BY <2>1 DEF MoneyEffect
<1>13. CASE RequestCancelPending(s, b)
  BY <1>i, <1>13 DEF RequestCancelPending, Decides, Arrives, MoneyOps
<1>14. CASE RequestCancelConfirmed(s, b)
  <2>1. Decided(s, b)
    BY <1>d, <1>14 DEF RequestCancelConfirmed, Decides, Arrives, Decided
  <2> QED
    BY <2>1 DEF MoneyEffect
<1>15. CASE ApproveCancellation(s, b)
  <2>1. Decided(s, b)
    BY <1>d, <1>15 DEF ApproveCancellation, Decides, Arrives, Decided
  <2> QED
    BY <2>1 DEF MoneyEffect
<1>16. CASE RejectCancellation(s, b)
  <2>1. Decided(s, b)
    BY <1>d, <1>16 DEF RejectCancellation, Decides, Arrives, Decided
  <2> QED
    BY <2>1 DEF MoneyEffect
<1>17. CASE AdminCancelBooking(s, b)
  <2>1. Decided(s, b)
    BY <1>d, <1>17 DEF AdminCancelBooking, Decides, Arrives, CanCancel, Decided
  <2> QED
    BY <2>1 DEF MoneyEffect
<1>18. CASE ConfirmRefund(s, b)
  <2>1. Decided(s, b)
    BY <1>d, <1>18 DEF ConfirmRefund, Decides, Arrives, Decided
  <2> QED
    BY <2>1 DEF MoneyEffect
<1> QED
  BY <1>1, <1>2, <1>3, <1>4, <1>5, <1>6, <1>7, <1>8, <1>9, <1>10, <1>11, <1>12, <1>13, <1>14, <1>15, <1>16, <1>17, <1>18 DEF Request

\* Gateway and clock move no money inside the shop.
LEMMA EnvironmentMoney ==
    ASSUME IInv, Environment
    PROVE  NoMoneyMoves /\ req' = req
<1>0. BookingOK
  BY Parts
<1>1. ASSUME NEW b \in Bookings, HoldLapses(b)
      PROVE  NoMoneyMoves
  <2> DEFINE r == [booking[b] EXCEPT !.hold = Lapsed]
  <2>1. booking' = [booking EXCEPT ![b] = r] /\ UNCHANGED <<usedCount, txn>>
    BY <1>0, <1>1 DEF HoldLapses, BookingOK
  <2>2. /\ r.status = booking[b].status /\ r.pay = booking[b].pay
        /\ r.refund = booking[b].refund /\ r.refunded = booking[b].refunded
        /\ r.assisted = booking[b].assisted /\ r.voucher = booking[b].voucher
    BY <1>0 DEF BookingOK, Row
  <2> HIDE DEF r
  <2> QED
    BY <1>0, <2>1, <2>2, OtherColumns
<1>2. ASSUME NEW b \in Bookings, GrowsOlder(b)
      PROVE  NoMoneyMoves
  <2>1. PICK age, hold : booking' = [booking EXCEPT ![b].age = age, ![b].hold = hold]
    BY <1>2 DEF GrowsOlder
  <2> DEFINE r == [booking[b] EXCEPT !.age = age, !.hold = hold]
  <2>2. booking' = [booking EXCEPT ![b] = r] /\ UNCHANGED <<usedCount, txn>>
    BY <1>0, <1>2, <2>1 DEF GrowsOlder, BookingOK
  <2>3. /\ r.status = booking[b].status /\ r.pay = booking[b].pay
        /\ r.refund = booking[b].refund /\ r.refunded = booking[b].refunded
        /\ r.assisted = booking[b].assisted /\ r.voucher = booking[b].voucher
    BY <1>0 DEF BookingOK, Row
  <2> HIDE DEF r
  <2> QED
    BY <1>0, <2>2, <2>3, OtherColumns
<1>3. CASE TimePasses
  <2>1. ASSUME NEW b \in Bookings
        PROVE  SameRow(b)
    <3> DEFINE r == [booking[b] EXCEPT !.hold = Lapsed]
    <3>1. /\ r.status = booking[b].status /\ r.pay = booking[b].pay
          /\ r.refund = booking[b].refund /\ r.refunded = booking[b].refunded
          /\ r.assisted = booking[b].assisted /\ r.voucher = booking[b].voucher
      BY <1>0 DEF BookingOK, Row
    <3>2. booking'[b] = booking[b] \/ booking'[b] = r
      BY <1>3 DEF TimePasses
    <3> HIDE DEF r
    <3> QED
      BY <3>1, <3>2 DEF SameRow
  <2> QED
    BY <1>3, <2>1 DEF TimePasses, NoMoneyMoves, SameMoney, ProvesTheSame
<1>4. ASSUME NEW b \in Bookings, NEW l \in DOMAIN link[b], PayLink(b, l)
      PROVE  NoMoneyMoves
  BY <1>4, UnchangedMoney DEF PayLink
<1>5. ASSUME NEW b \in Bookings, NEW l \in DOMAIN link[b],
             NEW how \in {"CANCELLED", "EXPIRED"}, LinkDies(b, l, how)
      PROVE  NoMoneyMoves
  BY <1>5, UnchangedMoney DEF LinkDies
<1>6. req' = req
  BY DEF Environment, PayLink, LinkDies, HoldLapses, GrowsOlder, TimePasses
<1> QED
  BY <1>1, <1>2, <1>3, <1>4, <1>5, <1>6 DEF Environment

\* Every step has one of the effects.
LEMMA NextMoney ==
    ASSUME IInv, [Next]_vars
    PROVE  MoneyEffect
<1>0. BookingOK /\ SlotsOK /\ LedgerOK
  BY Parts
<1>1. ASSUME NEW s \in Slots, Cron(s)
      PROVE  MoneyEffect
  <2>1. CASE ScanExpired(s)
    <3>1. Passes(s)
      BY <1>0, <2>1, SlotMoves DEF ScanExpired, Passes, MoneyOps, At
    <3> QED
      BY <2>1, <3>1, UnchangedMoney DEF ScanExpired, Idled, MoneyEffect
  <2>2. ASSUME NEW b \in Bookings, At(s, "sweep"), Visited(s, b)
        PROVE  Passes(s)
    BY <1>0, <2>2, SlotMoves DEF Visited, Passes, OthersWait, MoneyOps, At
  <2>3. ASSUME NEW b \in Bookings, CancelExpired(s, b)
        PROVE  MoneyEffect
    BY <1>0, <2>2, <2>3, CancelAndRestoreMoney DEF CancelExpired
  <2>4. ASSUME NEW b \in Bookings, SkipExpired(s, b)
        PROVE  MoneyEffect
    BY <2>2, <2>4, UnchangedMoney DEF SkipExpired, Idled, MoneyEffect
  <2> QED
    BY <1>1, <2>1, <2>3, <2>4 DEF Cron
<1>2. ASSUME NEW s \in Slots, Abort(s)
      PROVE  MoneyEffect
  <2>1. Stopped(s)
    BY <1>0, <1>2, SlotMoves, UnchangedMoney DEF Abort, Stopped
  <2> QED
    BY <2>1 DEF MoneyEffect
<1>3. CASE Environment
  BY <1>3, EnvironmentMoney DEF Idled, MoneyEffect
<1>4. CASE UNCHANGED vars
  BY <1>4, UnchangedMoney DEF vars, Idled, MoneyEffect
<1> QED
  BY <1>1, <1>2, <1>3, <1>4, StepMoney, RequestMoney DEF Next

-----------------------------------------------------------------------------
(* What happened to one slot, and to one booking.                          *)

\* A slot that is about to write something about money works on a booking.
LEMMA MoneySlots ==
    ASSUME SlotsOK, NEW s \in Slots, req[s].op \in MoneyOps
    PROVE  req[s].b \in Bookings
  BY DEF SlotsOK, SlotOK, MoneyOps

\* A slot that is about to write something about money after the step was so
\* before, or has just decided to, or has just recorded a payment.
LEMMA SlotComesFrom ==
    ASSUME MoneyEffect, NEW s \in Slots, req'[s].op \in MoneyOps
    PROVE  req'[s] = req[s] \/ \E b \in Bookings : Decided(s, b) \/ PaidOnline(s, b)
<1>1. ASSUME NEW t \in Slots \ {s}, OthersWait(t)
      PROVE  req'[s] = req[s]
  BY <1>1 DEF OthersWait
<1>2. ASSUME NEW t \in Slots, Passes(t) \/ Stopped(t)
      PROVE  req'[s] = req[s]
  BY <1>1, <1>2 DEF Passes, Stopped, MoneyOps
<1>3. ASSUME NEW t \in Slots, NEW b \in Bookings,
             \/ Inserted(t, b) \/ PaidAtDesk(t, b) \/ ReceiptAdded(t, b)
             \/ Written(t, b) \/ Refunded(t, b) \/ RefundRefused(t, b)
      PROVE  req'[s] = req[s]
  BY <1>1, <1>3 DEF Inserted, PaidAtDesk, ReceiptAdded, Written, Refunded, RefundRefused,
                    Passes, Ends, MoneyOps
<1>4. ASSUME NEW t \in Slots \ {s}, NEW b \in Bookings, Decided(t, b) \/ PaidOnline(t, b)
      PROVE  req'[s] = req[s]
  BY <1>1, <1>4 DEF Decided, PaidOnline, Begins
<1>5. req' = req => req'[s] = req[s]
  OBVIOUS
<1> QED
  BY <1>2, <1>3, <1>4, <1>5 DEF MoneyEffect, Idled, Released

\* A slot that was about to write something about money still is, or has written
\* it, or was refused, or stopped.
LEMMA SlotGoesTo ==
    ASSUME MoneyEffect, NEW s \in Slots, req[s].op \in MoneyOps
    PROVE  \/ req'[s] = req[s]
           \/ Stopped(s)
           \/ \E b \in Bookings : ReceiptAdded(s, b) \/ Written(s, b) \/ Refunded(s, b) \/ RefundRefused(s, b)
<1>1. ASSUME NEW t \in Slots \ {s}, OthersWait(t)
      PROVE  req'[s] = req[s]
  BY <1>1 DEF OthersWait
<1>2. ASSUME NEW t \in Slots, Passes(t)
      PROVE  req'[s] = req[s]
  BY <1>1, <1>2 DEF Passes, MoneyOps
<1>3. ASSUME NEW t \in Slots, NEW b \in Bookings,
             Inserted(t, b) \/ PaidAtDesk(t, b) \/ Decided(t, b) \/ PaidOnline(t, b)
      PROVE  req'[s] = req[s]
  BY <1>1, <1>3 DEF Inserted, PaidAtDesk, Decided, PaidOnline, Passes, Begins, MoneyOps
<1>4. ASSUME NEW t \in Slots \ {s}, Stopped(t)
      PROVE  req'[s] = req[s]
  BY <1>1, <1>4 DEF Stopped
<1>5. ASSUME NEW t \in Slots \ {s}, NEW b \in Bookings,
             ReceiptAdded(t, b) \/ Written(t, b) \/ Refunded(t, b) \/ RefundRefused(t, b)
      PROVE  req'[s] = req[s]
  BY <1>1, <1>5 DEF ReceiptAdded, Written, Refunded, RefundRefused, Ends
<1>6. req' = req => req'[s] = req[s]
  OBVIOUS
<1> QED
  BY <1>2, <1>3, <1>4, <1>5, <1>6 DEF MoneyEffect, Idled, Released

\* Row and receipts of a booking are the same after the step, or one of the
\* effects was about it.
LEMMA BookingComesFrom ==
    ASSUME MoneyEffect, NEW b \in Bookings
    PROVE  \/ SameMoney(b)
           \/ Released(b)
           \/ \E s \in Slots : \/ Inserted(s, b) \/ PaidOnline(s, b) \/ PaidAtDesk(s, b)
                               \/ ReceiptAdded(s, b) \/ Written(s, b) \/ Refunded(s, b)
<1>1. CASE NoMoneyMoves
  BY <1>1 DEF NoMoneyMoves
<1>2. ASSUME NEW c \in Bookings \ {b}, OtherMoneyKept(c)
      PROVE  SameMoney(b)
  BY <1>2 DEF OtherMoneyKept
<1>3. ASSUME NEW s \in Slots, NEW c \in Bookings,
             \/ Inserted(s, c) \/ PaidOnline(s, c) \/ PaidAtDesk(s, c) \/ ReceiptAdded(s, c)
             \/ Written(s, c) \/ Refunded(s, c)
      PROVE  OtherMoneyKept(c)
  BY <1>3 DEF Inserted, PaidOnline, PaidAtDesk, Paid, ReceiptAdded, Written, Refunded
<1>4. ASSUME NEW c \in Bookings, Released(c)
      PROVE  OtherMoneyKept(c)
  BY <1>4 DEF Released
<1>5. ASSUME NEW s \in Slots, NEW c \in Bookings \ {b},
             \/ Inserted(s, c) \/ PaidOnline(s, c) \/ PaidAtDesk(s, c) \/ ReceiptAdded(s, c)
             \/ Written(s, c) \/ Refunded(s, c)
      PROVE  SameMoney(b)
  BY <1>2, <1>3, <1>5
<1>6. ASSUME NEW c \in Bookings \ {b}, Released(c)
      PROVE  SameMoney(b)
  BY <1>2, <1>4, <1>6
<1> QED
  BY <1>1, <1>5, <1>6 DEF MoneyEffect, Idled, Stopped, Decided, RefundRefused

\* A step proves at most one thing more about a booking, and forgets nothing.
LEMMA LedgerGrows ==
    ASSUME MoneyEffect, NEW b \in Bookings
    PROVE  \/ ProvesTheSame(txn[b], txn'[b])
           \/ AddsReceipt(txn[b], txn'[b])
           \/ AddsProof(txn[b], txn'[b])
  BY BookingComesFrom DEF SameMoney, Inserted, PaidOnline, PaidAtDesk, ReceiptAdded, Released, Written, Refunded

-----------------------------------------------------------------------------
(* Every confirmed booking has a receipt.                                  *)

\* The receipt is in the ledger, or the handler that recorded the payment is
\* about to write it.
Receipted(b) ==
    \/ ReceiptsIn(txn[b]) # {}
    \/ \E s \in Slots : req[s].op = "payosRow" /\ req[s].b = b

\* A decision to ask for a cancellation, or to reject it, is only taken about a
\* booking with a receipt, and receipts stay.
ReceiptInv ==
    /\ \A b \in Bookings : booking[b].status \in {"CONFIRMED", "CANCEL_REQUESTED"} => Receipted(b)
    /\ \A s \in Slots : req[s].op \in {"cancelConfirmed", "reject"} => Receipted(req[s].b)

\* No step takes a receipt away, or stops a handler that is about to write one.
LEMMA ReceiptsStay ==
    ASSUME MoneyEffect, Crashes = FALSE, NEW b \in Bookings, Receipted(b)
    PROVE  Receipted(b)'
<1>1. CASE ReceiptsIn(txn[b]) # {}
  <2>1. ReceiptsIn(txn'[b]) # {}
    BY <1>1, LedgerGrows DEF ProvesTheSame, AddsReceipt, AddsProof
  <2> QED
    BY <2>1 DEF Receipted
<1>2. ASSUME NEW s \in Slots, req[s].op = "payosRow", req[s].b = b
      PROVE  Receipted(b)'
  <2>1. CASE req'[s] = req[s]
    BY <1>2, <2>1 DEF Receipted
  <2>2. ASSUME NEW c \in Bookings, ReceiptAdded(s, c)
        PROVE  Receipted(b)'
    BY <1>2, <2>2 DEF ReceiptAdded, AddsReceipt, Ends, Receipted
  <2> QED
    BY <1>2, <2>1, <2>2, SlotGoesTo DEF MoneyOps, Stopped, Written, Refunded, RefundRefused, Ends
<1> QED
  BY <1>1, <1>2 DEF Receipted

\* While no handler stops half-way, every booking that is confirmed has a receipt
\* in the ledger or is about to get it, whatever confirms it: the webhook, the
\* return URL, staff, polling, or an admin who rejects its cancellation.
THEOREM ConfirmedHasReceipt ==
    ASSUME Crashes = FALSE
    PROVE  Spec => []PaidHasReceipt
<1>1. Init => ReceiptInv
  BY DEF Init, ReceiptInv, Absent, IdleReq
<1>2. ASSUME IInv, ReceiptInv, [Next]_vars
      PROVE  ReceiptInv'
  <2>0. MoneyEffect /\ SlotsOK
    BY <1>2, NextMoney, Parts
  <2>1. \A b \in Bookings : Receipted(b) => Receipted(b)'
    BY <2>0, ReceiptsStay
  <2>2. ASSUME NEW b \in Bookings, booking'[b].status \in {"CONFIRMED", "CANCEL_REQUESTED"}
        PROVE  Receipted(b)'
    <3>1. CASE booking[b].status \in {"CONFIRMED", "CANCEL_REQUESTED"}
      BY <1>2, <2>1, <3>1 DEF ReceiptInv
    <3>2. ASSUME NEW s \in Slots, PaidOnline(s, b)
          PROVE  Receipted(b)'
      BY <3>2 DEF PaidOnline, Begins, Receipted
    <3>3. ASSUME NEW s \in Slots, PaidAtDesk(s, b)
          PROVE  Receipted(b)'
      BY <3>3 DEF PaidAtDesk, AddsReceipt, Receipted
    <3>4. ASSUME NEW s \in Slots, Written(s, b), booking[b].status \notin {"CONFIRMED", "CANCEL_REQUESTED"}
          PROVE  Receipted(b)'
      BY <1>2, <2>1, <2>2, <3>4 DEF Written, Becomes, Ends, ReceiptInv
    <3> QED
      BY <2>0, <2>2, <3>1, <3>2, <3>3, <3>4, BookingComesFrom
         DEF Inserted, ReceiptAdded, Released, Refunded, SameMoney, SameRow, Becomes
  <2>3. ASSUME NEW s \in Slots, req'[s].op \in {"cancelConfirmed", "reject"}
        PROVE  Receipted(req[s].b)'
    <3>1. CASE req'[s] = req[s]
      <4>1. req[s].b \in Bookings
        BY <2>0, <2>3, <3>1, MoneySlots DEF MoneyOps
      <4> QED
        BY <1>2, <2>1, <2>3, <3>1, <4>1 DEF ReceiptInv, Receipted
    <3>2. ASSUME NEW b \in Bookings, Decided(s, b)
          PROVE  Receipted(req[s].b)'
      <4>1. req'[s].b = b /\ booking[b].status \in {"CONFIRMED", "CANCEL_REQUESTED"}
        BY <2>3, <3>2 DEF Decided, Begins
      <4> QED
        BY <1>2, <2>1, <4>1 DEF ReceiptInv, Receipted
    <3> QED
      BY <2>0, <2>3, <3>1, <3>2, SlotComesFrom DEF PaidOnline, Begins, MoneyOps
  <2> QED
    BY <2>2, <2>3 DEF ReceiptInv, Receipted
<1>3. ReceiptInv => PaidHasReceipt
  BY DEF ReceiptInv, PaidHasReceipt, Receipted, Receipts, ReceiptsIn, IsReceipt
<1>4. IInv /\ ReceiptInv /\ [Next]_vars => ReceiptInv'
  BY <1>2
<1> QED
  BY <1>1, <1>3, <1>4, InvariantHolds, PTL DEF Spec

-----------------------------------------------------------------------------
(* A payment is recorded once.                                             *)

\* A set without two different elements has at most one.
LEMMA AtMostOne ==
    ASSUME NEW S, \A i, j \in S : i = j
    PROVE  Cardinality(S) <= 1
<1>1. CASE S = {}
  <2>1. Cardinality(S) = 0
    BY <1>1, FS_EmptySet
  <2> QED
    BY <2>1
<1>2. ASSUME NEW x \in S
      PROVE  Cardinality(S) <= 1
  <2>1. S = {x}
    OBVIOUS
  <2>2. Cardinality(S) = 1
    BY <2>1, FS_Singleton
  <2> QED
    BY <2>2
<1> QED
  BY <1>1, <1>2

\* Nobody has asked to cancel a paid booking, nor can.
NobodyAsks ==
    /\ \A b \in Bookings : booking[b].status # "CANCEL_REQUESTED"
    /\ Calm({"cancelConfirmed", "approve", "reject"})

\* A booking without a payment has no receipt, and nobody is about to write one;
\* a booking with a payment has one receipt, or one handler about to write it.
OnceInv ==
    /\ \A b \in Bookings :
        /\ booking[b].status \in {"ABSENT", "PENDING"} => ReceiptsIn(txn[b]) = {}
        /\ \A i, j \in ReceiptsIn(txn[b]) : i = j
    /\ \A s \in Slots : req[s].op = "payosRow" =>
        /\ booking[req[s].b].status \notin {"ABSENT", "PENDING"}
        /\ ReceiptsIn(txn[req[s].b]) = {}
        /\ \A t \in Slots : req[t].op = "payosRow" /\ req[t].b = req[s].b => t = s

\* A paid booking is left alone as long as customers do not ask for its money.
LEMMA NobodyAsksInvariant ==
    ASSUME "cancelConfirmed" \notin Requests, IInv, NobodyAsks, [Next]_vars
    PROVE  NobodyAsks'
<1>0. MoneyEffect
  BY NextMoney
<1>1. ASSUME NEW b \in Bookings
      PROVE  booking'[b].status # "CANCEL_REQUESTED"
  <2>1. ASSUME NEW s \in Slots, Written(s, b)
        PROVE  booking'[b].status \in {booking[b].status, "CANCELLED", "CONFIRMED"}
    BY <2>1 DEF NobodyAsks, Calm, Written, Ends, Becomes
  <2>2. booking'[b].status \in {booking[b].status, "CANCELLED", "CONFIRMED", "PENDING"}
    BY <1>0, <2>1, BookingComesFrom
       DEF SameMoney, SameRow, Released, Inserted, PaidOnline, PaidAtDesk, Paid, ReceiptAdded,
           Refunded, Becomes
  <2> QED
    BY <2>2 DEF NobodyAsks
<1>2. ASSUME NEW s \in Slots, req'[s].op \in {"cancelConfirmed", "approve", "reject"}
      PROVE  FALSE
  BY <1>0, <1>2, SlotComesFrom DEF NobodyAsks, Calm, MoneyOps, Decided, PaidOnline, Begins
<1> QED
  BY <1>1, <1>2 DEF NobodyAsks, Calm

\* The webhook, the return URL, polling and staff may all confirm one payment, at
\* the same time, again and again, and stop anywhere: as long as customers do not
\* ask to cancel paid bookings, one receipt is written (confirmBookingAsPaid,
\* handlePayosReturn).
THEOREM ReceiptWrittenOnce ==
    ASSUME "cancelConfirmed" \notin Requests
    PROVE  Spec => []ReceiptOnce
<1>1. Init => NobodyAsks /\ OnceInv
  BY DEF Init, NobodyAsks, Calm, OnceInv, Absent, IdleReq, ReceiptsIn
<1>2. ASSUME IInv, NobodyAsks, OnceInv, [Next]_vars
      PROVE  OnceInv'
  <2>0. MoneyEffect /\ SlotsOK
    BY <1>2, NextMoney, Parts
  <2>1. ASSUME NEW b \in Bookings, booking'[b].status \in {"ABSENT", "PENDING"}
        PROVE  booking[b].status \in {"ABSENT", "PENDING"} /\ ReceiptsIn(txn'[b]) = ReceiptsIn(txn[b])
    <3>1. ASSUME NEW s \in Slots
          PROVE  ~ReceiptAdded(s, b)
      BY <1>2, <2>1, <3>1 DEF ReceiptAdded, SameRow, Ends, OnceInv
    <3> QED
      BY <1>2, <2>0, <2>1, <3>1, BookingComesFrom
         DEF SameMoney, SameRow, Released, Inserted, PaidOnline, PaidAtDesk, Paid,
             Written, Ends, Refunded, Becomes, ProvesTheSame, AddsProof
  <2>2. ASSUME NEW b \in Bookings
        PROVE  \A i, j \in ReceiptsIn(txn'[b]) : i = j
    <3>1. ASSUME NEW s \in Slots, PaidAtDesk(s, b) \/ ReceiptAdded(s, b)
          PROVE  ReceiptsIn(txn[b]) = {} /\ AddsReceipt(txn[b], txn'[b])
      BY <1>2, <3>1 DEF PaidAtDesk, Paid, Unsettled, NobodyAsks, ReceiptAdded, Ends, OnceInv
    <3>2. ReceiptsIn(txn'[b]) = ReceiptsIn(txn[b]) \/ (ReceiptsIn(txn[b]) = {} /\ AddsReceipt(txn[b], txn'[b]))
      BY <2>0, <3>1, BookingComesFrom
         DEF SameMoney, Released, Inserted, PaidOnline, Written, Refunded, ProvesTheSame, AddsProof
    <3> QED
      BY <1>2, <3>2 DEF OnceInv, AddsReceipt
  <2>3. ASSUME NEW s \in Slots, req'[s].op = "payosRow"
        PROVE  /\ req'[s].b \in Bookings
               /\ booking'[req'[s].b].status \notin {"ABSENT", "PENDING"}
               /\ ReceiptsIn(txn'[req'[s].b]) = {}
               /\ \A t \in Slots \ {s} : ~(req[t].op = "payosRow" /\ req[t].b = req'[s].b)
    <3>1. CASE req'[s] = req[s]
      <4> DEFINE b == req[s].b
      <4>1. /\ b \in Bookings /\ booking[b].status \notin {"ABSENT", "PENDING"}
            /\ ReceiptsIn(txn[b]) = {}
            /\ \A t \in Slots \ {s} : ~(req[t].op = "payosRow" /\ req[t].b = b)
        BY <1>2, <2>0, <2>3, <3>1, MoneySlots DEF MoneyOps, OnceInv
      <4>2. ASSUME NEW t \in Slots
            PROVE  ~ReceiptAdded(t, b) /\ ~PaidAtDesk(t, b)
        <5>1. ~ReceiptAdded(t, b)
          BY <2>3, <3>1, <4>1 DEF ReceiptAdded, Ends
        <5>2. ~PaidAtDesk(t, b)
          BY <1>2, <4>1 DEF PaidAtDesk, Paid, Unsettled, NobodyAsks
        <5> QED
          BY <5>1, <5>2
      <4>3. ReceiptsIn(txn'[b]) = ReceiptsIn(txn[b])
        BY <2>0, <4>1, <4>2, BookingComesFrom
           DEF SameMoney, Released, Inserted, PaidOnline, Written, Refunded, ProvesTheSame, AddsProof
      <4> QED
        BY <2>1, <3>1, <4>1, <4>3
    <3>2. ASSUME NEW b \in Bookings, PaidOnline(s, b)
          PROVE  /\ req'[s].b = b /\ booking'[b].status = "CONFIRMED"
                 /\ ReceiptsIn(txn'[b]) = {} /\ booking[b].status = "PENDING"
      BY <1>2, <3>2 DEF PaidOnline, Paid, Becomes, Begins, Unsettled, NobodyAsks, OnceInv, ProvesTheSame
    <3>3. ASSUME NEW b \in Bookings, booking[b].status = "PENDING", NEW t \in Slots
          PROVE  ~(req[t].op = "payosRow" /\ req[t].b = b)
      BY <1>2, <3>3 DEF OnceInv
    <3> QED
      BY <2>0, <2>3, <3>1, <3>2, <3>3, SlotComesFrom DEF Decided, Begins, MoneyOps
  <2>4. ASSUME NEW s \in Slots, req'[s].op = "payosRow",
               NEW t \in Slots, req'[t].op = "payosRow", req'[t].b = req'[s].b
        PROVE  t = s
    <3>1. \/ req'[s] = req[s] \/ \E b \in Bookings : PaidOnline(s, b)
      BY <2>0, <2>4, SlotComesFrom DEF Decided, Begins, MoneyOps
    <3>2. \/ req'[t] = req[t] \/ \E b \in Bookings : PaidOnline(t, b)
      BY <2>0, <2>4, SlotComesFrom DEF Decided, Begins, MoneyOps
    <3>3. ASSUME NEW b \in Bookings, PaidOnline(s, b), t # s
          PROVE  req'[t] = req[t]
      BY <3>3 DEF PaidOnline, Begins, OthersWait
    <3> QED
      BY <2>3, <2>4, <3>1, <3>2, <3>3
  <2> QED
    BY <2>1, <2>2, <2>3, <2>4, <1>2 DEF OnceInv
<1>3. IInv /\ OnceInv => ReceiptOnce
  <2> SUFFICES ASSUME OnceInv, NEW b \in Bookings PROVE Cardinality(Receipts(b)) <= 1
    BY DEF ReceiptOnce
  <2>1. Receipts(b) = ReceiptsIn(txn[b])
    BY DEF Receipts, ReceiptsIn, IsReceipt
  <2>2. \A i, j \in Receipts(b) : i = j
    BY <2>1 DEF OnceInv
  <2> QED
    BY <2>2, AtMostOne
<1>4. IInv /\ NobodyAsks /\ OnceInv /\ [Next]_vars => OnceInv' /\ NobodyAsks'
  BY <1>2, NobodyAsksInvariant
<1> QED
  BY <1>1, <1>3, <1>4, InvariantHolds, PTL DEF Spec
-----------------------------------------------------------------------------
(* What a decision was based on still holds, if handlers do not overlap.    *)

\* The row still is what the handler read before it decided.
Fresh(s) ==
    LET row == booking[req[s].b]
    IN  /\ At(s, "fileIssue") => row.status \notin {"CONFIRMED", "CANCEL_REQUESTED"}
        /\ At(s, "cancelConfirmed") => row.status = "CONFIRMED"
        /\ At(s, "approve") => row.status = "CANCEL_REQUESTED" /\ req[s].n = row.refund
        /\ At(s, "reject") => row.status = "CANCEL_REQUESTED"
        /\ At(s, "adminCancel") => row.status \in {"PENDING", "CONFIRMED"}
        /\ At(s, "refund") => row.status = "CANCELLED" /\ row.refund > 0

\* At most one handler is in flight.
OneAtATime == \A s, t \in Slots : s = t

\* While a decision waits to be written, the only handler has moved no money.
LEMMA NothingMeanwhile ==
    ASSUME OneAtATime, MoneyEffect, NEW s \in Slots, req[s].op \in MoneyOps, req'[s] = req[s]
    PROVE  NoMoneyMoves
<1>1. ASSUME NEW t \in Slots, NEW b \in Bookings,
             Passes(t) \/ Begins(t, "payosRow", b)
      PROVE  FALSE
  BY <1>1 DEF OneAtATime, Passes, Begins
<1>2. ASSUME NEW t \in Slots, NEW op, NEW b, Ends(t, op, b)
      PROVE  FALSE
  BY <1>2 DEF OneAtATime, Ends, MoneyOps
<1>3. ASSUME NEW b \in Bookings
      PROVE  ~Released(b)
  BY <1>1, <1>3 DEF Released
<1>4. ASSUME NEW t \in Slots, NEW b \in Bookings
      PROVE  /\ ~Inserted(t, b) /\ ~PaidOnline(t, b) /\ ~PaidAtDesk(t, b)
             /\ ~ReceiptAdded(t, b) /\ ~Written(t, b) /\ ~Refunded(t, b)
  BY <1>1, <1>2, <1>4 DEF Inserted, PaidOnline, PaidAtDesk, ReceiptAdded, Written, Refunded
<1> QED
  BY <1>3, <1>4 DEF MoneyEffect, Idled, Stopped, Decided, RefundRefused

\* The paid bookings are among those a decision to report an issue excludes, so a
\* decision is fresh until it is written.
LEMMA FreshInvariant ==
    ASSUME OneAtATime, IInv, ConfirmedIsPaid, \A s \in Slots : Fresh(s), [Next]_vars
    PROVE  \A s \in Slots : Fresh(s)'
<1>0. MoneyEffect /\ SlotsOK
  BY NextMoney, Parts
<1> SUFFICES ASSUME NEW s \in Slots, req'[s].op \in MoneyOps \ {"payosRow"}
             PROVE  Fresh(s)'
  BY DEF Fresh, MoneyOps, At
<1>1. CASE req'[s] = req[s]
  <2>1. req[s].b \in Bookings /\ SameRow(req[s].b)
    BY <1>0, <1>1, MoneySlots, NothingMeanwhile DEF NoMoneyMoves, SameMoney
  <2> QED
    BY <1>1, <2>1 DEF Fresh, SameRow, At
<1>2. ASSUME NEW b \in Bookings, Decided(s, b)
      PROVE  Fresh(s)'
  <2>1. SameRow(b) /\ req'[s].b = b
    BY <1>2 DEF Decided, Begins, NoMoneyMoves, SameMoney
  <2>2. /\ At(s, "fileIssue")' => booking[b].status # "CONFIRMED" /\ booking[b].pay # "PAID"
        /\ At(s, "cancelConfirmed")' => booking[b].status = "CONFIRMED"
        /\ At(s, "approve")' => booking[b].status = "CANCEL_REQUESTED" /\ req'[s].n = booking[b].refund
        /\ At(s, "reject")' => booking[b].status = "CANCEL_REQUESTED"
        /\ At(s, "adminCancel")' => booking[b].status \in {"PENDING", "CONFIRMED"}
        /\ At(s, "refund")' => booking[b].status = "CANCELLED" /\ booking[b].refund > 0
    BY <1>2 DEF Decided, Begins, At, RefundOpen
  <2>3. booking[b].pay # "PAID" => booking[b].status # "CANCEL_REQUESTED"
    BY DEF ConfirmedIsPaid
  <2> QED
    BY <2>1, <2>2, <2>3 DEF Fresh, SameRow
<1> QED
  BY <1>0, <1>1, <1>2, SlotComesFrom DEF PaidOnline, Begins

-----------------------------------------------------------------------------
(* Confirmed bookings are paid, cancelled ones are not.                    *)

\* What is written about a booking, if it is fresh, keeps status and payment
\* status in step.
LEMMA PaidStays ==
    ASSUME MoneyEffect, ConfirmedIsPaid, NEW b \in Bookings,
           \A s \in Slots : Written(s, b) =>
               /\ At(s, "fileIssue") => booking[b].status \notin {"CONFIRMED", "CANCEL_REQUESTED"}
               /\ At(s, "cancelConfirmed") => booking[b].status = "CONFIRMED"
               /\ At(s, "reject") => booking[b].status = "CANCEL_REQUESTED"
    PROVE  /\ booking'[b].status \in {"CONFIRMED", "CANCEL_REQUESTED"} => booking'[b].pay = "PAID"
           /\ booking'[b].status \in {"PENDING", "CANCELLED"} => booking'[b].pay # "PAID"
<1>0. /\ booking[b].status \in {"CONFIRMED", "CANCEL_REQUESTED"} => booking[b].pay = "PAID"
      /\ booking[b].status \in {"PENDING", "CANCELLED"} => booking[b].pay # "PAID"
  BY DEF ConfirmedIsPaid
<1>1. ASSUME NEW s \in Slots, Written(s, b)
      PROVE  \/ booking'[b].status = "CANCELLED" /\ booking'[b].pay = "FAILED"
             \/ booking'[b].status \in {"CONFIRMED", "CANCEL_REQUESTED"} /\ booking'[b].pay = "PAID"
             \/ booking'[b].status \notin {"CONFIRMED", "CANCEL_REQUESTED"} /\ booking'[b].pay = "PROCESSING"
  BY <1>0, <1>1 DEF Written, Ends, Becomes, At
<1>2. CASE Released(b)
  BY <1>0, <1>2 DEF Released, Becomes
<1>3. ASSUME NEW s \in Slots,
             Inserted(s, b) \/ PaidOnline(s, b) \/ PaidAtDesk(s, b) \/ ReceiptAdded(s, b) \/ Refunded(s, b)
      PROVE  \/ booking'[b].status = "PENDING" /\ booking'[b].pay = "UNPAID"
             \/ booking'[b].status = "CONFIRMED" /\ booking'[b].pay = "PAID"
             \/ booking'[b].status = booking[b].status /\ booking'[b].pay = booking[b].pay
  BY <1>3 DEF Inserted, PaidOnline, PaidAtDesk, Paid, ReceiptAdded, Refunded, RefundOpen, Becomes, SameRow
<1>4. CASE SameMoney(b)
  BY <1>0, <1>4 DEF SameMoney, SameRow
<1> QED
  BY <1>0, <1>1, <1>2, <1>3, <1>4, BookingComesFrom

\* While handlers do not overlap, decisions stay fresh.
LEMMA FreshOneAtATime ==
    ASSUME OneAtATime
    PROVE  Spec => [](ConfirmedIsPaid /\ \A s \in Slots : Fresh(s))
<1> DEFINE Inv == ConfirmedIsPaid /\ \A s \in Slots : Fresh(s)
<1>1. Init => Inv
  BY DEF Init, ConfirmedIsPaid, Fresh, Absent, IdleReq, At
<1>2. ASSUME IInv, Inv, [Next]_vars
      PROVE  Inv'
  <2>1. MoneyEffect
    BY <1>2, NextMoney
  <2>2. ASSUME NEW b \in Bookings, NEW s \in Slots, Written(s, b)
        PROVE  /\ At(s, "fileIssue") => booking[b].status \notin {"CONFIRMED", "CANCEL_REQUESTED"}
               /\ At(s, "cancelConfirmed") => booking[b].status = "CONFIRMED"
               /\ At(s, "reject") => booking[b].status = "CANCEL_REQUESTED"
    <3>1. req[s].b = b
      BY <2>2 DEF Written, Ends
    <3> QED
      BY <1>2, <3>1 DEF Fresh
  <2>3. ConfirmedIsPaid'
    BY <1>2, <2>1, <2>2, PaidStays DEF ConfirmedIsPaid
  <2> QED
    BY <1>2, <2>3, FreshInvariant
<1>3. IInv /\ Inv /\ [Next]_vars => Inv'
  BY <1>2
<1>4. Spec => []Inv
  <2> HIDE DEF Inv
  <2> QED
    BY <1>1, <1>3, InvariantHolds, PTL DEF Spec
<1> QED
  BY <1>4

\* While handlers do not overlap, a booking that takes part in the trip is paid
\* and a cancelled one is not, although its status and its payment status are
\* written by different handlers, any of which may stop half-way.
THEOREM ConfirmedPaidOneAtATime ==
    ASSUME OneAtATime
    PROVE  Spec => []ConfirmedIsPaid
<1>1. ConfirmedIsPaid /\ (\A s \in Slots : Fresh(s)) => ConfirmedIsPaid
  OBVIOUS
<1> QED
  BY <1>1, FreshOneAtATime, PTL

\* The three requests whose writes trust a status they read before.
TrustingRequests == {"reportIssue", "reject", "cancelConfirmed"}

\* Handlers may overlap in any way, as long as no payment issue is reported and no
\* paid booking is asked to be cancelled: everything else checks the status in
\* the statement that writes it, or writes both columns.
THEOREM ConfirmedPaidWithoutTrustingRequests ==
    ASSUME Requests \cap TrustingRequests = {}
    PROVE  Spec => []ConfirmedIsPaid
<1> DEFINE Quiet == Calm({"fileIssue", "reject", "cancelConfirmed"})
<1>0. "reportIssue" \notin Requests /\ "reject" \notin Requests /\ "cancelConfirmed" \notin Requests
  BY DEF TrustingRequests
<1>1. Init => Quiet /\ ConfirmedIsPaid
  BY DEF Init, ConfirmedIsPaid, Calm, Absent, IdleReq
<1>2. ASSUME IInv, Quiet, ConfirmedIsPaid, [Next]_vars
      PROVE  Quiet' /\ ConfirmedIsPaid'
  <2>1. MoneyEffect
    BY <1>2, NextMoney
  <2>2. ASSUME NEW s \in Slots, req'[s].op \in {"fileIssue", "reject", "cancelConfirmed"}
        PROVE  FALSE
    BY <1>0, <1>2, <2>1, <2>2, SlotComesFrom DEF Calm, MoneyOps, Decided, PaidOnline, Begins
  <2>3. ConfirmedIsPaid'
    BY <1>2, <2>1, PaidStays DEF ConfirmedIsPaid, Calm, At
  <2> QED
    BY <2>2, <2>3 DEF Calm
<1>3. IInv /\ Quiet /\ ConfirmedIsPaid /\ [Next]_vars => Quiet' /\ ConfirmedIsPaid'
  BY <1>2
<1> HIDE DEF Quiet
<1> QED
  BY <1>1, <1>3, InvariantHolds, PTL DEF Spec

-----------------------------------------------------------------------------
(* The seats, if handlers do not overlap.                                  *)

LEMMA FreshIsTimely ==
    ASSUME \A s \in Slots : Fresh(s)
    PROVE  Timely
<1>1. ASSUME NEW b \in Bookings, AdminCancels(b)
      PROVE  Live(b)
  <2>1. PICK s \in Slots : (At(s, "approve") \/ At(s, "adminCancel")) /\ req[s].b = b
    BY <1>1 DEF AdminCancels, Finishes, At
  <2> QED
    BY <2>1 DEF Fresh, Live
<1>2. ASSUME NEW b \in Bookings, AdminRejects(b)
      PROVE  booking[b].status = "CANCEL_REQUESTED"
  <2>1. PICK s \in Slots : At(s, "reject") /\ req[s].b = b
    BY <1>2 DEF AdminRejects, Finishes, At
  <2> QED
    BY <2>1 DEF Fresh
<1>3. ASSUME NEW b \in Bookings, Asks(b)
      PROVE  booking[b].status = "CONFIRMED"
  <2>1. PICK s \in Slots : At(s, "cancelConfirmed") /\ req[s].b = b
    BY <1>3 DEF Asks, Finishes, At
  <2> QED
    BY <2>1 DEF Fresh
<1> QED
  BY <1>1, <1>2, <1>3 DEF Timely

\* While handlers do not overlap, the departure's balance is exact whatever is asked
\* of them, the decisions that write by id included (approveCancellation,
\* rejectCancellation, requestCancellation, adminCancelBooking).
THEOREM SeatsBalanceOneAtATime ==
    ASSUME WellFormedParties, OneAtATime
    PROVE  Spec => []SeatsConserved
<1>1. Init => SeatsConserved
  BY BalancedAtFirst
<1>2. IInv /\ SeatInv /\ SeatInv' /\ (ConfirmedIsPaid /\ \A s \in Slots : Fresh(s))
        /\ SeatsConserved /\ [Next]_vars => SeatsConserved'
  BY NextEffect, FreshIsTimely, SeatBalance DEF SeatsConserved
<1> QED
  BY <1>1, <1>2, InvariantHolds, SeatInvHolds, FreshOneAtATime, PTL DEF Spec

\* ... and the departure is not oversold.
THEOREM NeverOversoldOneAtATime ==
    ASSUME WellFormedParties, OneAtATime
    PROVE  Spec => []NoOverselling
<1>1. IInv /\ SeatsConserved => NoOverselling
  BY BalancedIsNotOversold
<1> QED
  BY <1>1, SeatsBalanceOneAtATime, InvariantHolds, PTL

\* ... and all of its handlers together use the seats as SeatInventory promises.
THEOREM InventoryOneAtATime ==
    ASSUME WellFormedParties, OneAtATime
    PROVE  Spec => SeatsTakenOnce
<1>1. Init => Inventory!Init
  BY DEF Init, Inventory!Init, Absent, PhaseOf
<1>2. IInv /\ SeatInv /\ (ConfirmedIsPaid /\ \A s \in Slots : Fresh(s)) /\ [Next]_vars
        => [Inventory!Next]_(Inventory!vars)
  <2> SUFFICES ASSUME IInv, SeatInv, \A s \in Slots : Fresh(s), [Next]_vars
               PROVE  Inventory!Next \/ UNCHANGED Inventory!vars
    OBVIOUS
  <2>1. Inventory!Next \/ UNCHANGED InventoryVars
    BY NextEffect, FreshIsTimely, EffectMaps
  <2> QED
    BY <2>1 DEF InventoryVars, Inventory!vars, Phase, Party
<1> QED
  BY <1>1, <1>2, InvariantHolds, SeatInvHolds, FreshOneAtATime, PTL
     DEF Spec, SeatsTakenOnce, Inventory!Spec

-----------------------------------------------------------------------------
(* Refunds.                                                                *)

\* Only a cancelled booking is refunded, and its refund is proved once.
RefundInv ==
    \A b \in Bookings :
        /\ booking[b].status # "CANCELLED" => ~booking[b].refunded
        /\ booking[b].refunded /\ booking[b].refund > 0 => \E i : ProofsIn(txn[b]) = {i}
        /\ ~(booking[b].refunded /\ booking[b].refund > 0) => ProofsIn(txn[b]) = {}

\* While handlers do not overlap, the ledger proves a refund exactly when the
\* booking says that it was made and that there was something to refund: through
\* cancellations, approvals, rejections, late payments and confirmations of the
\* refund, in any order and stopping anywhere.
THEOREM RefundsProvedOneAtATime ==
    ASSUME OneAtATime
    PROVE  Spec => []RefundLedger
<1>1. Init => RefundInv /\ \A s \in Slots : Fresh(s)
  BY DEF Init, RefundInv, Fresh, Absent, IdleReq, ProofsIn, At
<1>2. ASSUME IInv, RefundInv, ConfirmedIsPaid, \A s \in Slots : Fresh(s), [Next]_vars
      PROVE  RefundInv'
  <2>1. MoneyEffect
    BY <1>2, NextMoney
  <2> SUFFICES ASSUME NEW b \in Bookings
               PROVE  /\ booking'[b].status # "CANCELLED" => ~booking'[b].refunded
                      /\ booking'[b].refunded /\ booking'[b].refund > 0 => \E i : ProofsIn(txn'[b]) = {i}
                      /\ ~(booking'[b].refunded /\ booking'[b].refund > 0) => ProofsIn(txn'[b]) = {}
    BY DEF RefundInv
  <2>2. /\ booking[b].status # "CANCELLED" => ~booking[b].refunded
        /\ booking[b].refunded /\ booking[b].refund > 0 => \E i : ProofsIn(txn[b]) = {i}
        /\ ~(booking[b].refunded /\ booking[b].refund > 0) => ProofsIn(txn[b]) = {}
    BY <1>2 DEF RefundInv
  <2>3. CASE SameMoney(b) \/ \E s \in Slots : ReceiptAdded(s, b)
    <3>1. /\ booking'[b].status = booking[b].status /\ booking'[b].refunded = booking[b].refunded
          /\ booking'[b].refund = booking[b].refund /\ ProofsIn(txn'[b]) = ProofsIn(txn[b])
      BY <2>3 DEF SameMoney, SameRow, ReceiptAdded, ProvesTheSame, AddsReceipt
    <3> QED
      BY <2>2, <3>1
  <2>4. ASSUME booking[b].status # "CANCELLED", ProofsIn(txn'[b]) = ProofsIn(txn[b]),
               ~(booking'[b].refunded /\ booking'[b].refund > 0)
        PROVE  ProofsIn(txn'[b]) = {}
    BY <2>2, <2>4
  <2>5. CASE Released(b)
    <3>1. booking[b].status # "CANCELLED" /\ ~booking[b].refunded
      BY <2>2, <2>5 DEF Released, Unsettled
    <3>2. ~booking'[b].refunded /\ ProofsIn(txn'[b]) = ProofsIn(txn[b])
      BY <2>5, <3>1 DEF Released, Becomes, ProvesTheSame
    <3> QED
      BY <2>4, <3>1, <3>2
  <2>6. ASSUME NEW s \in Slots, Inserted(s, b) \/ PaidOnline(s, b) \/ PaidAtDesk(s, b)
        PROVE  booking[b].status # "CANCELLED" /\ ~booking'[b].refunded /\ ProofsIn(txn'[b]) = ProofsIn(txn[b])
    BY <2>2, <2>6 DEF Inserted, PaidOnline, PaidAtDesk, Paid, Unsettled, Becomes, ProvesTheSame, AddsReceipt
  <2>7. ASSUME NEW s \in Slots, Written(s, b)
        PROVE  /\ ProofsIn(txn'[b]) = ProofsIn(txn[b])
               /\ \/ booking'[b].status = booking[b].status /\ booking'[b].refunded = booking[b].refunded
                     /\ booking'[b].refund = booking[b].refund
                  \/ booking[b].status # "CANCELLED" /\ ~booking'[b].refunded
                  \/ booking[b].status # "CANCELLED" /\ booking'[b].status = "CANCELLED"
                     /\ (booking'[b].refunded => booking'[b].refund = 0)
    <3>1. req[s].b = b /\ Fresh(s)
      BY <1>2, <2>7 DEF Written, Ends
    <3>2. /\ At(s, "cancelConfirmed") => booking[b].status = "CONFIRMED"
          /\ At(s, "approve") => booking[b].status = "CANCEL_REQUESTED" /\ req[s].n = booking[b].refund
          /\ At(s, "reject") => booking[b].status = "CANCEL_REQUESTED"
          /\ At(s, "adminCancel") => booking[b].status \in {"PENDING", "CONFIRMED"}
      BY <3>1 DEF Fresh
    <3> QED
      BY <2>2, <2>7, <3>2 DEF Written, Ends, Becomes, ProvesTheSame, At
  <2>8. ASSUME NEW s \in Slots, Refunded(s, b)
        PROVE  /\ booking'[b].status = "CANCELLED" /\ booking'[b].refunded /\ booking'[b].refund > 0
               /\ \E i : ProofsIn(txn'[b]) = {i}
    <3>1. req[s].b = b /\ Fresh(s) /\ At(s, "refund")
      BY <1>2, <2>8 DEF Refunded, Ends, At
    <3>2. booking[b].refund > 0 /\ ProofsIn(txn[b]) = {}
      BY <2>2, <2>8, <3>1 DEF Fresh, Refunded, RefundOpen
    <3> QED
      BY <2>8, <3>2 DEF Refunded, Becomes, AddsProof
  <2>9. booking'[b].refund = 0 => ~(booking'[b].refund > 0)
    OBVIOUS
  <2>10. CASE \E s \in Slots : Inserted(s, b) \/ PaidOnline(s, b) \/ PaidAtDesk(s, b)
    BY <2>4, <2>6, <2>10
  <2>11. CASE \E s \in Slots : Written(s, b)
    BY <2>2, <2>4, <2>7, <2>9, <2>11
  <2>12. CASE \E s \in Slots : Refunded(s, b)
    BY <2>8, <2>12
  <2> QED
    BY <2>1, <2>3, <2>5, <2>10, <2>11, <2>12, BookingComesFrom
<1>3. IInv /\ RefundInv /\ ConfirmedIsPaid /\ (\A s \in Slots : Fresh(s)) /\ [Next]_vars
        => RefundInv' /\ \A s \in Slots : Fresh(s)'
  BY <1>2, FreshInvariant
<1>4. RefundInv => RefundLedger
  <2> SUFFICES ASSUME RefundInv, NEW b \in Bookings
               PROVE  Cardinality(RefundProofs(b)) =
                        IF booking[b].refunded /\ booking[b].refund > 0 THEN 1 ELSE 0
    BY DEF RefundLedger
  <2>1. RefundProofs(b) = ProofsIn(txn[b])
    BY DEF RefundProofs, ProofsIn, IsProof
  <2>2. CASE booking[b].refunded /\ booking[b].refund > 0
    BY <2>1, <2>2, FS_Singleton DEF RefundInv
  <2>3. CASE ~(booking[b].refunded /\ booking[b].refund > 0)
    BY <2>1, <2>3, FS_EmptySet DEF RefundInv
  <2> QED
    BY <2>2, <2>3
<1>5. (\A s \in Slots : Fresh(s))' <=> \A s \in Slots : Fresh(s)'
  OBVIOUS
<1> DEFINE AllFresh == \A s \in Slots : Fresh(s)
<1>6. /\ Init => RefundInv /\ AllFresh
      /\ IInv /\ RefundInv /\ ConfirmedIsPaid /\ AllFresh /\ [Next]_vars => RefundInv' /\ AllFresh'
  BY <1>1, <1>3
<1> HIDE DEF AllFresh
<1> QED
  BY <1>4, <1>6, InvariantHolds, ConfirmedPaidOneAtATime, PTL DEF Spec

\* A booking whose refund was not made has no proof of one.
OpenOnce ==
    \A b \in Bookings :
        /\ booking[b].status = "ABSENT" => ~booking[b].refunded
        /\ ~booking[b].refunded => ProofsIn(txn[b]) = {}
        /\ \A i, j \in ProofsIn(txn[b]) : i = j

\* Any number of clicks on confirmRefund, at the same time and overlapping with
\* everything but an approval, refund once: refundedAt is checked in the
\* statement that sets it, and only an approval ever clears it.
THEOREM RefundedOnce ==
    ASSUME "approve" \notin Requests
    PROVE  Spec => []RefundOnce
<1> DEFINE NoApproval == Calm({"approve"})
<1>1. /\ Init => NoApproval
      /\ IInv /\ NoApproval /\ [Next]_vars => NoApproval'
  <2>1. {"approve"} \in SUBSET Decisions /\ {"approve"} \cap Requests = {}
    BY DEF Decisions
  <2> QED
    BY <2>1, CalmInvariant
<1>2. Init => OpenOnce
  BY DEF Init, OpenOnce, Absent, ProofsIn
<1>3. ASSUME IInv, NoApproval, OpenOnce, [Next]_vars, NEW b \in Bookings
      PROVE  /\ booking'[b].status = "ABSENT" => ~booking'[b].refunded
             /\ ~booking'[b].refunded => ProofsIn(txn'[b]) = {}
             /\ \A i, j \in ProofsIn(txn'[b]) : i = j
  <2>0. MoneyEffect
    BY <1>3, NextMoney
  <2>1. /\ booking[b].status = "ABSENT" => ~booking[b].refunded
        /\ ~booking[b].refunded => ProofsIn(txn[b]) = {}
        /\ \A i, j \in ProofsIn(txn[b]) : i = j
    BY <1>3 DEF OpenOnce
  <2>2. ASSUME NEW s \in Slots, Refunded(s, b)
        PROVE  /\ booking'[b].refunded /\ booking'[b].status = "CANCELLED"
               /\ \E i : ProofsIn(txn'[b]) = {i}
    BY <2>1, <2>2 DEF Refunded, RefundOpen, Becomes, AddsProof
  <2>3. ASSUME NEW s \in Slots, Written(s, b)
        PROVE  /\ booking'[b].refunded = booking[b].refunded
               /\ booking'[b].status = "ABSENT" => booking[b].status = "ABSENT"
               /\ ProofsIn(txn'[b]) = ProofsIn(txn[b])
    BY <1>3, <2>3 DEF Calm, Written, Ends, Becomes, ProvesTheSame
  <2>4. CASE Released(b)
    BY <2>1, <2>4 DEF Released, Becomes, ProvesTheSame
  <2>5. ASSUME NEW s \in Slots, Inserted(s, b)
        PROVE  /\ ~booking'[b].refunded /\ ~booking[b].refunded
               /\ ProofsIn(txn'[b]) = ProofsIn(txn[b])
    BY <2>1, <2>5 DEF Inserted, ProvesTheSame
  <2>6. ASSUME NEW s \in Slots, PaidOnline(s, b) \/ PaidAtDesk(s, b) \/ ReceiptAdded(s, b)
        PROVE  /\ booking'[b].refunded = booking[b].refunded
               /\ booking'[b].status = "ABSENT" => booking[b].status = "ABSENT"
               /\ ProofsIn(txn'[b]) = ProofsIn(txn[b])
    BY <2>6 DEF PaidOnline, PaidAtDesk, Paid, ReceiptAdded, Becomes, SameRow, ProvesTheSame, AddsReceipt
  <2>7. CASE SameMoney(b)
    BY <2>1, <2>7 DEF SameMoney, SameRow, ProvesTheSame
  <2>8. CASE \E s \in Slots : Refunded(s, b)
    BY <2>2, <2>8
  <2>9. CASE \E s \in Slots : Written(s, b) \/ PaidOnline(s, b) \/ PaidAtDesk(s, b) \/ ReceiptAdded(s, b)
    BY <2>1, <2>3, <2>6, <2>9
  <2>10. CASE \E s \in Slots : Inserted(s, b)
    BY <2>1, <2>5, <2>10
  <2> QED
    BY <2>0, <2>4, <2>7, <2>8, <2>9, <2>10, BookingComesFrom
<1>4. OpenOnce => RefundOnce
  <2> SUFFICES ASSUME OpenOnce, NEW b \in Bookings PROVE Cardinality(RefundProofs(b)) <= 1
    BY DEF RefundOnce
  <2>1. RefundProofs(b) = ProofsIn(txn[b])
    BY DEF RefundProofs, ProofsIn, IsProof
  <2>2. \A i, j \in RefundProofs(b) : i = j
    BY <2>1 DEF OpenOnce
  <2> QED
    BY <2>2, AtMostOne
<1>5. IInv /\ NoApproval /\ OpenOnce /\ [Next]_vars => OpenOnce'
  BY <1>3 DEF OpenOnce
<1> HIDE DEF NoApproval
<1> QED
  BY <1>1, <1>2, <1>4, <1>5, InvariantHolds, PTL DEF Spec
-----------------------------------------------------------------------------
(* Discounts.                                                              *)

\* Discounted bookings can be counted.
LEMMA DiscountedFinite == IsFiniteSet(Discounted) /\ IsFiniteSet(Discounted')
<1>1. Discounted \subseteq Bookings /\ Discounted' \subseteq Bookings
  BY DEF Discounted
<1> QED
  BY <1>1, BookingsAssumption, FS_Subset

\* Only booking b is written: it may join the discounted ones, leave them, or
\* neither.
LEMMA DiscountedChanges ==
    ASSUME NEW b \in Bookings, OtherMoneyKept(b)
    PROVE  /\ b \notin Discounted' => Discounted' = Discounted \ {b}
           /\ b \in Discounted' => Discounted' = Discounted \cup {b}
<1>1. Discounted' \subseteq Bookings /\ Discounted \subseteq Bookings
  BY DEF Discounted
<1>2. \A c \in Bookings \ {b} : c \in Discounted' <=> c \in Discounted
  BY DEF OtherMoneyKept, SameMoney, SameRow, Discounted, Live
<1> QED
  BY <1>1, <1>2

\* The discounts stay covered if a booking that joins the discounted ones is
\* counted, and only one that leaves them is uncounted.
LEMMA DiscountsBalance ==
    ASSUME IInv, usedCount' \in Nat, DiscountsCovered, NEW b \in Bookings, OtherMoneyKept(b),
           \/ b \in Discounted' /\ b \in Discounted /\ usedCount' >= usedCount
           \/ b \in Discounted' /\ usedCount' = usedCount + 1
           \/ b \notin Discounted' /\ b \in Discounted /\ usedCount' >= usedCount - 1
           \/ b \notin Discounted' /\ usedCount' >= usedCount
    PROVE  DiscountsCovered'
<1> DEFINE old == Discounted
<1> DEFINE new == Discounted'
<1>0. usedCount \in Nat
  BY Parts DEF CountersOK
<1>1. IsFiniteSet(old) /\ Cardinality(old) <= usedCount
  BY DiscountedFinite DEF DiscountsCovered
<1>2. (b \notin new => new = old \ {b}) /\ (b \in new => new = old \cup {b})
  BY DiscountedChanges
<1>u. \/ b \in new /\ b \in old /\ usedCount' >= usedCount
      \/ b \in new /\ usedCount' = usedCount + 1
      \/ b \notin new /\ b \in old /\ usedCount' >= usedCount - 1
      \/ b \notin new /\ usedCount' >= usedCount
  OBVIOUS
<1> HIDE DEF old, new
<1>3. /\ Cardinality(old) \in Nat
      /\ Cardinality(old \cup {b}) = IF b \in old THEN Cardinality(old) ELSE Cardinality(old) + 1
      /\ Cardinality(old \ {b}) = IF b \in old THEN Cardinality(old) - 1 ELSE Cardinality(old)
  BY <1>1, FS_CardinalityType, FS_AddElement, FS_RemoveElement
<1>4. /\ b \in new => Cardinality(new) = IF b \in old THEN Cardinality(old) ELSE Cardinality(old) + 1
      /\ b \notin new => Cardinality(new) = IF b \in old THEN Cardinality(old) - 1 ELSE Cardinality(old)
  BY <1>2, <1>3
<1>5. Cardinality(old) <= usedCount
  BY <1>1
<1>6. Cardinality(new) <= usedCount'
  BY <1>0, <1>3, <1>4, <1>5, <1>u
<1> QED
  BY <1>6 DEF DiscountsCovered, new

\* A booking made from an assisted draft, which counts its use only when it is
\* paid, does not use the voucher.
NoAssistedDiscounts == \A b \in Bookings : ~(booking[b].assisted /\ booking[b].voucher)

\* Every live booking with a discount has its use counted, however creations,
\* payments, cancellations and expiries overlap: as long as no assisted booking
\* uses the voucher and no late decision revives a cancelled booking.
THEOREM DiscountsAlwaysCovered ==
    ASSUME Requests \cap LateDecisions = {},
           "approveDraft" \notin Requests \/ TRUE \notin DraftVouchers
    PROVE  Spec => []DiscountsCovered
<1>1. /\ Init => Calm(LateDecisions)
      /\ IInv /\ Calm(LateDecisions) /\ [Next]_vars => Calm(LateDecisions)'
  <2>1. LateDecisions \in SUBSET Decisions /\ LateDecisions \cap Requests = {}
    BY DEF LateDecisions, Decisions
  <2> QED
    BY <2>1, CalmInvariant
<1>2. Init => NoAssistedDiscounts /\ DiscountsCovered
  <2> SUFFICES ASSUME Init PROVE NoAssistedDiscounts /\ DiscountsCovered
    OBVIOUS
  <2>1. Discounted = {}
    BY DEF Init, Discounted, Live, Absent
  <2>2. Cardinality(Discounted) = 0 /\ usedCount = 0
    BY <2>1, FS_EmptySet DEF Init
  <2> QED
    BY <2>2 DEF Init, NoAssistedDiscounts, DiscountsCovered, Absent
<1>3. ASSUME IInv, Calm(LateDecisions), NoAssistedDiscounts, DiscountsCovered, [Next]_vars
      PROVE  NoAssistedDiscounts' /\ DiscountsCovered'
  <2>0. MoneyEffect
    BY <1>3, NextMoney
  <2>1. usedCount \in Nat /\ usedCount' \in Nat
    <3>1. IInv'
      BY <1>3, NextPreservesIInv
    <3> QED
      BY <1>3, <3>1 DEF IInv, TypeOK
  <2>2. ASSUME NEW s \in Slots, NEW b \in Bookings, Inserted(s, b)
        PROVE  /\ ~(booking'[b].assisted /\ booking'[b].voucher)
               /\ OtherMoneyKept(b)
               /\ \/ b \in Discounted' /\ usedCount' = usedCount + 1
                  \/ b \notin Discounted' /\ usedCount' >= usedCount
    <3>1. CASE ~booking'[b].assisted /\ ClaimVoucher(booking'[b].voucher)
      BY <2>1, <2>2, <3>1 DEF Inserted, ClaimVoucher, Discounted, Live
    <3>2. CASE /\ booking'[b].assisted /\ "approveDraft" \in Requests
               /\ booking'[b].voucher \in DraftVouchers /\ usedCount' = usedCount
      <4>1. ~booking'[b].voucher
        BY <3>2, InputAssumption
      <4> QED
        BY <2>1, <2>2, <3>2, <4>1 DEF Inserted, Discounted
    <3> QED
      BY <2>2, <3>1, <3>2 DEF Inserted
  <2>3. ASSUME NEW s \in Slots, NEW b \in Bookings, PaidOnline(s, b) \/ PaidAtDesk(s, b)
        PROVE  /\ ~(booking'[b].assisted /\ booking'[b].voucher)
               /\ OtherMoneyKept(b)
               /\ usedCount' = usedCount
               /\ b \in Discounted' <=> b \in Discounted
    BY <1>3, <2>3 DEF PaidOnline, PaidAtDesk, Paid, Becomes, Unsettled, MarkVoucherAsUsed,
                      NoAssistedDiscounts, Discounted, Live
  <2>4. ASSUME NEW b \in Bookings, Released(b)
        PROVE  /\ ~(booking'[b].assisted /\ booking'[b].voucher)
               /\ OtherMoneyKept(b)
               /\ b \notin Discounted'
               /\ \/ b \in Discounted /\ usedCount' >= usedCount - 1
                  \/ usedCount' >= usedCount
    BY <1>3, <2>1, <2>4 DEF Released, Becomes, Unsettled, ReleaseVoucher, NoAssistedDiscounts, Discounted, Live
  <2>5. ASSUME NEW s \in Slots, NEW b \in Bookings,
               ReceiptAdded(s, b) \/ Written(s, b) \/ Refunded(s, b)
        PROVE  /\ ~(booking'[b].assisted /\ booking'[b].voucher)
               /\ OtherMoneyKept(b)
               /\ usedCount' = usedCount
               /\ b \in Discounted' => b \in Discounted
    BY <1>3, <2>5 DEF ReceiptAdded, Written, Refunded, Becomes, SameRow, Ends, Calm, LateDecisions,
                      NoAssistedDiscounts, Discounted, Live
  <2>6. NoAssistedDiscounts'
    <3>1. ASSUME NEW b \in Bookings
          PROVE  ~(booking'[b].assisted /\ booking'[b].voucher)
      <4>1. SameMoney(b) => ~(booking'[b].assisted /\ booking'[b].voucher)
        BY <1>3 DEF SameMoney, SameRow, NoAssistedDiscounts
      <4> QED
        BY <2>0, <2>2, <2>3, <2>4, <2>5, <4>1, BookingComesFrom
    <3> QED
      BY <3>1 DEF NoAssistedDiscounts
  <2>7. ASSUME NoMoneyMoves
        PROVE  DiscountsCovered'
    <3>1. Discounted' = Discounted /\ usedCount' = usedCount
      BY <2>7 DEF NoMoneyMoves, SameMoney, SameRow, Discounted, Live
    <3>2. Cardinality(Discounted') <= usedCount'
      BY <1>3, <3>1 DEF DiscountsCovered
    <3> QED
      BY <3>2 DEF DiscountsCovered
  <2>8. ASSUME NEW s \in Slots, NEW b \in Bookings,
               \/ Inserted(s, b) \/ PaidOnline(s, b) \/ PaidAtDesk(s, b)
               \/ ReceiptAdded(s, b) \/ Written(s, b) \/ Refunded(s, b)
        PROVE  DiscountsCovered'
    BY <1>3, <2>1, <2>2, <2>3, <2>5, <2>8, DiscountsBalance
  <2>9. ASSUME NEW b \in Bookings, Released(b)
        PROVE  DiscountsCovered'
    BY <1>3, <2>1, <2>4, <2>9, DiscountsBalance
  <2>10. DiscountsCovered'
    BY <2>0, <2>7, <2>8, <2>9 DEF MoneyEffect, Idled, Stopped, Decided, RefundRefused
  <2> QED
    BY <2>6, <2>10
<1>4. IInv /\ Calm(LateDecisions) /\ NoAssistedDiscounts /\ DiscountsCovered /\ [Next]_vars
        => NoAssistedDiscounts' /\ DiscountsCovered'
  BY <1>3
<1> QED
  BY <1>1, <1>2, <1>4, InvariantHolds, PTL DEF Spec
-----------------------------------------------------------------------------
(* Holds.                                                                  *)

\* The statements that start a hold again from now.
SwitchOps == {"toPayos", "toInStore", "publicHold"}

\* The hold of a PayOS booking ends within the ceiling, and with it; where
\* customers may only choose PayOS there is no other booking.
TermOK(row) ==
    /\ row.method = "PAYOS" =>
          /\ row.hold <= Window
          /\ row.age > 0 => row.hold = Lapsed
    /\ NewMethods \subseteq {"PAYOS"} => row.method = "PAYOS"

TermsOK == \A b \in Bookings : TermOK(booking[b])

SameTerm(b) == /\ booking'[b].method = booking[b].method
               /\ booking'[b].hold = booking[b].hold
               /\ booking'[b].age = booking[b].age

\* Statements that touch neither method, hold nor age keep the holds.
LEMMA SameTermsKeep ==
    ASSUME TermsOK, \A b \in Bookings : SameTerm(b)
    PROVE  TermsOK'
  BY DEF TermsOK, TermOK, SameTerm

\* One row is written whose hold is in order.
LEMMA WrittenTermKeeps ==
    ASSUME BookingOK, TermsOK, NEW b \in Bookings, NEW r, TermOK(r), booking' = [booking EXCEPT ![b] = r]
    PROVE  TermsOK'
<1>1. \A c \in Bookings : booking'[c] = IF c = b THEN r ELSE booking[c]
  BY DEF BookingOK
<1> QED
  BY <1>1 DEF TermsOK, TermOK

\* cancelAndRestoreSeats touches none of them.
LEMMA CancelAndRestoreTerms ==
    ASSUME BookingOK, NEW b \in Bookings, CancelAndRestoreSeats(b)
    PROVE  \A c \in Bookings : SameTerm(c)
  BY DEF CancelAndRestoreSeats, BookingOK, Row, SameTerm

\* Which statement a slot goes to.
LEMMA CalmMoves ==
    ASSUME SlotsOK, NEW kinds, "idle" \notin kinds, Calm(kinds), NEW s \in Slots
    PROVE  /\ \A op, b, n : Goto(s, op, b, n) /\ op \notin kinds => Calm(kinds)'
           /\ Finish(s) => Calm(kinds)'
           /\ req' = req => Calm(kinds)'
  BY DEF SlotsOK, Calm, Goto, Finish, IdleReq

\* No statement of a handler in flight gives a PayOS booking a longer hold.
LEMMA StepTerms ==
    ASSUME IInv, TermsOK, Calm(SwitchOps), NEW s \in Slots, Step(s)
    PROVE  TermsOK' /\ Calm(SwitchOps)'
<1> DEFINE b == req[s].b
<1>0. BookingOK /\ SlotsOK
  BY Parts
<1>b. ~At(s, "idle") /\ ~At(s, "sweep") => b \in Bookings
  BY <1>0 DEF SlotsOK, SlotOK, At
<1>m. /\ \A op, c, n : Goto(s, op, c, n) /\ op \notin SwitchOps => Calm(SwitchOps)'
      /\ Finish(s) => Calm(SwitchOps)'
  BY <1>0, CalmMoves DEF SwitchOps
<1>u. UNCHANGED booking => TermsOK'
  BY DEF TermsOK, TermOK
<1>s. (\A c \in Bookings : SameTerm(c)) => TermsOK'
  BY SameTermsKeep
<1>1. CASE AddManualRow(s)
  BY <1>m, <1>u, <1>1 DEF AddManualRow, SwitchOps
<1>2. CASE CreateLink(s)
  BY <1>m, <1>u, <1>2 DEF CreateLink, SwitchOps
<1>3. CASE CreateLinkFails(s)
  BY <1>0, <1>b, <1>m, <1>s, <1>3, CancelAndRestoreTerms DEF CreateLinkFails, SwitchOps, At
<1>4. CASE AddLinkRow(s)
  BY <1>m, <1>u, <1>4 DEF AddLinkRow, SwitchOps
<1>5. CASE PayosConfirm(s)
  <2>1. \A c \in Bookings : SameTerm(c)
    BY <1>0, <1>b, <1>5 DEF PayosConfirm, Confirmed, BookingOK, Row, SameTerm, At
  <2> QED
    BY <1>m, <1>s, <1>5, <2>1 DEF PayosConfirm, SwitchOps
<1>6. CASE PayosCancel(s)
  BY <1>0, <1>b, <1>m, <1>s, <1>6, CancelAndRestoreTerms DEF PayosCancel, SwitchOps, At
<1>7. CASE AddPayosRow(s)
  BY <1>m, <1>u, <1>7 DEF AddPayosRow, SwitchOps
<1>8. CASE ConfirmBookingAsPaid(s)
  <2>1. \A c \in Bookings : SameTerm(c)
    BY <1>0, <1>b, <1>8 DEF ConfirmBookingAsPaid, Confirmed, BookingOK, Row, SameTerm, At
  <2> QED
    BY <1>m, <1>s, <1>8, <2>1 DEF ConfirmBookingAsPaid, SwitchOps
<1>9. CASE CloseTicket(s)
  BY <1>m, <1>u, <1>9 DEF CloseTicket, SwitchOps
<1>10. CASE SetMethod(s)
  BY <1>10 DEF SetMethod, Calm, SwitchOps, At
<1>11. CASE SwitchRowsToPayos(s)
  BY <1>m, <1>u, <1>11 DEF SwitchRowsToPayos, SwitchOps
<1>12. CASE SwitchRowsToInStore(s)
  BY <1>m, <1>u, <1>12 DEF SwitchRowsToInStore, SwitchOps
<1>13. CASE RetryHold(s)
  <2> DEFINE r == [booking[b] EXCEPT !.method = "PAYOS",
                                    !.hold = IF booking[b].age = 0 THEN Window ELSE Lapsed]
  <2>1. b \in Bookings /\ booking' = [booking EXCEPT ![b] = r]
    BY <1>0, <1>b, <1>13 DEF RetryHold, BookingOK, At
  <2>2. TermOK(r)
    BY <1>0, <2>1 DEF BookingOK, Row, Ages, TermOK, Window, Lapsed
  <2>3. TermsOK'
    BY <1>0, <2>1, <2>2, WrittenTermKeeps
  <2> QED
    BY <1>m, <1>13, <2>3 DEF RetryHold, SwitchOps
<1>14. CASE PublicRetryHold(s)
  BY <1>14 DEF PublicRetryHold, Calm, SwitchOps, At
<1>15. CASE ReuseLink(s)
  BY <1>m, <1>u, <1>15 DEF ReuseLink, SwitchOps
<1>16. CASE LinkFails(s)
  BY <1>m, <1>u, <1>16 DEF LinkFails, SwitchOps
<1>17. CASE ReplacePendingPayosTransaction(s)
  BY <1>m, <1>u, <1>17 DEF ReplacePendingPayosTransaction, SwitchOps
<1>18. CASE SendPaymentRequest(s)
  BY <1>m, <1>u, <1>18 DEF SendPaymentRequest, SwitchOps
<1>19. CASE FilePaymentIssue(s)
  <2>1. \A c \in Bookings : SameTerm(c)
    BY <1>0, <1>b, <1>19 DEF FilePaymentIssue, BookingOK, Row, SameTerm, At
  <2> QED
    BY <1>m, <1>s, <1>19, <2>1 DEF FilePaymentIssue, SwitchOps
<1>20. CASE CancelPending(s)
  <2>1. \A c \in Bookings : SameTerm(c)
    BY <1>0, <1>b, <1>20 DEF CancelPending, BookingOK, Row, SameTerm, At
  <2> QED
    BY <1>m, <1>s, <1>20, <2>1 DEF CancelPending, SwitchOps
<1>21. CASE MarkCancelRequested(s)
  <2>1. \A c \in Bookings : SameTerm(c)
    BY <1>0, <1>b, <1>21 DEF MarkCancelRequested, BookingOK, Row, SameTerm, At
  <2> QED
    BY <1>m, <1>s, <1>21, <2>1 DEF MarkCancelRequested, SwitchOps
<1>22. CASE ApproveWrite(s)
  <2>1. \A c \in Bookings : SameTerm(c)
    BY <1>0, <1>b, <1>22 DEF ApproveWrite, BookingOK, Row, SameTerm, At
  <2> QED
    BY <1>m, <1>s, <1>22, <2>1 DEF ApproveWrite, SwitchOps
<1>23. CASE RejectWrite(s)
  <2>1. \A c \in Bookings : SameTerm(c)
    BY <1>0, <1>b, <1>23 DEF RejectWrite, BookingOK, Row, SameTerm, At
  <2> QED
    BY <1>m, <1>s, <1>23, <2>1 DEF RejectWrite, SwitchOps
<1>24. CASE AdminCancelWrite(s)
  <2>1. \A c \in Bookings : SameTerm(c)
    BY <1>0, <1>b, <1>24 DEF AdminCancelWrite, BookingOK, Row, SameTerm, At
  <2> QED
    BY <1>m, <1>s, <1>24, <2>1 DEF AdminCancelWrite, SwitchOps
<1>25. CASE ConfirmRefundWrite(s)
  <2>1. \A c \in Bookings : SameTerm(c)
    BY <1>0, <1>b, <1>25 DEF ConfirmRefundWrite, BookingOK, Row, SameTerm, At
  <2> QED
    BY <1>m, <1>s, <1>25, <2>1 DEF ConfirmRefundWrite, SwitchOps
<1> QED
  BY <1>1, <1>2, <1>3, <1>4, <1>5, <1>6, <1>7, <1>8, <1>9, <1>10, <1>11, <1>12, <1>13, <1>14, <1>15, <1>16, <1>17, <1>18, <1>19, <1>20, <1>21, <1>22, <1>23, <1>24, <1>25 DEF Step

\* Nothing is asked for that would start a hold again from now.
NoNewTerms ==
    /\ "switchMethod" \notin Requests
    /\ "publicRetry" \notin Requests \/ NewMethods \subseteq {"PAYOS"}

\* A new booking has the hold that its method allows.
LEMMA NewTermOK ==
    ASSUME NEW method \in NewMethods, NEW assisted, NEW voucher, NEW n, NEW m
    PROVE  TermOK(NewBooking(method, HoldFor(method), assisted, voucher, n, m))
  BY DEF TermOK, NewBooking, HoldFor, Window, WholeDay, Lapsed

\* No request gives a PayOS booking a longer hold.
LEMMA RequestTerms ==
    ASSUME NoNewTerms, IInv, TermsOK, Calm(SwitchOps), NEW s \in Slots, NEW b \in Bookings, Request(s, b)
    PROVE  TermsOK' /\ Calm(SwitchOps)'
<1>0. BookingOK /\ SlotsOK
  BY Parts
<1>m. \A op, c, n : Goto(s, op, c, n) /\ op \notin SwitchOps => Calm(SwitchOps)'
  BY <1>0, CalmMoves DEF SwitchOps
<1>u. UNCHANGED booking => TermsOK'
  BY DEF TermsOK, TermOK
<1>1. CASE Create(s, b)
  <2>1. PICK method \in NewMethods, voucher \in NewVouchers, p \in Parties :
           booking' = [booking EXCEPT ![b] = NewBooking(method, HoldFor(method), FALSE, voucher, p[1], p[2])]
    BY <1>1 DEF Create
  <2>2. TermsOK'
    BY <1>0, <2>1, NewTermOK, WrittenTermKeeps
  <2> QED
    BY <1>m, <1>1, <2>2 DEF Create, SwitchOps
<1>2. CASE ApproveAssistedDraft(s, b)
  <2>1. PICK method \in NewMethods, voucher \in DraftVouchers, p \in Parties :
           booking' = [booking EXCEPT ![b] = NewBooking(method, HoldFor(method), TRUE, voucher, p[2], p[2])]
    BY <1>2 DEF ApproveAssistedDraft
  <2>2. TermsOK'
    BY <1>0, <2>1, NewTermOK, WrittenTermKeeps
  <2> QED
    BY <1>m, <1>2, <2>2 DEF ApproveAssistedDraft, SwitchOps
<1>3. CASE PayosReturn(s, b)
  BY <1>m, <1>u, <1>3 DEF PayosReturn, SwitchOps
<1>4. CASE ConfirmInStore(s, b)
  BY <1>m, <1>u, <1>4 DEF ConfirmInStore, Proceeds, SwitchOps
<1>5. CASE CustomerCheckPayment(s, b)
  BY <1>m, <1>u, <1>5 DEF CustomerCheckPayment, Proceeds, SwitchOps
<1>6. CASE SyncPayosStatus(s, b)
  BY <1>m, <1>u, <1>6 DEF SyncPayosStatus, Proceeds, SwitchOps
<1>7. CASE ReconcilePayosManual(s, b)
  BY <1>m, <1>u, <1>7 DEF ReconcilePayosManual, Proceeds, SwitchOps
<1>8. CASE UpdatePaymentMethod(s, b)
  BY <1>8 DEF UpdatePaymentMethod, Arrives, NoNewTerms
<1>9. CASE RetryPayment(s, b)
  BY <1>m, <1>u, <1>9 DEF RetryPayment, Proceeds, SwitchOps
<1>10. CASE PublicRetryPayment(s, b)
  <2>1. booking[b].method = "PAYOS"
    BY <1>10 DEF PublicRetryPayment, Arrives, NoNewTerms, TermsOK, TermOK
  <2> QED
    BY <1>m, <1>u, <1>10, <2>1 DEF PublicRetryPayment, Proceeds, SwitchOps
<1>11. CASE ResendPaymentRequest(s, b)
  BY <1>m, <1>u, <1>11 DEF ResendPaymentRequest, Proceeds, SwitchOps
<1>12. CASE ReportPaymentIssue(s, b)
  BY <1>m, <1>u, <1>12 DEF ReportPaymentIssue, Proceeds, SwitchOps
<1>13. CASE RequestCancelPending(s, b)
  BY <1>m, <1>u, <1>13 DEF RequestCancelPending, Decides, SwitchOps
<1>14. CASE RequestCancelConfirmed(s, b)
  BY <1>m, <1>u, <1>14 DEF RequestCancelConfirmed, Decides, SwitchOps
<1>15. CASE ApproveCancellation(s, b)
  BY <1>m, <1>u, <1>15 DEF ApproveCancellation, Decides, SwitchOps
<1>16. CASE RejectCancellation(s, b)
  BY <1>m, <1>u, <1>16 DEF RejectCancellation, Decides, SwitchOps
<1>17. CASE AdminCancelBooking(s, b)
  BY <1>m, <1>u, <1>17 DEF AdminCancelBooking, Decides, SwitchOps
<1>18. CASE ConfirmRefund(s, b)
  BY <1>m, <1>u, <1>18 DEF ConfirmRefund, Decides, SwitchOps
<1> QED
  BY <1>1, <1>2, <1>3, <1>4, <1>5, <1>6, <1>7, <1>8, <1>9, <1>10, <1>11, <1>12, <1>13, <1>14, <1>15, <1>16, <1>17, <1>18 DEF Request

\* Neither does the clock: every hold it finds within the ceiling has lapsed when
\* the ceiling has passed.
LEMMA EnvironmentTerms ==
    ASSUME IInv, TermsOK, Environment
    PROVE  TermsOK'
<1>0. BookingOK
  BY Parts
<1>u. UNCHANGED booking => TermsOK'
  BY DEF TermsOK, TermOK
<1>1. ASSUME NEW b \in Bookings, HoldLapses(b)
      PROVE  TermsOK'
  <2> DEFINE r == [booking[b] EXCEPT !.hold = Lapsed]
  <2>1. booking' = [booking EXCEPT ![b] = r]
    BY <1>0, <1>1 DEF HoldLapses, BookingOK
  <2>2. TermOK(r)
    BY <1>0 DEF BookingOK, Row, TermsOK, TermOK, Window, Lapsed
  <2> QED
    BY <1>0, <2>1, <2>2, WrittenTermKeeps
<1>2. ASSUME NEW b \in Bookings, GrowsOlder(b)
      PROVE  TermsOK'
  <2> DEFINE age == booking[b].age + 1
  <2> DEFINE hold == IF booking[b].hold <= age THEN Lapsed ELSE booking[b].hold
  <2> DEFINE r == [booking[b] EXCEPT !.age = age, !.hold = hold]
  <2>1. booking' = [booking EXCEPT ![b] = r]
    BY <1>0, <1>2 DEF GrowsOlder, BookingOK
  <2>2. TermOK(r)
    BY <1>0 DEF BookingOK, Row, Ages, TermsOK, TermOK, Window, Lapsed, Open
  <2> HIDE DEF r
  <2> QED
    BY <1>0, <2>1, <2>2, WrittenTermKeeps
<1>3. CASE TimePasses
  <2>1. ASSUME NEW b \in Bookings
        PROVE  TermOK(booking'[b])
    <3> DEFINE r == [booking[b] EXCEPT !.hold = Lapsed]
    <3>1. TermOK(r) /\ TermOK(booking[b])
      BY <1>0 DEF BookingOK, Row, TermsOK, TermOK, Window, Lapsed
    <3>2. booking'[b] = r \/ booking'[b] = booking[b]
      BY <1>3 DEF TimePasses
    <3> QED
      BY <3>1, <3>2
  <2> QED
    BY <2>1 DEF TermsOK, TermOK
<1> QED
  BY <1>u, <1>1, <1>2, <1>3 DEF Environment, PayLink, LinkDies

\* However often the customer asks for a new QR code, and whatever else happens to
\* the booking, an unpaid PayOS booking past the ceiling has no hold left: as long
\* as the payment method is not switched, on its own or by the public retry.
THEOREM PayosHoldsCapped ==
    ASSUME NoNewTerms
    PROVE  Spec => []PayosHoldCapped
<1>1. Init => TermsOK /\ Calm(SwitchOps)
  BY DEF Init, TermsOK, TermOK, Calm, SwitchOps, Absent, IdleReq, Window, Lapsed
<1>2. ASSUME IInv, TermsOK, Calm(SwitchOps), [Next]_vars
      PROVE  TermsOK' /\ Calm(SwitchOps)'
  <2>0. BookingOK /\ SlotsOK
    BY <1>2, Parts
  <2>m. ASSUME NEW s \in Slots
        PROVE  /\ \A op, c, n : Goto(s, op, c, n) /\ op \notin SwitchOps => Calm(SwitchOps)'
               /\ Finish(s) => Calm(SwitchOps)'
               /\ req' = req => Calm(SwitchOps)'
    BY <1>2, <2>0, CalmMoves DEF SwitchOps
  <2>u. UNCHANGED booking => TermsOK'
    BY <1>2 DEF TermsOK, TermOK
  <2>r. UNCHANGED req => Calm(SwitchOps)'
    BY <1>2 DEF Calm
  <2>1. ASSUME NEW s \in Slots, Cron(s)
        PROVE  TermsOK' /\ Calm(SwitchOps)'
    <3>1. CASE ScanExpired(s)
      BY <2>m, <2>u, <3>1 DEF ScanExpired, SwitchOps
    <3>2. ASSUME NEW b \in Bookings, CancelExpired(s, b)
          PROVE  TermsOK' /\ Calm(SwitchOps)'
      BY <1>2, <2>0, <2>m, <2>r, <3>2, CancelAndRestoreTerms, SameTermsKeep DEF CancelExpired, Visited
    <3>3. ASSUME NEW b \in Bookings, SkipExpired(s, b)
          PROVE  TermsOK' /\ Calm(SwitchOps)'
      BY <2>m, <2>r, <2>u, <3>3 DEF SkipExpired, Visited
    <3> QED
      BY <2>1, <3>1, <3>2, <3>3 DEF Cron
  <2>2. ASSUME NEW s \in Slots, Abort(s)
        PROVE  TermsOK' /\ Calm(SwitchOps)'
    BY <2>m, <2>u, <2>2 DEF Abort
  <2>3. CASE Environment
    <3>1. UNCHANGED req
      BY <2>3 DEF Environment, PayLink, LinkDies, HoldLapses, GrowsOlder, TimePasses
    <3> QED
      BY <1>2, <2>r, <2>3, <3>1, EnvironmentTerms
  <2>4. CASE UNCHANGED vars
    BY <2>r, <2>u, <2>4 DEF vars
  <2> QED
    BY <1>2, <2>1, <2>2, <2>3, <2>4, StepTerms, RequestTerms DEF Next
<1>3. TermsOK => PayosHoldCapped
  BY DEF TermsOK, TermOK, PayosHoldCapped
<1>4. IInv /\ TermsOK /\ Calm(SwitchOps) /\ [Next]_vars => TermsOK' /\ Calm(SwitchOps)'
  BY <1>2
<1> QED
  BY <1>1, <1>3, <1>4, InvariantHolds, PTL DEF Spec
=============================================================================
