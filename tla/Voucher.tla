------------------------------ MODULE Voucher ------------------------------
(***************************************************************************)
(* A voucher, its administration, the customers' wallets, and the bookings *)
(* made with its code (voucher.service).  Bookings refer to the voucher by *)
(* its code, so a rename or a removal cuts them off; it is refused while   *)
(* usedCount > 0, by a check made before the write.  The bookings are      *)
(* those customers make; an assisted one is in BookingPayment.             *)
(***************************************************************************)
EXTENDS Handlers, Counting

CONSTANTS
    Users,
    Codes,          \* codes an admin may choose
    Limits,         \* values of maxUses an admin may choose
    PerUser,        \* usageLimitPerUser
    MaxVouchers,    \* bound: vouchers made, one at a time
    MaxBookings     \* bound: bookings held or cancelled with their use kept

ASSUME CodesAssumption == Codes # {} /\ Limits # {} /\ Limits \subseteq Nat
ASSUME LimitsAssumption == PerUser \in Nat \ {0} /\ MaxVouchers \in Nat \ {0}

VARIABLES
    voucher,    \* the Voucher row
    wallet,     \* the UserVoucher row of each customer: none, saved, used (isUsed)
    held,       \* live bookings of each customer with each code
    forgotten,  \* history: bookings of each customer cancelled without a release
    cutOff,     \* history: a rename or a removal overlapped with the use of the code
    raced       \* history: the customers two of whose bookings overlapped

voucherVars == <<voucher, wallet, held, forgotten, cutOff, raced>>

VoucherWork ==
    [op: {"claim"}, u: Users, code: Codes]
        \cup [op: {"save"}, u: Users, id: 1..MaxVouchers]
        \cup [op: {"rename"}, id: 1..MaxVouchers, code: Codes, used: Nat]
        \cup [op: {"remove"}, id: 1..MaxVouchers, used: Nat]
        \cup [op: {"toggle"}, id: 1..MaxVouchers, active: BOOLEAN]

VoucherTypeOK ==
    /\ voucher \in [id: 1..MaxVouchers, exists: BOOLEAN, code: Codes, active: BOOLEAN,
                    used: Nat, max: Limits]
    /\ wallet \in [Users -> {"none", "saved", "used"}]
    /\ held \in [Users \X Codes -> Nat]
    /\ forgotten \in [Users -> Nat]
    /\ cutOff \in BOOLEAN
    /\ raced \subseteq Users

NewVoucher(id, code, max) ==
    [id |-> id, exists |-> TRUE, code |-> code, active |-> TRUE, used |-> 0, max |-> max]

VoucherInit ==
    /\ voucher = NewVoucher(1, CHOOSE k \in Codes : TRUE, CHOOSE n \in Limits : TRUE)
    /\ wallet = [u \in Users |-> "none"]
    /\ held = [p \in Users \X Codes |-> 0]
    /\ forgotten = [u \in Users |-> 0]
    /\ cutOff = FALSE
    /\ raced = {}

IsFor(code) == voucher.exists /\ voucher.code = code
IsRow(id) == voucher.exists /\ voucher.id = id

LiveUses(u) == Total([k \in Codes |-> held[<<u, k>>]])
Bookings == Total(held) + Total(forgotten)

-----------------------------------------------------------------------------
(* Customers.                                                              *)

\* Mutant: one use too many passes.
ValidateVoucherOffByOne(c, u) ==
    /\ voucher.exists /\ voucher.active
    /\ voucher.used < voucher.max
    /\ held[<<u, voucher.code>>] <= PerUser
    /\ Bookings < MaxBookings
    /\ Start(c, [op |-> "claim", u |-> u, code |-> voucher.code])
    /\ UNCHANGED voucherVars

\* validateVoucher at the start of create: the live bookings of the customer with
\* this code are counted, and not locked.
ValidateVoucher(c, u) ==
    /\ voucher.exists /\ voucher.active
    /\ voucher.used < voucher.max
    /\ held[<<u, voucher.code>>] < PerUser
    /\ Bookings < MaxBookings
    /\ Start(c, [op |-> "claim", u |-> u, code |-> voucher.code])
    /\ UNCHANGED voucherVars

\* claimVoucherInTx and the insertion of the booking, one transaction.  A code
\* that is found no more claims nothing, and the booking keeps its discount.
ClaimVoucherInTx(c) ==
    /\ Doing(c, "claim")
    /\ LET u == call[c].u
           code == call[c].code
           rival == \E x \in Calls \ {c} : Doing(x, "claim") /\ call[x].u = u
       IN IF IsFor(code) /\ voucher.used >= voucher.max
          THEN UNCHANGED voucherVars
          ELSE /\ IF IsFor(code)
                  THEN /\ voucher' = [voucher EXCEPT !.used = @ + 1]
                       /\ wallet' = [wallet EXCEPT ![u] = IF @ = "saved" THEN "used" ELSE @]
                       /\ UNCHANGED cutOff
                  ELSE cutOff' = TRUE /\ UNCHANGED <<voucher, wallet>>
               /\ held' = [held EXCEPT ![<<u, code>>] = @ + 1]
               /\ raced' = IF rival THEN raced \cup {u} ELSE raced
               /\ UNCHANGED forgotten
    /\ Finish(c)

\* Mutant: the wallet is left alone.
ReleaseVoucherInTxKeepsWallet(u, code) ==
    /\ held[<<u, code>>] > 0
    /\ held' = [held EXCEPT ![<<u, code>>] = @ - 1]
    /\ IF IsFor(code) /\ voucher.used > 0
       THEN voucher' = [voucher EXCEPT !.used = @ - 1]
       ELSE UNCHANGED voucher
    /\ UNCHANGED <<call, wallet, forgotten, cutOff, raced>>

\* Mutant: the decrement forgets WHERE usedCount > 0.
ReleaseVoucherInTxBelowZero(u, code) ==
    /\ held[<<u, code>>] > 0
    /\ held' = [held EXCEPT ![<<u, code>>] = @ - 1]
    /\ IF IsFor(code)
       THEN voucher' = [voucher EXCEPT !.used = @ - 1]
       ELSE UNCHANGED voucher
    /\ IF IsFor(code) /\ wallet[u] = "used"
       THEN wallet' = [wallet EXCEPT ![u] = "saved"]
       ELSE UNCHANGED wallet
    /\ UNCHANGED <<call, forgotten, cutOff, raced>>

\* A booking expires, or its link fails: releaseVoucherInTx.
ReleaseVoucherInTx(u, code) ==
    /\ held[<<u, code>>] > 0
    /\ held' = [held EXCEPT ![<<u, code>>] = @ - 1]
    /\ IF IsFor(code) /\ voucher.used > 0
       THEN voucher' = [voucher EXCEPT !.used = @ - 1]
       ELSE UNCHANGED voucher
    /\ IF IsFor(code) /\ wallet[u] = "used"
       THEN wallet' = [wallet EXCEPT ![u] = "saved"]
       ELSE UNCHANGED wallet
    /\ UNCHANGED <<call, forgotten, cutOff, raced>>

\* The customer or an admin cancels: the use stays counted.
CancelBooking(u, code) ==
    /\ held[<<u, code>>] > 0
    /\ held' = [held EXCEPT ![<<u, code>>] = @ - 1]
    /\ forgotten' = [forgotten EXCEPT ![u] = @ + 1]
    /\ UNCHANGED <<call, voucher, wallet, cutOff, raced>>

SaveToWallet(c, u) ==
    /\ voucher.exists /\ voucher.active
    /\ wallet[u] = "none"
    /\ Start(c, [op |-> "save", u |-> u, id |-> voucher.id])
    /\ UNCHANGED voucherVars

\* The row is unique per customer and refers to the voucher.
SaveWrite(c) ==
    /\ Doing(c, "save")
    /\ IF IsRow(call[c].id) /\ wallet[call[c].u] = "none"
       THEN wallet' = [wallet EXCEPT ![call[c].u] = "saved"]
       ELSE UNCHANGED wallet
    /\ Finish(c)
    /\ UNCHANGED <<voucher, held, forgotten, cutOff, raced>>

-----------------------------------------------------------------------------
(* Administration.                                                         *)

AdminCreate ==
    /\ ~voucher.exists
    /\ voucher.id < MaxVouchers
    /\ \E code \in Codes, max \in Limits : voucher' = NewVoucher(voucher.id + 1, code, max)
    /\ UNCHANGED <<call, wallet, held, forgotten, cutOff, raced>>

\* Mutant: a code in use may change.
RenameReadUnchecked(c) ==
    /\ voucher.exists
    /\ \E code \in Codes \ {voucher.code} :
        Start(c, [op |-> "rename", id |-> voucher.id, code |-> code, used |-> voucher.used])
    /\ UNCHANGED voucherVars

\* adminUpdate with a new code.
RenameRead(c) ==
    /\ voucher.exists
    /\ voucher.used = 0
    /\ \E code \in Codes \ {voucher.code} :
        Start(c, [op |-> "rename", id |-> voucher.id, code |-> code, used |-> voucher.used])
    /\ UNCHANGED voucherVars

\* The check is stale when a booking claimed a use since.
Overtaken(c) == call[c].used = 0 /\ voucher.used > 0

RenameWrite(c) ==
    /\ Doing(c, "rename")
    /\ IF IsRow(call[c].id)
       THEN /\ voucher' = [voucher EXCEPT !.code = call[c].code]
            /\ cutOff' = (cutOff \/ Overtaken(c))
       ELSE UNCHANGED <<voucher, cutOff>>
    /\ Finish(c)
    /\ UNCHANGED <<wallet, held, forgotten, raced>>

\* adminUpdate with a new maxUses, which may be below usedCount.
SetMaxUses ==
    /\ voucher.exists
    /\ \E max \in Limits : voucher' = [voucher EXCEPT !.max = max]
    /\ UNCHANGED <<call, wallet, held, forgotten, cutOff, raced>>

\* adminToggleActive.
ToggleRead(c) ==
    /\ voucher.exists
    /\ Start(c, [op |-> "toggle", id |-> voucher.id, active |-> ~voucher.active])
    /\ UNCHANGED voucherVars

ToggleWrite(c) ==
    /\ Doing(c, "toggle")
    /\ voucher' = IF IsRow(call[c].id) THEN [voucher EXCEPT !.active = call[c].active] ELSE voucher
    /\ Finish(c)
    /\ UNCHANGED <<wallet, held, forgotten, cutOff, raced>>

\* adminBulkSetActive.
BulkSetActive ==
    /\ voucher.exists
    /\ \E active \in BOOLEAN : voucher' = [voucher EXCEPT !.active = active]
    /\ UNCHANGED <<call, wallet, held, forgotten, cutOff, raced>>

DeleteVoucherRead(c) ==
    /\ voucher.exists
    /\ voucher.used = 0
    /\ Start(c, [op |-> "remove", id |-> voucher.id, used |-> voucher.used])
    /\ UNCHANGED voucherVars

\* One transaction for the wallet rows and the voucher.
DeleteVoucherWrite(c) ==
    /\ Doing(c, "remove")
    /\ IF IsRow(call[c].id)
       THEN /\ wallet' = [u \in Users |-> "none"]
            /\ voucher' = [voucher EXCEPT !.exists = FALSE]
            /\ cutOff' = (cutOff \/ Overtaken(c))
       ELSE UNCHANGED <<wallet, voucher, cutOff>>
    /\ Finish(c)
    /\ UNCHANGED <<held, forgotten, raced>>

VoucherNext ==
    \/ \E c \in Calls, u \in Users : ValidateVoucher(c, u) \/ SaveToWallet(c, u)
    \/ \E c \in Calls :
        \/ ClaimVoucherInTx(c) \/ SaveWrite(c)
        \/ RenameRead(c) \/ RenameWrite(c)
        \/ ToggleRead(c) \/ ToggleWrite(c)
        \/ DeleteVoucherRead(c) \/ DeleteVoucherWrite(c)
    \/ \E u \in Users, code \in Codes : ReleaseVoucherInTx(u, code) \/ CancelBooking(u, code)
    \/ AdminCreate \/ SetMaxUses \/ BulkSetActive

VoucherSpec ==
    /\ VoucherInit /\ call = [c \in Calls |-> Idle]
    /\ [][VoucherNext]_<<call, voucherVars>>

-----------------------------------------------------------------------------
\* usedCount is exactly the live bookings with the voucher and those cancelled
\* without a release, unless a rename or a removal overlapped with a booking that
\* used the code (claimVoucherInTx, releaseVoucherInTx, adminUpdate, adminDelete).
UsesAccountedFor == cutOff \/ voucher.used = Bookings

\* A customer holds more live bookings with the voucher than usageLimitPerUser only
\* after two of the customer's bookings were made at once (validateVoucher).
PerUserLimitKept == cutOff \/ \A u \in Users \ raced : LiveUses(u) <= PerUser

\* A voucher marked as used in a wallet has a booking of that customer behind it,
\* live or cancelled without a release (releaseVoucherInTx).
UsedMarkIsBacked ==
    cutOff \/ \A u \in Users : wallet[u] = "used" => LiveUses(u) + forgotten[u] > 0
=============================================================================
