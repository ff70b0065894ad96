\* Two handlers (or a handler and the cron job) on one booking, with all the
\* writes that do not check the status again.
SPECIFICATION Spec

CONSTANTS
    b1 = b1
    s1 = s1
    s2 = s2
    NoBooking = NoBooking
    Bookings = {b1}
    Slots = {s1, s2}
    Capacity = 2
    Parties <- OneSeat
    MaxParty = 1
    MaxUses = 1
    Requests = {"create", "payosReturn", "confirmInStore", "reconcile", "reportIssue", "cancelPending", "cancelConfirmed", "approve", "reject", "adminCancel", "confirmRefund"}
    NewMethods <- Methods
    NewVouchers = {FALSE}
    DraftVouchers = {TRUE}
    Calendar <- FarAway
    MaxLinks = 1
    MaxTxns = 4
    MaxFree = 3
    Crashes = FALSE

INVARIANT NoSeatLost
INVARIANT PaidHasReceipt
PROPERTY ConfirmedCancelledByAdmin
SYMMETRY Symmetric

\* Every request may have been answered and no hold may be left to lapse.
CHECK_DEADLOCK FALSE
