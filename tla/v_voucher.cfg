\* A customer cancels an unpaid booking that used a voucher.
SPECIFICATION Spec

CONSTANTS
    b1 = b1
    s1 = s1
    NoBooking = NoBooking
    Bookings = {b1}
    Slots = {s1}
    Capacity = 2
    Parties <- OneSeat
    MaxParty = 1
    MaxUses = 1
    Requests = {"create", "cancelPending"}
    NewMethods <- Methods
    NewVouchers = {TRUE}
    DraftVouchers = {TRUE}
    Calendar <- FarAway
    MaxLinks = 2
    MaxTxns = 3
    MaxFree = 3
    Crashes = FALSE

INVARIANT VoucherUsesReturned
SYMMETRY Symmetric

\* Every request may have been answered and no hold may be left to lapse.
CHECK_DEADLOCK FALSE
