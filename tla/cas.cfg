\* Two handlers on two bookings that compete for two seats and one voucher use.
SPECIFICATION Spec

CONSTANTS
    b1 = b1
    b2 = b2
    s1 = s1
    s2 = s2
    NoBooking = NoBooking
    Bookings = {b1, b2}
    Slots = {s1, s2}
    Capacity = 2
    Parties <- OneOrTwo
    MaxParty = 2
    MaxUses = 1
    Requests = {"create", "payosReturn", "confirmInStore", "cancelPending"}
    NewMethods <- Methods
    NewVouchers = {TRUE, FALSE}
    DraftVouchers = {TRUE}
    Calendar <- FarAway
    MaxLinks = 1
    MaxTxns = 2
    MaxFree = 3
    Crashes = FALSE

INVARIANT NoOverselling
INVARIANT DiscountsCovered
INVARIANT ReceiptOnce
PROPERTY CancelledIsFinal
PROPERTY SeatsTakenOnce
SYMMETRY Symmetric

\* Every request may have been answered and no hold may be left to lapse.
CHECK_DEADLOCK FALSE
