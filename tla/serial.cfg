\* One handler at a time, every request, a crash between any two statements,
\* the whole calendar of the refund policy.
SPECIFICATION Spec

CONSTANTS
    b1 = b1
    s1 = s1
    NoBooking = NoBooking
    Bookings = {b1}
    Slots = {s1}
    Capacity = 2
    Parties <- OneSeat
    MaxParty = 1
    MaxUses = 1
    Requests <- RequestKinds
    NewMethods <- Methods
    NewVouchers = {FALSE}
    DraftVouchers = {TRUE}
    Calendar <- Tiers
    MaxLinks = 2
    MaxTxns = 3
    MaxFree = 3
    Crashes = TRUE

INVARIANT IInv
INVARIANT SeatsConserved
INVARIANT ConfirmedIsPaid
INVARIANT RefundLedger
PROPERTY SeatsTakenOnce
SYMMETRY Symmetric

\* Every request may have been answered and no hold may be left to lapse.
CHECK_DEADLOCK FALSE
