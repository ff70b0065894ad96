\* A customer switches the payment method again and again.
SPECIFICATION Spec

CONSTANTS
    b1 = b1
    s1 = s1
    NoBooking = NoBooking
    Bookings = {b1}
    Slots = {s1}
    Capacity = 2
    Parties <- OneSeat
    MaxParty = 1
    MaxUses = 1
    Requests = {"create", "switchMethod"}
    NewMethods <- Methods
    NewVouchers = {FALSE}
    DraftVouchers = {TRUE}
    Calendar <- FarAway
    MaxLinks = 2
    MaxTxns = 3
    MaxFree = 3
    Crashes = FALSE

INVARIANT PayosHoldCapped
SYMMETRY Symmetric

\* Every request may have been answered and no hold may be left to lapse.
CHECK_DEADLOCK FALSE
