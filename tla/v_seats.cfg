\* An admin cancels a booking while its creation waits for PayOS, which refuses the link.
SPECIFICATION Spec

CONSTANTS
    b1 = b1
    s1 = s1
    s2 = s2
    NoBooking = NoBooking
    Bookings = {b1}
    Slots = {s1, s2}
    Capacity = 2
    Parties <- OneSeat
    MaxParty = 1
    MaxUses = 1
    Requests = {"create", "adminCancel"}
    NewMethods = {"PAYOS"}
    NewVouchers = {FALSE}
    DraftVouchers = {TRUE}
    Calendar <- FarAway
    MaxLinks = 2
    MaxTxns = 3
    MaxFree = 3
    Crashes = FALSE

INVARIANT SeatsConserved
SYMMETRY Symmetric

\* Every request may have been answered and no hold may be left to lapse.
CHECK_DEADLOCK FALSE
